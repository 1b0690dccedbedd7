-------------------------- MODULE Cp3NetworkProofs --------------------------
(***************************************************************************)
(* Proofs about what the CP3 tools generate, for every scenario and list   *)
(* of arguments: that every address of a main file is linked and that what *)
(* it carries leads to addresses that are linked, that everyone in it is   *)
(* started, once, and that its actors, addresses and models fit together.  *)
(* First what the numbers and profiles of a scenario add up to, then the   *)
(* actors and where they are, the links, what they carry, the timers, and  *)
(* who is where with what; at the end the invariant that says what a       *)
(* generator knows of the scenario when it writes, and the steps.          *)
(***************************************************************************)
EXTENDS Cp3Proofs

-----------------------------------------------------------------------------
(* The network of a scenario: the links of a main file, its actors and who is seen *)
(* where.  First what the scenario's numbers and profiles add up to.                 *)

\* The functions that sum up a sequence's first n numbers.
Summing(seq, n) ==
    {f \in [0 .. n -> Int] : \A k \in 0 .. n : f[k] = IF k = 0 THEN 0 ELSE f[k - 1] + seq[k]}

\* There is one for each n.
LEMMA SummingExists ==
    ASSUME NEW m \in Nat, NEW seq \in [1 .. m -> Int]
    PROVE  \A n \in Nat : n <= m => Summing(seq, n) # {}
<1>. DEFINE A == {n \in Nat : n <= m => Summing(seq, n) # {}}
<1>1. 0 \in A
    <2>. DEFINE f == [k \in 0 .. 0 |-> 0]
    <2>1. f \in [0 .. 0 -> Int] /\ \A k \in 0 .. 0 : k = 0 /\ f[k] = 0
        OBVIOUS
    <2>. HIDE DEF f
    <2>2. f \in Summing(seq, 0)
        BY <2>1 DEF Summing
    <2>. QED
        BY <2>2
<1>2. ASSUME NEW n \in Nat, n \in A PROVE n + 1 \in A
    <2>. SUFFICES ASSUME n + 1 <= m PROVE Summing(seq, n + 1) # {}
        OBVIOUS
    <2>1. PICK f : f \in Summing(seq, n)
        BY <1>2
    <2>2. f \in [0 .. n -> Int] /\ \A k \in 0 .. n : f[k] = IF k = 0 THEN 0 ELSE f[k - 1] + seq[k]
        BY <2>1 DEF Summing
    <2>. DEFINE next == f[n] + seq[n + 1]
                g == [k \in 0 .. n + 1 |-> IF k = n + 1 THEN next ELSE f[k]]
    <2>3. next \in Int
        <3>1. f[n] \in Int /\ seq[n + 1] \in Int
            BY <2>2
        <3>. QED
            BY <3>1
    <2>4. ASSUME NEW k \in 0 .. n + 1
          PROVE  g[k] \in Int /\ g[k] = IF k = 0 THEN 0 ELSE g[k - 1] + seq[k]
        <3>1. CASE k = n + 1
            <4>1. k # 0 /\ k - 1 = n /\ n \in 0 .. n + 1 /\ n # n + 1
                BY <3>1
            <4>2. g[k] = next /\ g[k - 1] = f[n] /\ seq[k] = seq[n + 1]
                BY <3>1, <4>1
            <4>. HIDE DEF g
            <4>. QED
                BY <2>3, <4>1, <4>2
        <3>2. CASE k # n + 1
            <4>1. k \in 0 .. n /\ g[k] = f[k] /\ (k # 0 => k - 1 \in 0 .. n /\ g[k - 1] = f[k - 1])
                BY <3>2
            <4>. HIDE DEF g
            <4>. QED
                BY <2>2, <4>1
        <3>. QED
            BY <3>1, <3>2
    <2>5. g = [k \in 0 .. n + 1 |-> g[k]]
        OBVIOUS
    <2>. HIDE DEF g
    <2>6. g \in Summing(seq, n + 1)
        BY <2>4, <2>5 DEF Summing
    <2>. QED
        BY <2>6
<1>3. Nat \subseteq A
    <2>. HIDE DEF A
    <2>. QED
        BY <1>1, <1>2, Induction
<1>. QED
    BY <1>3

\* SumTo is its last number.
LEMMA SumIsLast ==
    ASSUME NEW m \in Nat, NEW seq \in [1 .. m -> Int], NEW n \in 0 .. m
    PROVE  \E f \in Summing(seq, n) : SumTo(seq, n) = f[n]
<1>. DEFINE Is(f) == f = [k \in 0 .. n |-> IF k = 0 THEN 0 ELSE f[k - 1] + seq[k]]
            sum == CHOOSE f : Is(f)
<1>1. SumTo(seq, n) = sum[n]
    BY DEF SumTo
<1>2. PICK g : g \in Summing(seq, n)
    BY SummingExists
<1>3. Is(g)
    <2>1. g = [k \in 0 .. n |-> g[k]]
        BY <1>2 DEF Summing
    <2>2. \A k \in 0 .. n : g[k] = IF k = 0 THEN 0 ELSE g[k - 1] + seq[k]
        BY <1>2 DEF Summing
    <2>. QED
        BY <2>1, <2>2
<1>4. Is(sum)
    <2>. HIDE DEF Is
    <2>. QED
        BY <1>3
<1>5. \A k \in 0 .. n : sum[k] = IF k = 0 THEN 0 ELSE sum[k - 1] + seq[k]
    <2>. HIDE DEF sum
    <2>. QED
        BY <1>4
<1>6. sum = [k \in 0 .. n |-> sum[k]]
    <2>. HIDE DEF sum
    <2>. QED
        BY <1>4
<1>. HIDE DEF sum
<1>7. \A k \in 0 .. n : sum[k] \in Int
    <2>. DEFINE A == {k \in Nat : k \in 0 .. n => sum[k] \in Int}
    <2>1. 0 \in A
        BY <1>5
    <2>2. ASSUME NEW k \in Nat, k \in A PROVE k + 1 \in A
        <3>. SUFFICES ASSUME k + 1 \in 0 .. n PROVE sum[k + 1] \in Int
            OBVIOUS
        <3>1. k \in 0 .. n /\ k + 1 # 0 /\ (k + 1) - 1 = k /\ k + 1 \in 1 .. m
            OBVIOUS
        <3>2. sum[k] \in Int /\ sum[k + 1] = sum[k] + seq[k + 1] /\ seq[k + 1] \in Int
            BY <1>5, <2>2, <3>1
        <3>. QED
            BY <3>2
    <2>. HIDE DEF A
    <2>3. Nat \subseteq A
        BY <2>1, <2>2, Induction
    <2>. QED
        BY <2>3 DEF A
<1>8. sum \in Summing(seq, n)
    BY <1>5, <1>6, <1>7 DEF Summing
<1>. QED
    BY <1>1, <1>8

\* A sum up to the next number is that number more.
LEMMA SumFacts ==
    ASSUME NEW m \in Nat, NEW seq \in [1 .. m -> Int]
    PROVE  /\ SumTo(seq, 0) = 0
           /\ \A n \in 0 .. m : SumTo(seq, n) \in Int
           /\ \A n \in 0 .. m : n # m => SumTo(seq, n + 1) = SumTo(seq, n) + seq[n + 1]
<1>1. SumTo(seq, 0) = 0
    <2>1. PICK f \in Summing(seq, 0) : SumTo(seq, 0) = f[0]
        BY SumIsLast
    <2>. QED
        BY <2>1 DEF Summing
<1>2. ASSUME NEW n \in 0 .. m PROVE SumTo(seq, n) \in Int
    <2>1. PICK f \in Summing(seq, n) : SumTo(seq, n) = f[n]
        BY SumIsLast
    <2>. QED
        BY <2>1 DEF Summing
<1>3. ASSUME NEW n \in 0 .. m, n # m PROVE SumTo(seq, n + 1) = SumTo(seq, n) + seq[n + 1]
    <2>1. n \in Nat /\ n + 1 \in 0 .. m
        BY <1>3
    <2>2. PICK f \in Summing(seq, n) : SumTo(seq, n) = f[n]
        BY SumIsLast
    <2>3. PICK g \in Summing(seq, n + 1) : SumTo(seq, n + 1) = g[n + 1]
        BY <2>1, SumIsLast
    <2>4. \A k \in 0 .. n : f[k] = IF k = 0 THEN 0 ELSE f[k - 1] + seq[k]
        BY DEF Summing
    <2>5. \A k \in 0 .. n + 1 : g[k] = IF k = 0 THEN 0 ELSE g[k - 1] + seq[k]
        BY DEF Summing
    <2>. DEFINE A == {k \in Nat : k \in 0 .. n => f[k] = g[k]}
    <2>6. 0 \in A
        <3>1. 0 \in 0 .. n /\ 0 \in 0 .. n + 1
            BY <2>1
        <3>. QED
            BY <2>4, <2>5, <3>1
    <2>7. ASSUME NEW k \in Nat, k \in A PROVE k + 1 \in A
        <3>. SUFFICES ASSUME k + 1 \in 0 .. n PROVE f[k + 1] = g[k + 1]
            OBVIOUS
        <3>1. k \in 0 .. n /\ k + 1 \in 0 .. n + 1 /\ k + 1 # 0 /\ (k + 1) - 1 = k
            BY <2>1
        <3>2. f[k] = g[k]
            BY <2>7, <3>1
        <3>. QED
            BY <2>4, <2>5, <3>1, <3>2
    <2>. HIDE DEF A
    <2>8. Nat \subseteq A
        BY <2>6, <2>7, Induction
    <2>9. f[n] = g[n]
        BY <2>1, <2>8 DEF A
    <2>10. g[n + 1] = g[n] + seq[n + 1]
        <3>1. n + 1 \in 0 .. n + 1 /\ n + 1 # 0 /\ (n + 1) - 1 = n
            BY <2>1
        <3>. QED
            BY <2>5, <3>1
    <2>. QED
        BY <2>2, <2>3, <2>9, <2>10
<1>. QED
    BY <1>1, <1>2, <1>3

\* As many elements as a number says, none if it is negative.
LEMMA RepeatedSeq ==
    ASSUME NEW n \in Int, NEW V, NEW f, \A l \in 1 .. n : f[l] \in V
    PROVE  /\ [l \in 1 .. n |-> f[l]] \in Seq(V)
           /\ Len([l \in 1 .. n |-> f[l]]) = IF n < 0 THEN 0 ELSE n
<1>. DEFINE m == IF n < 0 THEN 0 ELSE n
            seq == [l \in 1 .. n |-> f[l]]
<1>1. m \in Nat /\ 1 .. n = 1 .. m
    OBVIOUS
<1>2. seq \in [1 .. m -> V] /\ DOMAIN seq = 1 .. m
    BY <1>1
<1>. HIDE DEF m, seq
<1>3. seq \in Seq(V)
    BY <1>1, <1>2, SeqOfFunction
<1>4. Len(seq) = m
    BY <1>1, <1>2, <1>3
<1>. QED
    BY <1>3, <1>4 DEF m, seq

\* How many get each profile.
LEMMA CountInt ==
    ASSUME NEW qty \in Int, NEW profs, profs \in Seq(Range(profs)), \A p \in Range(profs) : p.share \in Int
    PROVE  \A k \in DOMAIN profs : ProfileCount(qty, profs, k) \in Int
<1>. DEFINE share == [l \in DOMAIN profs |-> RoundHalfEven(qty * profs[l].share, 100)]
            n == Len(profs)
<1>1. n \in Nat /\ DOMAIN profs = 1 .. n
    OBVIOUS
<1>2. \A l \in DOMAIN profs : profs[l].share \in Int
    BY DEF Range
<1>3. \A v \in Int : RoundHalfEven(v, 100) \in Int
    BY DEF RoundHalfEven
<1>4. \A l \in DOMAIN profs : qty * profs[l].share \in Int
    BY <1>2
<1>5. \A l \in DOMAIN profs : RoundHalfEven(qty * profs[l].share, 100) \in Int
    BY <1>3, <1>4
<1>6. share \in [1 .. n -> Int]
    BY <1>1, <1>5
<1>. SUFFICES ASSUME NEW k \in DOMAIN profs PROVE ProfileCount(qty, profs, k) \in Int
    OBVIOUS
<1>7. ProfileCount(qty, profs, k) = IF k < n THEN share[k] ELSE qty - SumTo(share, n - 1)
    BY DEF ProfileCount
<1>. HIDE DEF share, n
<1>8. n - 1 \in 0 .. n
    BY <1>1
<1>9. SumTo(share, n - 1) \in Int
    BY <1>1, <1>6, <1>8, SumFacts
<1>10. share[k] \in Int
    BY <1>1, <1>6
<1>. QED
    BY <1>7, <1>9, <1>10

\* What is given out are names of profiles.
LEMMA ProfilesFacts ==
    ASSUME NEW qty \in Int, NEW profs, profs \in Seq(Range(profs)), \A p \in Range(profs) : p.share \in Int
    PROVE  distribute_profiles(qty, profs) \in Seq({p.name : p \in Range(profs)})
<1>. DEFINE names == {p.name : p \in Range(profs)}
            n == Len(profs)
            seqs == [k \in DOMAIN profs |-> [l \in 1 .. ProfileCount(qty, profs, k) |-> profs[k].name]]
<1>1. n \in Nat /\ DOMAIN profs = 1 .. n
    OBVIOUS
<1>2. \A k \in DOMAIN profs : profs[k].name \in names
    BY DEF Range
<1>3. ASSUME NEW k \in DOMAIN profs PROVE seqs[k] \in Seq(names)
    <2>. DEFINE count == ProfileCount(qty, profs, k)
                f == [l \in 1 .. count |-> profs[k].name]
    <2>1. count \in Int
        BY CountInt
    <2>2. seqs[k] = [l \in 1 .. count |-> f[l]] /\ \A l \in 1 .. count : f[l] \in names
        BY <1>2
    <2>. HIDE DEF count, f, names, seqs
    <2>3. [l \in 1 .. count |-> f[l]] \in Seq(names)
        BY <2>1, <2>2, RepeatedSeq
    <2>. QED
        BY <2>2, <2>3
<1>4. distribute_profiles(qty, profs) = FlattenSeq(seqs)
    BY DEF distribute_profiles
<1>5. seqs = [k \in 1 .. n |-> seqs[k]]
    BY <1>1
<1>. HIDE DEF names, n, seqs
<1>6. seqs \in [1 .. n -> Seq(names)]
    BY <1>1, <1>3, <1>5
<1>7. seqs \in Seq(Seq(names))
    BY <1>1, <1>6, SeqOfFunction
<1>. QED
    BY <1>4, <1>7, FlattenFacts DEF names

\* The generators of one entry of the scenario.
EntryTgens(t) ==
    LET profiles == distribute_profiles(t.qty, t.profs)
    IN [i \in DOMAIN profiles |-> [type |-> t.type, net |-> t.net, idx |-> i, profile |-> profiles[i]]]

\* They are a sequence, as long as the profiles that are given out.
LEMMA EntryFacts ==
    ASSUME scenario \in Scenarios, NEW t \in Range(S.tgens)
    PROVE  LET profiles == distribute_profiles(t.qty, t.profs)
           IN /\ profiles \in Seq({p.name : p \in Range(t.profs)})
              /\ EntryTgens(t) \in Seq(Range(EntryTgens(t))) /\ DOMAIN EntryTgens(t) = 1 .. Len(profiles)
              /\ Len(EntryTgens(t)) = Len(profiles)
              /\ \A i \in 1 .. Len(profiles) :
                    EntryTgens(t)[i] = [type |-> t.type, net |-> t.net, idx |-> i, profile |-> profiles[i]]
<1>. DEFINE profiles == distribute_profiles(t.qty, t.profs)
            n == Len(profiles)
            seq == EntryTgens(t)
<1>1. t.qty \in Int /\ t.profs \in Seq(Range(t.profs)) /\ \A p \in Range(t.profs) : p.share \in Int
    BY ScenariosAssumption DEF S
<1>2. profiles \in Seq({p.name : p \in Range(t.profs)})
    BY <1>1, ProfilesFacts
<1>3. n \in Nat /\ DOMAIN profiles = 1 .. n
    BY <1>2, LenProperties
<1>4. DOMAIN seq = 1 .. n /\ seq = [i \in 1 .. n |-> seq[i]]
      /\ \A i \in 1 .. n : seq[i] = [type |-> t.type, net |-> t.net, idx |-> i, profile |-> profiles[i]]
    BY <1>3 DEF EntryTgens
<1>. HIDE DEF n, seq
<1>5. \A i \in 1 .. n : seq[i] \in Range(seq)
    BY <1>4 DEF Range
<1>6. seq \in [1 .. n -> Range(seq)]
    BY <1>4, <1>5
<1>7. seq \in Seq(Range(seq))
    BY <1>3, <1>6, SeqOfFunction
<1>8. Len(seq) = n
    BY <1>3, <1>4, <1>7
<1>. QED
    BY <1>2, <1>4, <1>7, <1>8 DEF n, seq

\* Every generator is of an entry, and they are finitely many.
LEMMA TgensFacts ==
    ASSUME scenario \in Scenarios
    PROVE  /\ IsFiniteSet(Tgens(S))
           /\ Tgens(S) = UNION {Range(EntryTgens(S.tgens[k])) : k \in DOMAIN S.tgens}
<1>. DEFINE defs == S.tgens
            n == Len(defs)
            seqs == [k \in DOMAIN defs |-> EntryTgens(defs[k])]
            V == UNION {Range(EntryTgens(defs[k])) : k \in DOMAIN defs}
<1>1. defs \in Seq(Range(defs))
    BY ScenariosAssumption DEF S
<1>2. generate_all_tgen_instances(S) = FlattenSeq(seqs)
    BY DEF generate_all_tgen_instances, EntryTgens
<1>3. n \in Nat /\ DOMAIN defs = 1 .. n
    BY <1>1
<1>4. ASSUME NEW k \in DOMAIN defs PROVE seqs[k] \in Seq(V)
    <2>1. defs[k] \in Range(defs)
        BY DEF Range
    <2>2. EntryTgens(defs[k]) \in Seq(Range(EntryTgens(defs[k])))
        BY <2>1, EntryFacts
    <2>3. Range(EntryTgens(defs[k])) \subseteq V
        OBVIOUS
    <2>4. seqs[k] = EntryTgens(defs[k])
        OBVIOUS
    <2>. HIDE DEF V, seqs
    <2>5. \A A, B : A \subseteq B => Seq(A) \subseteq Seq(B)
        OBVIOUS
    <2>. QED
        BY <2>2, <2>3, <2>4, <2>5
<1>5. seqs = [k \in 1 .. n |-> seqs[k]] /\ DOMAIN seqs = DOMAIN defs
    BY <1>3
<1>6. \A k \in DOMAIN defs : seqs[k] = EntryTgens(defs[k])
    OBVIOUS
<1>. HIDE DEF n, seqs
<1>7. seqs \in [1 .. n -> Seq(V)]
    BY <1>3, <1>4, <1>5
<1>8. seqs \in Seq(Seq(V))
    <2>. HIDE DEF V
    <2>. QED
        BY <1>3, <1>7, SeqOfFunction
<1>9. FlattenSeq(seqs) \in Seq(V) /\ Range(FlattenSeq(seqs)) = UNION {Range(seqs[k]) : k \in DOMAIN seqs}
    <2>. HIDE DEF V
    <2>. QED
        BY <1>8, FlattenFacts
<1>10. IsFiniteSet(Tgens(S))
    <2>. HIDE DEF V
    <2>. QED
        BY <1>2, <1>9, FiniteRange DEF Tgens
<1>11. UNION {Range(seqs[k]) : k \in DOMAIN seqs} = V
    BY <1>5, <1>6
<1>. QED
    BY <1>2, <1>9, <1>10, <1>11 DEF Tgens

\* Somebody is at an address.
At(s, addr) == \E a \in DefinedActors(s) : a.at = addr /\ a.name \in initState(s)

\* What is placed for the one tool is for the other.
LEMMA AtPlaced ==
    ASSUME NEW s, NEW tool, NEW addr, At(s, addr)
    PROVE  addr \in {a.at : a \in PlacedBy(Output(tool, s))}
<1>1. PICK a \in DefinedActors(s) : a.at = addr /\ a.name \in initState(s)
    BY DEF At
<1>2. /\ Output(tool, s).defined = IF tool = "generate" THEN DefinedActors(s)
                                   ELSE ScriptClients(s) \cup ScriptBase \cup ScriptDns \cup ScriptTgens(s)
      /\ Output(tool, s).names = IF tool = "generate" THEN initState(s) ELSE ScriptInitState(s)
    BY DEF Output, GenOutput, ScriptOutput
<1>3. DefinedActors(s) \subseteq ScriptClients(s) \cup ScriptBase \cup ScriptDns \cup ScriptTgens(s)
    BY DEF DefinedActors, ScriptClients, ScriptBase, ScriptDns, ScriptTgens
<1>4. initState(s) \subseteq ScriptInitState(s)
    BY DEF ScriptInitState
<1>5. a \in Output(tool, s).defined /\ a.name \in Output(tool, s).names
    BY <1>1, <1>2, <1>3, <1>4
<1>. QED
    BY <1>1, <1>5 DEF PlacedBy

\* The fields of an actor.
LEMMA ActorFields ==
    \A name, at, refs, model :
        /\ Actor(name, at, refs, model).name = name /\ Actor(name, at, refs, model).at = at
        /\ Actor(name, at, refs, model).refs = refs
        /\ Actor(name, at, refs, model).model = model /\ Actor(name, at, refs, model).carries = {}
BY DEF Actor

\* The fields of a network client.
LEMMA NetClientFields ==
    \A name, at, server, client, dns :
        LET a == NetClient(name, at, server, client, dns)
        IN /\ a.name = name /\ a.at = at /\ a.model = NoModel /\ a.refs = {server, client} \cup dns
           /\ a.carries = {[server |-> server, client |-> client, dns |-> dns]}
<1>. TAKE name, at, server, client, dns
<1>. DEFINE refs == {server, client} \cup dns
            carries == {[server |-> server, client |-> client, dns |-> dns]}
<1>. HIDE DEF refs, carries
<1>1. NetClient(name, at, server, client, dns) = [Actor(name, at, refs, NoModel) EXCEPT !.carries = carries]
    BY DEF NetClient, refs, carries
<1>2. DOMAIN Actor(name, at, refs, NoModel) = {"name", "at", "refs", "model", "carries"}
    BY DEF Actor
<1>. QED
    BY <1>1, <1>2, ActorFields DEF refs, carries

\* What the initial state consists of.
LEMMA PlacedHere ==
    ASSUME NEW s
    PROVE  /\ \A name \in SharedPlaced : Shared(name) \in initState(s)
           /\ \A ch \in Channels : \A name \in PlacedNames[ch] : \A i \in Range(ClientIds(s, ch)) :
                 OfClient(ch, i, name) \in initState(s)
           /\ \A t \in Tgens(s) : \A name \in PlacedNames[t.type] : OfTgen(t, name) \in initState(s)
<1>. DEFINE shared == {Shared(name) : name \in SharedPlaced}
            more == IF ClientIds(s, "mastodon") = <<>> THEN {} ELSE {Shared("masNetSrv")}
            names(ch) == {OfClient(ch, i, name) : name \in PlacedNames[ch], i \in Range(ClientIds(s, ch))}
            clients == UNION {names(ch) : ch \in Channels}
            of(t) == {OfTgen(t, name) : name \in PlacedNames[t.type]}
            tgens == UNION {of(t) : t \in Tgens(s)}
<1>1. initState(s) = shared \cup more \cup clients \cup tgens
    BY DEF initState
<1>2. \A name \in SharedPlaced : Shared(name) \in shared
    OBVIOUS
<1>3. \A ch \in Channels : \A name \in PlacedNames[ch] : \A i \in Range(ClientIds(s, ch)) : OfClient(ch, i, name) \in clients
    <2>1. \A ch \in Channels : \A name \in PlacedNames[ch] : \A i \in Range(ClientIds(s, ch)) : OfClient(ch, i, name) \in names(ch)
        OBVIOUS
    <2>2. \A ch \in Channels : names(ch) \subseteq clients
        <3>. HIDE DEF names
        <3>. QED
            OBVIOUS
    <2>. QED
        BY <2>1, <2>2
<1>4. \A t \in Tgens(s) : \A name \in PlacedNames[t.type] : OfTgen(t, name) \in tgens
    <2>1. \A t \in Tgens(s) : \A name \in PlacedNames[t.type] : OfTgen(t, name) \in of(t)
        OBVIOUS
    <2>2. \A t \in Tgens(s) : of(t) \subseteq tgens
        <3>. HIDE DEF of
        <3>. QED
            OBVIOUS
    <2>. QED
        BY <2>1, <2>2
<1>. HIDE DEF shared, more, clients, tgens
<1>. QED
    BY <1>1, <1>2, <1>3, <1>4

\* Which actors there are.
LEMMA DefinedHere ==
    ASSUME NEW s
    PROVE  DefinedActors(s) = BaseActors \cup DnsActors \cup TgenServerActors(s)
             \cup (UNION {ChannelActors(s, ch) : ch \in Channels}) \cup (UNION {TgenActors(t) : t \in Tgens(s)})
BY DEF DefinedActors

\* The servers, resolvers and their network clients are there.
LEMMA SharedAt ==
    ASSUME NEW s
    PROVE  /\ At(s, S3Srv) /\ At(s, Irc) /\ At(s, Mastodon) /\ At(s, PublicDns) /\ At(s, PublicNetSrv)
           /\ At(s, Shared("ftpSrvAddr")) /\ At(s, Shared("gorillaSrvAddr"))
           /\ \A r \in Resolvers : At(s, Shared(r.dns)) /\ At(s, Shared(r.cl))
<1>. USE ActorFields
<1>0. BaseActors \cup DnsActors \cup TgenServerActors(s) \subseteq DefinedActors(s)
    BY DefinedHere
<1>1. ASSUME NEW a \in BaseActors \cup DnsActors \cup TgenServerActors(s), NEW name \in SharedPlaced, a.name = Shared(name)
      PROVE  At(s, a.at)
    BY <1>0, <1>1, PlacedHere DEF At
<1>2. At(s, S3Srv)
    BY <1>1, Actor(Shared("s3SrvAct"), S3Srv, {}, NoModel) \in BaseActors, "s3SrvAct" \in SharedPlaced DEF BaseActors, SharedPlaced
<1>3. At(s, Irc)
    BY <1>1, Actor(Shared("ircServer"), Irc, {}, NoModel) \in BaseActors, "ircServer" \in SharedPlaced DEF BaseActors, SharedPlaced
<1>4. At(s, Mastodon)
    BY <1>1, Actor(Shared("masSrvAct"), Mastodon, {}, NoModel) \in BaseActors, "masSrvAct" \in SharedPlaced DEF BaseActors, SharedPlaced
<1>5. At(s, PublicDns)
    <2>1. Actor(Shared("publicDnsAddr"), Shared("publicDnsAddr"), {}, NoModel) \in DnsActors
        BY DEF DnsActors
    <2>. QED
        BY <1>1, <2>1, "publicDnsAddr" \in SharedPlaced DEF SharedPlaced, PublicDns
<1>6. At(s, PublicNetSrv)
    <2>1. Actor(Shared("publicResolverNetSrvAddr"), Shared("publicResolverNetSrvAddr"), {Shared("publicDnsAddr")}, NoModel)
            \in DnsActors
        BY DEF DnsActors
    <2>. QED
        BY <1>1, <2>1, "publicResolverNetSrvAddr" \in SharedPlaced DEF SharedPlaced, PublicNetSrv
<1>7. At(s, Shared("ftpSrvAddr"))
    <2>1. \E a \in TgenServerActors(s) : a.at = Shared("ftpSrvAddr") /\ a.name = Shared("ftpSrvAct")
        BY DEF TgenServerActors
    <2>. QED
        BY <1>1, <2>1, "ftpSrvAct" \in SharedPlaced DEF SharedPlaced
<1>8. At(s, Shared("gorillaSrvAddr"))
    <2>1. \E a \in TgenServerActors(s) : a.at = Shared("gorillaSrvAddr") /\ a.name = Shared("gorillaSrvAct")
        BY DEF TgenServerActors
    <2>. QED
        BY <1>1, <2>1, "gorillaSrvAct" \in SharedPlaced DEF SharedPlaced
<1>9. ASSUME NEW r \in Resolvers PROVE At(s, Shared(r.dns)) /\ At(s, Shared(r.cl))
    <2>1. r.dns \in SharedPlaced /\ r.cl \in SharedPlaced
        BY DEF SharedPlaced
    <2>2. Actor(Shared(r.dns), Shared(r.dns), {Shared(r.cl)}, NoModel) \in DnsActors
        BY DEF DnsActors
    <2>3. Actor(Shared(r.cl), Shared(r.cl), {Shared("publicResolverNetSrvAddr"), Shared("publicDnsAddr"), Shared(r.dns)}, NoModel)
            \in DnsActors
        BY DEF DnsActors
    <2>. QED
        BY <1>1, <2>1, <2>2, <2>3
<1>. QED
    BY <1>2, <1>3, <1>4, <1>5, <1>6, <1>7, <1>8, <1>9

\* The actors of a client.
ClientActors(ch, i, profile) ==
    CASE ch = "webtunnel" -> WebtunnelClient(i, profile)
      [] ch = "skyhook"   -> SkyhookClient(i, profile)
      [] ch = "obfs4"     -> Obfs4Client(i, profile)
      [] ch = "iodine"    -> IodineClient(i, profile)
      [] ch = "mastodon"  -> MastodonClient(i, profile)

\* The actors of a channel are those of its clients.
LEMMA ClientsHere ==
    ASSUME NEW s, NEW ch
    PROVE  ChannelActors(s, ch) = UNION {ClientActors(ch, i, ClientProfile(s, ch, i)) : i \in Range(ClientIds(s, ch))}
BY DEF ChannelActors, ClientActors

\* The role of an address by the role of whose it is.
AddrRole(ch, role) ==
    CASE role = "Irc" -> "IrcAddr" [] role = "Um" -> "UmAddr" [] role = "Iface" -> "IfaceAddr"
      [] role = "SrvIface" -> "SrvIfaceAddr" [] role = "Client" -> "ClientAddr" [] role = "Proxy" -> "ProxyAddr"
      [] role = "NetClient" -> "NetClientAddr" [] role = "NetServer" -> "NetServerAddr"
      [] role = "UmacAct" -> "UmacAddr" [] role = "CmacAct" -> "CmacAddr" [] role = "PuaAct" -> "PuaAddr"
      [] role = "SdkacAct" -> "SdkacAddr" [] role = "UmasAct" -> "UmasAddr" [] role = "CmasAct" -> "CmasAddr"
      [] role = "AhaAct" -> "AhaAddr" [] role = "SdkasAct" -> "SdkasAddr" [] role = "ClNet" -> "ClNetAddr"
      [] role = "NetSrv" -> IF ch = "skyhook" THEN "NetSrvAddr" ELSE "NetServerAddr"
      [] role = "SrvNetCl" -> "SrvNetClAddr" [] role = "Cl" -> "ClientAddr" [] role = "Srv" -> "ServerAddr"
      [] role = "NetCl" -> "NetClientAddr" [] role = "SendApp" -> "SendAppAddr" [] role = "RcvApp" -> "RcvAppAddr"
      [] role = "SrvNetSrv" -> "SrvNetSrvAddr" [] role = "McacAct" -> "McacAddr" [] role = "EdacAct" -> "EdacAddr"
      [] role = "McasAct" -> "McasAddr" [] role = "EdasAct" -> "EdasAddr"

\* Actors with names of given roles, each at its address.
RoleOf(a, ch, i, roles) ==
    \E role \in roles : a.name = OfClient(ch, i, role) /\ a.at = OfClient(ch, i, AddrRole(ch, role))
Named(actors, ch, i, roles) ==
    /\ \A a \in actors : RoleOf(a, ch, i, roles)
    /\ \A role \in roles : \E a \in actors : a.name = OfClient(ch, i, role)

\* The actors that every channel has are named after their roles.
LEMMA IrcSideNamed ==
    ASSUME NEW ch, NEW i, NEW p, NEW down, NEW up
    PROVE  Named(IrcSide(ch, i, p, down, up), ch, i, IrcSideNames)
BY ActorFields DEF Named, RoleOf, IrcSide, IrcSideNames, AddrRole

\* So are the actors beside those that every channel has.
LEMMA NamedFrom ==
    ASSUME NEW ch, NEW i, NEW actors, NEW side, Named(side, ch, i, IrcSideNames), NEW roles,
           side \subseteq actors,
           \A a \in actors : a \in side \/ RoleOf(a, ch, i, roles),
           \A role \in roles : \E a \in actors : a.name = OfClient(ch, i, role), PlacedNames[ch] = IrcSideNames \cup roles
    PROVE  Named(actors, ch, i, PlacedNames[ch])
BY DEF Named, RoleOf

\* The actors of a WebTunnel client are named after its roles.
LEMMA WebtunnelNamed ==
    ASSUME NEW i, NEW p
    PROVE  Named(WebtunnelClient(i, p), "webtunnel", i, PlacedNames["webtunnel"])
<1>. DEFINE actors == WebtunnelClient(i, p)
            side == IrcSide("webtunnel", i, p, "ClientAddr", "ProxyAddr")
            roles == {"Client", "Proxy", "NetClient", "NetServer"}
<1>1. side \subseteq actors
    BY DEF WebtunnelClient
<1>2. PlacedNames["webtunnel"] = IrcSideNames \cup roles
    BY DEF PlacedNames
<1>3. Named(side, "webtunnel", i, IrcSideNames)
    BY IrcSideNamed
<1>4. \A a \in actors : a \in side \/ RoleOf(a, "webtunnel", i, roles)
    <2>. HIDE DEF side
    <2>. QED
        BY ActorFields, NetClientFields DEF WebtunnelClient, AddrRole, RoleOf, side
<1>5. \A role \in roles : \E a \in actors : a.name = OfClient("webtunnel", i, role)
    BY ActorFields, NetClientFields DEF WebtunnelClient
<1>. HIDE DEF actors, side, roles
<1>6. Named(actors, "webtunnel", i, PlacedNames["webtunnel"])
    BY <1>1, <1>2, <1>3, <1>4, <1>5, NamedFrom
<1>. QED
    BY <1>6 DEF actors

\* The same for Skyhook.
LEMMA SkyhookNamed ==
    ASSUME NEW i, NEW p
    PROVE  Named(SkyhookClient(i, p), "skyhook", i, PlacedNames["skyhook"])
<1>. DEFINE actors == SkyhookClient(i, p)
            side == IrcSide("skyhook", i, p, "CmacAddr", "CmasAddr")
            roles == {"UmacAct", "CmacAct", "PuaAct", "SdkacAct", "UmasAct", "CmasAct", "AhaAct", "SdkasAct", "ClNet", "NetSrv", "SrvNetCl"}
<1>1. side \subseteq actors
    BY DEF SkyhookClient
<1>2. PlacedNames["skyhook"] = IrcSideNames \cup roles
    BY DEF PlacedNames
<1>3. Named(side, "skyhook", i, IrcSideNames)
    BY IrcSideNamed
<1>4. \A a \in actors : a \in side \/ RoleOf(a, "skyhook", i, roles)
    <2>. HIDE DEF side
    <2>. QED
        BY ActorFields, NetClientFields DEF SkyhookClient, AddrRole, RoleOf, side
<1>5. \A role \in roles : \E a \in actors : a.name = OfClient("skyhook", i, role)
    BY ActorFields, NetClientFields DEF SkyhookClient
<1>. HIDE DEF actors, side, roles
<1>6. Named(actors, "skyhook", i, PlacedNames["skyhook"])
    BY <1>1, <1>2, <1>3, <1>4, <1>5, NamedFrom
<1>. QED
    BY <1>6 DEF actors

\* The same for obfs4.
LEMMA Obfs4Named ==
    ASSUME NEW i, NEW p
    PROVE  Named(Obfs4Client(i, p), "obfs4", i, PlacedNames["obfs4"])
<1>. DEFINE actors == Obfs4Client(i, p)
            side == IrcSide("obfs4", i, p, "ClientAddr", "ServerAddr")
            roles == {"Cl", "Srv", "NetCl", "NetSrv"}
<1>1. side \subseteq actors
    BY DEF Obfs4Client
<1>2. PlacedNames["obfs4"] = IrcSideNames \cup roles
    BY DEF PlacedNames
<1>3. Named(side, "obfs4", i, IrcSideNames)
    BY IrcSideNamed
<1>4. \A a \in actors : a \in side \/ RoleOf(a, "obfs4", i, roles)
    <2>. HIDE DEF side
    <2>. QED
        BY ActorFields, NetClientFields DEF Obfs4Client, AddrRole, RoleOf, side
<1>5. \A role \in roles : \E a \in actors : a.name = OfClient("obfs4", i, role)
    BY ActorFields, NetClientFields DEF Obfs4Client
<1>. HIDE DEF actors, side, roles
<1>6. Named(actors, "obfs4", i, PlacedNames["obfs4"])
    BY <1>1, <1>2, <1>3, <1>4, <1>5, NamedFrom
<1>. QED
    BY <1>6 DEF actors

\* The same for Iodine.
LEMMA IodineNamed ==
    ASSUME NEW i, NEW p
    PROVE  Named(IodineClient(i, p), "iodine", i, PlacedNames["iodine"])
<1>. DEFINE actors == IodineClient(i, p)
            side == IrcSide("iodine", i, p, "SendAppAddr", "RcvAppAddr")
            roles == {"SendApp", "RcvApp", "Cl", "Srv", "SrvNetSrv", "SrvNetCl"}
<1>1. side \subseteq actors
    BY DEF IodineClient
<1>2. PlacedNames["iodine"] = IrcSideNames \cup roles
    BY DEF PlacedNames
<1>3. Named(side, "iodine", i, IrcSideNames)
    BY IrcSideNamed
<1>4. \A a \in actors : a \in side \/ RoleOf(a, "iodine", i, roles)
    <2>. HIDE DEF side
    <2>. QED
        BY ActorFields, NetClientFields DEF IodineClient, AddrRole, RoleOf, side
<1>5. \A role \in roles : \E a \in actors : a.name = OfClient("iodine", i, role)
    BY ActorFields, NetClientFields DEF IodineClient
<1>. HIDE DEF actors, side, roles
<1>6. Named(actors, "iodine", i, PlacedNames["iodine"])
    BY <1>1, <1>2, <1>3, <1>4, <1>5, NamedFrom
<1>. QED
    BY <1>6 DEF actors

\* The same for Mastodon.
LEMMA MastodonNamed ==
    ASSUME NEW i, NEW p
    PROVE  Named(MastodonClient(i, p), "mastodon", i, PlacedNames["mastodon"])
<1>. DEFINE actors == MastodonClient(i, p)
            side == IrcSide("mastodon", i, p, "CmacAddr", "CmasAddr")
            roles == {"UmacAct", "CmacAct", "McacAct", "EdacAct", "UmasAct", "CmasAct", "McasAct", "EdasAct", "ClNet", "SrvNetCl"}
<1>1. side \subseteq actors
    BY DEF MastodonClient
<1>2. PlacedNames["mastodon"] = IrcSideNames \cup roles
    BY DEF PlacedNames
<1>3. Named(side, "mastodon", i, IrcSideNames)
    BY IrcSideNamed
<1>4. \A a \in actors : a \in side \/ RoleOf(a, "mastodon", i, roles)
    <2>. HIDE DEF side
    <2>. QED
        BY ActorFields, NetClientFields DEF MastodonClient, AddrRole, RoleOf, side
<1>5. \A role \in roles : \E a \in actors : a.name = OfClient("mastodon", i, role)
    BY ActorFields, NetClientFields DEF MastodonClient
<1>. HIDE DEF actors, side, roles
<1>6. Named(actors, "mastodon", i, PlacedNames["mastodon"])
    BY <1>1, <1>2, <1>3, <1>4, <1>5, NamedFrom
<1>. QED
    BY <1>6 DEF actors

\* Whatever its channel, a client's actors are those that are placed.
LEMMA ClientNamed2 ==
    ASSUME NEW ch \in Channels, NEW i, NEW p
    PROVE  Named(ClientActors(ch, i, p), ch, i, PlacedNames[ch])
<1>1. CASE ch = "webtunnel"
    BY <1>1, WebtunnelNamed DEF ClientActors
<1>2. CASE ch = "skyhook"
    BY <1>2, SkyhookNamed DEF ClientActors
<1>3. CASE ch = "obfs4"
    BY <1>3, Obfs4Named DEF ClientActors
<1>4. CASE ch = "iodine"
    BY <1>4, IodineNamed DEF ClientActors
<1>5. CASE ch = "mastodon"
    BY <1>5, MastodonNamed DEF ClientActors
<1>. QED
    BY <1>1, <1>2, <1>3, <1>4, <1>5 DEF Channels

\* The actors of a client are defined.
LEMMA ClientsDefined ==
    ASSUME NEW s, NEW ch \in Channels, NEW i \in Range(ClientIds(s, ch))
    PROVE  ClientActors(ch, i, ClientProfile(s, ch, i)) \subseteq DefinedActors(s)
<1>1. ClientActors(ch, i, ClientProfile(s, ch, i)) \subseteq ChannelActors(s, ch)
    BY ClientsHere
<1>2. ChannelActors(s, ch) \subseteq DefinedActors(s)
    BY DefinedHere
<1>. QED
    BY <1>1, <1>2

\* An address says whose it is.
LEMMA AddressFields ==
    /\ \A ch, i, role : OfClient(ch, i, role)[1] = ch /\ OfClient(ch, i, role)[3] = i /\ OfClient(ch, i, role)[4] = role
    /\ \A t, role : OfTgen(t, role)[1] = t.type /\ OfTgen(t, role)[2] = NetShort(t.net) /\ OfTgen(t, role)[3] = t.idx
                    /\ OfTgen(t, role)[4] = role
    /\ \A role : Shared(role)[1] = "shared" /\ Shared(role)[4] = role
BY DEF OfClient, OfTgen, Shared

\* Every role of a client is somebody's.
LEMMA ClientAt ==
    ASSUME NEW s, NEW ch \in Channels, NEW i \in Range(ClientIds(s, ch)), NEW role \in PlacedNames[ch]
    PROVE  At(s, OfClient(ch, i, AddrRole(ch, role)))
<1>. DEFINE actors == ClientActors(ch, i, ClientProfile(s, ch, i))
<1>1. Named(actors, ch, i, PlacedNames[ch])
    BY ClientNamed2
<1>2. PICK a \in actors : a.name = OfClient(ch, i, role)
    BY <1>1 DEF Named
<1>3. PICK other \in PlacedNames[ch] : a.name = OfClient(ch, i, other) /\ a.at = OfClient(ch, i, AddrRole(ch, other))
    BY <1>1, <1>2 DEF Named, RoleOf
<1>4. other = role
    <2>1. OfClient(ch, i, other) = OfClient(ch, i, role)
        BY <1>2, <1>3
    <2>. QED
        BY <2>1, AddressFields
<1>5. a \in DefinedActors(s)
    BY <1>2, ClientsDefined
<1>6. a.name \in initState(s)
    BY <1>2, PlacedHere
<1>7. a.at = OfClient(ch, i, AddrRole(ch, role))
    BY <1>3, <1>4
<1>. HIDE DEF actors
<1>. QED
    BY <1>5, <1>6, <1>7, Zenon DEF At

\* A generator's resolvers and its actors, type by type.
TgenDns(t) == {Shared(d) : d \in ResolverOf(t.net)}
TgenUm(t, refs) == Actor(OfTgen(t, "UmAct"), OfTgen(t, "UmAddr"), {OfTgen(t, "TgAddr")} \cup refs, TgenModel(t))
TgenTg(t, refs, model) == Actor(OfTgen(t, "Act"), OfTgen(t, "TgAddr"), refs, model)
TgenNet(t, server, client, resolver) ==
    NetClient(OfTgen(t, "NetClAct"), OfTgen(t, "NetClAddr"), server, OfTgen(t, client), resolver)

\* The actors of a generator, by its type.
LEMMA TgenSets ==
    ASSUME NEW t
    PROVE  /\ t.type = "ftpTgen" => TgenActors(t) =
                {TgenTg(t, {Shared("ftpSrvAddr")}, TgenModel(t)), TgenUm(t, {}),
                 TgenNet(t, Shared("ftpSrvAddr"), "TgAddr", TgenDns(t))}
           /\ t.type = "gorTgen" => TgenActors(t) =
                {TgenTg(t, {Shared("gorillaSrvAddr")}, NoModel), TgenUm(t, {}),
                 TgenNet(t, Shared("gorillaSrvAddr"), "TgAddr", TgenDns(t))}
           /\ t.type = "minTgen" => TgenActors(t) =
                {TgenTg(t, {OfTgen(t, "S3ClAddr")}, NoModel), TgenUm(t, {}), TgenNet(t, S3Srv, "S3ClAddr", TgenDns(t)),
                 Actor(OfTgen(t, "S3ClAct"), OfTgen(t, "S3ClAddr"), {S3Srv}, NoModel)}
           /\ t.type = "dnsTgen" => TgenActors(t) =
                {TgenTg(t, IF TgenDns(t) = {} THEN {Shared("publicDnsAddr")} ELSE TgenDns(t), NoModel), TgenUm(t, {})}
           /\ t.type = "masTgen" => TgenActors(t) =
                {TgenTg(t, {OfTgen(t, "McAddr")}, TgenModel(t)), TgenUm(t, {}), TgenNet(t, Mastodon, "McAddr", TgenDns(t)),
                 Actor(OfTgen(t, "McAct"), OfTgen(t, "McAddr"), {Mastodon, OfTgen(t, "TgAddr")}, NoModel)}
           /\ t.type = "ircTgen" => TgenActors(t) =
                {TgenTg(t, {Irc}, NoModel), TgenUm(t, {Irc}), TgenNet(t, Irc, "TgAddr", {})}
BY DEF TgenActors, TgenDns, TgenUm, TgenTg, TgenNet

\* The role of an address by the role of whose it is.
TgenAddrRole(role) ==
    CASE role = "UmAct" -> "UmAddr" [] role = "Act" -> "TgAddr" [] role = "NetClAct" -> "NetClAddr"
      [] role = "McAct" -> "McAddr" [] role = "S3ClAct" -> "S3ClAddr"
TgenIs(a, t, role) == a.name = OfTgen(t, role) /\ a.at = OfTgen(t, TgenAddrRole(role))
TgenNamed(actors, t, roles) ==
    /\ \A a \in actors : \E role \in roles : TgenIs(a, t, role)
    /\ \A role \in roles : \E a \in actors : TgenIs(a, t, role)

\* Each of them is named after its role.
LEMMA TgenActorRoles ==
    ASSUME NEW t
    PROVE  /\ \A refs : TgenIs(TgenUm(t, refs), t, "UmAct")
           /\ \A refs, model : TgenIs(TgenTg(t, refs, model), t, "Act")
           /\ \A server, client, resolver : TgenIs(TgenNet(t, server, client, resolver), t, "NetClAct")
           /\ \A refs, model : TgenIs(Actor(OfTgen(t, "S3ClAct"), OfTgen(t, "S3ClAddr"), refs, model), t, "S3ClAct")
           /\ \A refs, model : TgenIs(Actor(OfTgen(t, "McAct"), OfTgen(t, "McAddr"), refs, model), t, "McAct")
<1>1. \A refs : TgenIs(TgenUm(t, refs), t, "UmAct")
    BY ActorFields DEF TgenIs, TgenUm, TgenAddrRole
<1>2. \A refs, model : TgenIs(TgenTg(t, refs, model), t, "Act")
    BY ActorFields DEF TgenIs, TgenTg, TgenAddrRole
<1>3. \A server, client, resolver : TgenIs(TgenNet(t, server, client, resolver), t, "NetClAct")
    BY NetClientFields DEF TgenIs, TgenNet, TgenAddrRole
<1>4. \A refs, model : TgenIs(Actor(OfTgen(t, "S3ClAct"), OfTgen(t, "S3ClAddr"), refs, model), t, "S3ClAct")
    BY ActorFields DEF TgenIs, TgenAddrRole
<1>5. \A refs, model : TgenIs(Actor(OfTgen(t, "McAct"), OfTgen(t, "McAddr"), refs, model), t, "McAct")
    BY ActorFields DEF TgenIs, TgenAddrRole
<1>. QED
    BY <1>1, <1>2, <1>3, <1>4, <1>5

\* A set of so many actors is named after so many roles.
LEMMA Named2 ==
    ASSUME NEW t, NEW a, NEW b, NEW r, NEW q, TgenIs(a, t, r), TgenIs(b, t, q)
    PROVE  TgenNamed({a, b}, t, {r, q})
BY DEF TgenNamed

\* The same for three actors.
LEMMA Named3 ==
    ASSUME NEW t, NEW a, NEW b, NEW c, NEW r, NEW q, NEW p, TgenIs(a, t, r), TgenIs(b, t, q), TgenIs(c, t, p)
    PROVE  TgenNamed({a, b, c}, t, {r, q, p})
BY DEF TgenNamed

\* The same for four.
LEMMA Named4 ==
    ASSUME NEW t, NEW a, NEW b, NEW c, NEW d, NEW r, NEW q, NEW p, NEW o,
           TgenIs(a, t, r), TgenIs(b, t, q), TgenIs(c, t, p), TgenIs(d, t, o)
    PROVE  TgenNamed({a, b, c, d}, t, {r, q, p, o})
BY DEF TgenNamed

\* Whatever its type, a generator's actors are those that are placed.
LEMMA TgensNamed ==
    ASSUME NEW t, t.type \in TgenTypes
    PROVE  TgenNamed(TgenActors(t), t, PlacedNames[t.type])
<1>1. CASE t.type = "ftpTgen"
    <2>. DEFINE a == TgenTg(t, {Shared("ftpSrvAddr")}, TgenModel(t))
                b == TgenUm(t, {})
                c == TgenNet(t, Shared("ftpSrvAddr"), "TgAddr", TgenDns(t))
    <2>1. PlacedNames[t.type] = {"Act", "UmAct", "NetClAct"}
        BY <1>1 DEF PlacedNames
    <2>2. TgenActors(t) = {a, b, c}
        BY <1>1, TgenSets
    <2>3. TgenIs(a, t, "Act") /\ TgenIs(b, t, "UmAct") /\ TgenIs(c, t, "NetClAct")
        BY TgenActorRoles
    <2>. HIDE DEF a, b, c
    <2>4. TgenNamed({a, b, c}, t, {"Act", "UmAct", "NetClAct"})
        BY <2>3, Named3
    <2>. QED
        BY <2>1, <2>2, <2>4
<1>2. CASE t.type = "gorTgen"
    <2>. DEFINE a == TgenTg(t, {Shared("gorillaSrvAddr")}, NoModel)
                b == TgenUm(t, {})
                c == TgenNet(t, Shared("gorillaSrvAddr"), "TgAddr", TgenDns(t))
    <2>1. PlacedNames[t.type] = {"Act", "UmAct", "NetClAct"}
        BY <1>2 DEF PlacedNames
    <2>2. TgenActors(t) = {a, b, c}
        BY <1>2, TgenSets
    <2>3. TgenIs(a, t, "Act") /\ TgenIs(b, t, "UmAct") /\ TgenIs(c, t, "NetClAct")
        BY TgenActorRoles
    <2>. HIDE DEF a, b, c
    <2>4. TgenNamed({a, b, c}, t, {"Act", "UmAct", "NetClAct"})
        BY <2>3, Named3
    <2>. QED
        BY <2>1, <2>2, <2>4
<1>3. CASE t.type = "minTgen"
    <2>. DEFINE a == TgenTg(t, {OfTgen(t, "S3ClAddr")}, NoModel)
                b == TgenUm(t, {})
                c == TgenNet(t, S3Srv, "S3ClAddr", TgenDns(t))
                d == Actor(OfTgen(t, "S3ClAct"), OfTgen(t, "S3ClAddr"), {S3Srv}, NoModel)
    <2>1. PlacedNames[t.type] = {"Act", "UmAct", "NetClAct", "S3ClAct"}
        BY <1>3 DEF PlacedNames
    <2>2. TgenActors(t) = {a, b, c, d}
        BY <1>3, TgenSets
    <2>3. TgenIs(a, t, "Act") /\ TgenIs(b, t, "UmAct") /\ TgenIs(c, t, "NetClAct") /\ TgenIs(d, t, "S3ClAct")
        BY TgenActorRoles
    <2>. HIDE DEF a, b, c, d
    <2>4. TgenNamed({a, b, c, d}, t, {"Act", "UmAct", "NetClAct", "S3ClAct"})
        BY <2>3, Named4
    <2>. QED
        BY <2>1, <2>2, <2>4
<1>4. CASE t.type = "dnsTgen"
    <2>. DEFINE a == TgenTg(t, IF TgenDns(t) = {} THEN {Shared("publicDnsAddr")} ELSE TgenDns(t), NoModel)
                b == TgenUm(t, {})
    <2>1. PlacedNames[t.type] = {"Act", "UmAct"}
        BY <1>4 DEF PlacedNames
    <2>2. TgenActors(t) = {a, b}
        BY <1>4, TgenSets
    <2>3. TgenIs(a, t, "Act") /\ TgenIs(b, t, "UmAct")
        BY TgenActorRoles
    <2>. HIDE DEF a, b
    <2>4. TgenNamed({a, b}, t, {"Act", "UmAct"})
        BY <2>3, Named2
    <2>. QED
        BY <2>1, <2>2, <2>4
<1>5. CASE t.type = "masTgen"
    <2>. DEFINE a == TgenTg(t, {OfTgen(t, "McAddr")}, TgenModel(t))
                b == TgenUm(t, {})
                c == TgenNet(t, Mastodon, "McAddr", TgenDns(t))
                d == Actor(OfTgen(t, "McAct"), OfTgen(t, "McAddr"), {Mastodon, OfTgen(t, "TgAddr")}, NoModel)
    <2>1. PlacedNames[t.type] = {"Act", "UmAct", "NetClAct", "McAct"}
        BY <1>5 DEF PlacedNames
    <2>2. TgenActors(t) = {a, b, c, d}
        BY <1>5, TgenSets
    <2>3. TgenIs(a, t, "Act") /\ TgenIs(b, t, "UmAct") /\ TgenIs(c, t, "NetClAct") /\ TgenIs(d, t, "McAct")
        BY TgenActorRoles
    <2>. HIDE DEF a, b, c, d
    <2>4. TgenNamed({a, b, c, d}, t, {"Act", "UmAct", "NetClAct", "McAct"})
        BY <2>3, Named4
    <2>. QED
        BY <2>1, <2>2, <2>4
<1>6. CASE t.type = "ircTgen"
    <2>. DEFINE a == TgenTg(t, {Irc}, NoModel)
                b == TgenUm(t, {Irc})
                c == TgenNet(t, Irc, "TgAddr", {})
    <2>1. PlacedNames[t.type] = {"Act", "UmAct", "NetClAct"}
        BY <1>6 DEF PlacedNames
    <2>2. TgenActors(t) = {a, b, c}
        BY <1>6, TgenSets
    <2>3. TgenIs(a, t, "Act") /\ TgenIs(b, t, "UmAct") /\ TgenIs(c, t, "NetClAct")
        BY TgenActorRoles
    <2>. HIDE DEF a, b, c
    <2>4. TgenNamed({a, b, c}, t, {"Act", "UmAct", "NetClAct"})
        BY <2>3, Named3
    <2>. QED
        BY <2>1, <2>2, <2>4
<1>. QED
    BY <1>1, <1>2, <1>3, <1>4, <1>5, <1>6 DEF TgenTypes

\* Every role of a generator is somebody's.
LEMMA TgenAt ==
    ASSUME NEW s, NEW t \in Tgens(s), t.type \in TgenTypes, NEW role \in PlacedNames[t.type]
    PROVE  At(s, OfTgen(t, TgenAddrRole(role)))
<1>1. TgenNamed(TgenActors(t), t, PlacedNames[t.type])
    BY TgensNamed
<1>2. PICK a \in TgenActors(t) : TgenIs(a, t, role)
    BY <1>1 DEF TgenNamed
<1>3. a \in DefinedActors(s)
    BY <1>2, DefinedHere
<1>4. a.name \in initState(s)
    BY <1>2, PlacedHere DEF TgenIs
<1>. QED
    BY <1>2, <1>3, <1>4 DEF At, TgenIs

\* The network of a shared address, and the kind of its link to the exchange.
SharedHome(role) ==
    CASE role = "publicDnsAddr" -> LinkType("dns_net", "Dns")
      [] role = "s3SrvAddr" -> LinkType("minio_net", "Tcp")
      [] role = "masSrvAddr" -> LinkType("mastodon_net", "Tcp")
      [] role \in {"corpMasDnsAddr", "corpMasNetClAddr"} -> LinkType("client_net_mastodon", "Dns")
      [] role \in {"corpRtDnsAddr", "corpRtNetClAddr"} -> LinkType("client_net_racetunnel", "Dns")
      [] role \in {"corpIodDnsAddr", "corpIodNetClAddr"} -> LinkType("client_net_iodine", "Dns")
      [] role \in {"corpObfsDnsAddr", "corpObfsNetClAddr"} -> LinkType("client_net_obfs", "Dns")
      [] role \in {"corpSkyDnsAddr", "corpSkyNetClAddr"} -> LinkType("client_net_sky", "Dns")
      [] role \in {"servDnsAddr", "servNetClAddr"} -> LinkType("server_net", "Dns")
      [] OTHER -> LinkType("server_net", "Tcp")

\* The same of a covert client's address.
ClientHome(ch, role) ==
    CASE ch = "iodine" -> IF role = "SrvNetClAddr" THEN LinkType("dns_net", "Dns") ELSE LinkType("server_net", "Dns")
      [] ch = "webtunnel" /\ role = "ClientAddr" -> LinkType("client_net_racetunnel", "Tcp")
      [] ch = "obfs4" /\ role = "ClientAddr" -> LinkType("client_net_obfs", "Tcp")
      [] ch = "skyhook" /\ role = "SdkacAddr" -> LinkType("client_net_sky", "Tcp")
      [] ch = "mastodon" /\ role = "McacAddr" -> LinkType("client_net_mastodon", "Tcp")
      [] OTHER -> LinkType("server_net", "Tcp")

\* The same of any address: a generator's says in short where it is.
TgenHome(short) == LinkType(CHOOSE net \in ClientNets \cup ServerNets : NetShort(net) = short, "Tcp")
Home(a) ==
    IF a[1] = "shared" THEN SharedHome(a[4])
    ELSE IF a[1] \in Channels THEN ClientHome(a[1], a[4]) ELSE TgenHome(a[2])

\* The network that sees an address: its home, but for Iodine's way to the DNS network.
SeenIn(a) == IF a[1] = "iodine" THEN "server_net" ELSE Home(a)[1]

\* The short name of a network tells which it is.
LEMMA ShortNames ==
    \A net, other \in ClientNets \cup ServerNets : NetShort(net) = NetShort(other) => net = other
<1>. DEFINE Long(short) ==
        CASE short = "Mas" -> "client_net_mastodon" [] short = "MasNet" -> "mastodon_net"
          [] short = "Rt" -> "client_net_racetunnel" [] short = "Iod" -> "client_net_iodine"
          [] short = "Obfs" -> "client_net_obfs" [] short = "Sky" -> "client_net_sky"
          [] short = "Srv" -> "server_net" [] short = "MinioNet" -> "minio_net"
          [] short = "DnsNet" -> "dns_net"
<1>1. \A net \in ClientNets \cup ServerNets : Long(NetShort(net)) = net
    BY DEF ClientNets, ServerNets, NetShort
<1>. HIDE DEF Long
<1>. QED
    BY <1>1

\* Where everybody who has a link is at home.
LEMMA SharedHomes ==
    /\ \A r \in Resolvers : /\ Home(Shared(r.dns)) = LinkType(r.net, "Dns") /\ Home(Shared(r.cl)) = LinkType(r.net, "Dns")
                            /\ SeenIn(Shared(r.dns)) = r.net /\ SeenIn(Shared(r.cl)) = r.net
    /\ Home(PublicDns) = LinkType("dns_net", "Dns") /\ SeenIn(PublicDns) = "dns_net"
    /\ Home(S3Srv) = LinkType("minio_net", "Tcp") /\ SeenIn(S3Srv) = "minio_net"
    /\ Home(Mastodon) = LinkType("mastodon_net", "Tcp") /\ SeenIn(Mastodon) = "mastodon_net"
    /\ \A a \in {Irc, Shared("ftpSrvAddr"), Shared("gorillaSrvAddr")} :
          Home(a) = LinkType("server_net", "Tcp") /\ SeenIn(a) = "server_net"
<1>1. \A role : Home(Shared(role)) = SharedHome(role) /\ SeenIn(Shared(role)) = SharedHome(role)[1]
    BY AddressFields DEF Home, SeenIn
<1>2. \A net, kind : LinkType(net, kind)[1] = net
    BY DEF LinkType
<1>3. \A r \in Resolvers : SharedHome(r.dns) = LinkType(r.net, "Dns") /\ SharedHome(r.cl) = LinkType(r.net, "Dns")
    BY DEF Resolvers, SharedHome
<1>4. /\ SharedHome("publicDnsAddr") = LinkType("dns_net", "Dns") /\ SharedHome("s3SrvAddr") = LinkType("minio_net", "Tcp")
      /\ SharedHome("masSrvAddr") = LinkType("mastodon_net", "Tcp")
      /\ \A role \in {"ircServerAddr", "ftpSrvAddr", "gorillaSrvAddr"} : SharedHome(role) = LinkType("server_net", "Tcp")
    BY DEF SharedHome
<1>. QED
    BY <1>1, <1>2, <1>3, <1>4 DEF PublicDns, S3Srv, Mastodon, Irc

\* The ends of a covert client are at home in its network and with the servers.
LEMMA ClientHomes ==
    ASSUME NEW i
    PROVE  /\ \A e \in TcpEnds : LET near == OfClient(e.ch, i, e.near)
                                     far == OfClient(e.ch, i, e.far)
                                 IN /\ Home(near) = LinkType(e.net, "Tcp") /\ SeenIn(near) = e.net
                                    /\ Home(far) = LinkType("server_net", "Tcp") /\ SeenIn(far) = "server_net"
           /\ \A role \in {"ServerAddr", "SrvNetSrvAddr"} : Home(OfClient("iodine", i, role)) = LinkType("server_net", "Dns")
           /\ Home(OfClient("iodine", i, "SrvNetClAddr")) = LinkType("dns_net", "Dns")
           /\ \A role : SeenIn(OfClient("iodine", i, role)) = "server_net"
<1>1. \A ch \in Channels : \A role : Home(OfClient(ch, i, role)) = ClientHome(ch, role)
    BY AddressFields DEF Home, Channels
<1>2. \A ch \in Channels \ {"iodine"} : \A role : SeenIn(OfClient(ch, i, role)) = ClientHome(ch, role)[1]
    BY <1>1, AddressFields DEF SeenIn
<1>3. \A role : SeenIn(OfClient("iodine", i, role)) = "server_net"
    BY AddressFields DEF SeenIn
<1>4. \A net, kind : LinkType(net, kind)[1] = net
    BY DEF LinkType
<1>5. \A e \in TcpEnds : /\ e.ch \in Channels \ {"iodine"} /\ ClientHome(e.ch, e.near) = LinkType(e.net, "Tcp")
                         /\ ClientHome(e.ch, e.far) = LinkType("server_net", "Tcp")
    BY DEF TcpEnds, Channels, ClientHome
<1>6. /\ "iodine" \in Channels /\ ClientHome("iodine", "SrvNetClAddr") = LinkType("dns_net", "Dns")
      /\ \A role \in {"ServerAddr", "SrvNetSrvAddr"} : ClientHome("iodine", role) = LinkType("server_net", "Dns")
    BY DEF Channels, ClientHome
<1>. QED
    BY <1>1, <1>2, <1>3, <1>4, <1>5, <1>6

\* A generator is at home where the scenario puts it.
LEMMA TgenHomes ==
    ASSUME NEW t, t.type \in TgenTypes, t.net \in ClientNets \cup ServerNets
    PROVE  Home(TgenEnd(t)) = LinkType(t.net, "Tcp") /\ SeenIn(TgenEnd(t)) = t.net
<1>1. TgenEnd(t)[1] = t.type /\ TgenEnd(t)[2] = NetShort(t.net)
    BY AddressFields DEF TgenEnd
<1>2. t.type # "shared" /\ t.type \notin Channels
    BY DEF TgenTypes, Channels
<1>3. Home(TgenEnd(t)) = TgenHome(NetShort(t.net))
    BY <1>1, <1>2 DEF Home
<1>4. (CHOOSE net \in ClientNets \cup ServerNets : NetShort(net) = NetShort(t.net)) = t.net
    BY ShortNames
<1>5. Home(TgenEnd(t)) = LinkType(t.net, "Tcp")
    BY <1>3, <1>4 DEF TgenHome
<1>6. t.type # "iodine"
    BY <1>2 DEF Channels
<1>7. LinkType(t.net, "Tcp")[1] = t.net
    BY DEF LinkType
<1>. QED
    BY <1>1, <1>5, <1>6, <1>7 DEF SeenIn

\* The networks whose links are entered whatever the scenario says are part of it, and
\* so are those of its generators.
NetworksUsed(s) ==
    /\ NetNames(s) \subseteq ClientNets \cup ServerNets
    /\ {"server_net", "minio_net", "dns_net"} \subseteq NetNames(s)
    /\ \A t \in Tgens(s) : t.type \in TgenTypes /\ t.net \in NetNames(s)

\* A link to the exchange from home, and one to the public resolver or through it.
Direct(a) == add_bidir_ixp(a, Home(a)[2], Home(a)[1])
DirectFits(s, a) ==
    At(s, a) /\ a # Ixp /\ Home(a) \in LinkParams(s) /\ Home(a)[1] \in {SeenIn(a), "dns_net"}
WireNet(a, b) ==
    IF b \in {PublicDns, PublicNetSrv} THEN SeenIn(a)
    ELSE IF a \in {PublicDns, PublicNetSrv} THEN SeenIn(b) ELSE "server_net"
Wire(a, b) == add_bidir_link(a, b, "DnsComposed", SeenIn(a))
WireFits(s, a, b) ==
    /\ At(s, a) /\ At(s, b) /\ a # Ixp /\ b # Ixp /\ LinkType(SeenIn(a), "DnsComposed") \in LinkParams(s)
    /\ WireNet(a, b) = SeenIn(a) /\ WireNet(b, a) = SeenIn(a)
CallFits(s, c) == (\E a : DirectFits(s, a) /\ c = Direct(a)) \/ (\E a, b : WireFits(s, a, b) /\ c = Wire(a, b))

\* When there is a link of a kind and network, it is so.
LEMMA DirectCall ==
    ASSUME NEW s, NEW a, At(s, a), a # Ixp, NEW net \in NetNames(s), NEW kind \in {"Tcp", "Dns"},
           Home(a) = LinkType(net, kind), net \in {SeenIn(a), "dns_net"}
    PROVE  CallFits(s, add_bidir_ixp(a, kind, net))
<1>1. Home(a)[1] = net /\ Home(a)[2] = kind
    BY DEF LinkType
<1>2. LinkType(net, kind) \in LinkParams(s)
    BY DEF LinkType, LinkParams
<1>3. DirectFits(s, a)
    BY <1>1, <1>2 DEF DirectFits
<1>4. add_bidir_ixp(a, kind, net) = Direct(a)
    BY <1>1 DEF Direct
<1>. QED
    BY <1>3, <1>4, Zenon DEF CallFits

\* The same for a link to the public resolver.
LEMMA WireCall ==
    ASSUME NEW s, NEW a, NEW b, At(s, a), At(s, b), a # Ixp, b # Ixp, NEW net \in NetNames(s) \ {"dns_net"},
           SeenIn(a) = net, WireNet(a, b) = net, WireNet(b, a) = net
    PROVE  CallFits(s, add_bidir_link(a, b, "DnsComposed", net))
<1>1. LinkType(net, "DnsComposed") \in LinkParams(s)
    BY DEF LinkType, LinkParams
<1>2. WireFits(s, a, b)
    BY <1>1 DEF WireFits
<1>3. add_bidir_link(a, b, "DnsComposed", net) = Wire(a, b)
    BY DEF Wire
<1>. QED
    BY <1>2, <1>3, Zenon DEF CallFits

\* Shared addresses are those of their roles.
LEMMA SharedNames ==
    /\ \A role, other : Shared(role) = Shared(other) => role = other
    /\ \A r \in Resolvers : /\ Shared(r.dns) \notin {PublicDns, PublicNetSrv, Ixp}
                            /\ Shared(r.cl) \notin {PublicDns, PublicNetSrv, Ixp}
    /\ PublicDns # Ixp /\ PublicNetSrv # Ixp /\ S3Srv # Ixp /\ Mastodon # Ixp
    /\ \A a \in {Irc, Shared("ftpSrvAddr"), Shared("gorillaSrvAddr")} : a # Ixp
<1>1. \A role, other : Shared(role) = Shared(other) => role = other
    BY AddressFields
<1>2. \A r \in Resolvers : /\ r.dns \notin {"publicDnsAddr", "publicResolverNetSrvAddr", "IXP-DEFAULT-ADDR"}
                           /\ r.cl \notin {"publicDnsAddr", "publicResolverNetSrvAddr", "IXP-DEFAULT-ADDR"}
    BY DEF Resolvers
<1>. QED
    BY <1>1, <1>2 DEF PublicDns, PublicNetSrv, Ixp, S3Srv, Mastodon, Irc

\* The calls for a resolver enter such links.
LEMMA ResolverCalls ==
    ASSUME NEW s, NetworksUsed(s), NEW r \in Resolvers, r.net \in NetNames(s)
    PROVE  \A c \in ResolverLinks(r) : CallFits(s, c)
<1>. DEFINE dns == Shared(r.dns)
            cl == Shared(r.cl)
            net == r.net
<1>1. net # "dns_net"
    BY DEF Resolvers
<1>2. At(s, dns) /\ At(s, cl) /\ At(s, PublicDns) /\ At(s, PublicNetSrv)
    BY SharedAt
<1>3. /\ Home(dns) = LinkType(net, "Dns") /\ Home(cl) = LinkType(net, "Dns") /\ SeenIn(dns) = net /\ SeenIn(cl) = net
    BY SharedHomes
<1>4. /\ dns \notin {PublicDns, PublicNetSrv} /\ cl \notin {PublicDns, PublicNetSrv}
      /\ dns # Ixp /\ cl # Ixp /\ PublicDns # Ixp /\ PublicNetSrv # Ixp
    BY SharedNames
<1>5. \A c \in ResolverLinks(r) :
        \/ c = add_bidir_ixp(dns, "Dns", net) \/ c = add_bidir_ixp(cl, "Dns", net)
        \/ c = add_bidir_link(cl, PublicNetSrv, "DnsComposed", net)
        \/ c = add_bidir_link(cl, PublicDns, "DnsComposed", net) \/ c = add_bidir_link(dns, PublicDns, "DnsComposed", net)
    BY DEF ResolverLinks
<1>. HIDE DEF dns, cl, net
<1>6. \A a \in {dns, cl} : \A b \in {PublicDns, PublicNetSrv} : WireNet(a, b) = net /\ WireNet(b, a) = net
    BY <1>3, <1>4 DEF WireNet
<1>7. net \in NetNames(s) \ {"dns_net"}
    BY <1>1 DEF net
<1>8. CallFits(s, add_bidir_ixp(dns, "Dns", net)) /\ CallFits(s, add_bidir_ixp(cl, "Dns", net))
    BY <1>2, <1>3, <1>4, <1>7, DirectCall
<1>9. CallFits(s, add_bidir_link(cl, PublicNetSrv, "DnsComposed", net))
    BY <1>2, <1>3, <1>4, <1>6, <1>7, WireCall
<1>10. CallFits(s, add_bidir_link(cl, PublicDns, "DnsComposed", net)) /\ CallFits(s, add_bidir_link(dns, PublicDns, "DnsComposed", net))
    BY <1>2, <1>3, <1>4, <1>6, <1>7, WireCall
<1>. QED
    BY <1>5, <1>8, <1>9, <1>10

\* The ends of a covert channel.
LEMMA EndsAt ==
    ASSUME NEW s, NEW e \in TcpEnds, NEW i \in Range(ClientIds(s, e.ch))
    PROVE  At(s, OfClient(e.ch, i, e.near)) /\ At(s, OfClient(e.ch, i, e.far))
<1>1. e.ch \in Channels
    BY DEF TcpEnds, Channels
<1>2. \E near, far \in PlacedNames[e.ch] : AddrRole(e.ch, near) = e.near /\ AddrRole(e.ch, far) = e.far
    <2>1. CASE e.ch = "webtunnel"
        <3>1. e.near = "ClientAddr" /\ e.far = "ProxyAddr"
            BY <2>1 DEF TcpEnds
        <3>2. "Client" \in PlacedNames["webtunnel"] /\ "Proxy" \in PlacedNames["webtunnel"]
            BY DEF PlacedNames
        <3>3. AddrRole("webtunnel", "Client") = "ClientAddr" /\ AddrRole("webtunnel", "Proxy") = "ProxyAddr"
            BY DEF AddrRole
        <3>. QED
            BY <2>1, <3>1, <3>2, <3>3
    <2>2. CASE e.ch = "obfs4"
        <3>1. e.near = "ClientAddr" /\ e.far = "ServerAddr"
            BY <2>2 DEF TcpEnds
        <3>2. "Cl" \in PlacedNames["obfs4"] /\ "Srv" \in PlacedNames["obfs4"]
            BY DEF PlacedNames
        <3>3. AddrRole("obfs4", "Cl") = "ClientAddr" /\ AddrRole("obfs4", "Srv") = "ServerAddr"
            BY DEF AddrRole
        <3>. QED
            BY <2>2, <3>1, <3>2, <3>3
    <2>3. CASE e.ch = "skyhook"
        <3>1. e.near = "SdkacAddr" /\ e.far = "SdkasAddr"
            BY <2>3 DEF TcpEnds
        <3>2. "SdkacAct" \in PlacedNames["skyhook"] /\ "SdkasAct" \in PlacedNames["skyhook"]
            BY DEF PlacedNames
        <3>3. AddrRole("skyhook", "SdkacAct") = "SdkacAddr" /\ AddrRole("skyhook", "SdkasAct") = "SdkasAddr"
            BY DEF AddrRole
        <3>. QED
            BY <2>3, <3>1, <3>2, <3>3
    <2>4. CASE e.ch = "mastodon"
        <3>1. e.near = "McacAddr" /\ e.far = "McasAddr"
            BY <2>4 DEF TcpEnds
        <3>2. "McacAct" \in PlacedNames["mastodon"] /\ "McasAct" \in PlacedNames["mastodon"]
            BY DEF PlacedNames
        <3>3. AddrRole("mastodon", "McacAct") = "McacAddr" /\ AddrRole("mastodon", "McasAct") = "McasAddr"
            BY DEF AddrRole
        <3>. QED
            BY <2>4, <3>1, <3>2, <3>3
    <2>. QED
        BY <2>1, <2>2, <2>3, <2>4 DEF TcpEnds
<1>. QED
    BY <1>1, <1>2, ClientAt

\* So do those for the ends of the covert clients.
LEMMA ClientCalls ==
    ASSUME NEW s, NetworksUsed(s), NEW e \in TcpEnds, e.net \in NetNames(s)
    PROVE  \A c \in ClientLinks(s, e) : CallFits(s, c)
<1>. SUFFICES ASSUME NEW c \in ClientLinks(s, e) PROVE CallFits(s, c)
    OBVIOUS
<1>1. PICK i \in Range(ClientIds(s, e.ch)) : c \in {add_bidir_ixp(OfClient(e.ch, i, e.near), "Tcp", e.net),
                                                   add_bidir_ixp(OfClient(e.ch, i, e.far), "Tcp", "server_net")}
    BY DEF ClientLinks
<1>. DEFINE near == OfClient(e.ch, i, e.near)
            far == OfClient(e.ch, i, e.far)
<1>2. At(s, near) /\ At(s, far)
    BY EndsAt
<1>3. /\ Home(near) = LinkType(e.net, "Tcp") /\ SeenIn(near) = e.net
      /\ Home(far) = LinkType("server_net", "Tcp") /\ SeenIn(far) = "server_net"
    BY ClientHomes
<1>4. near # Ixp /\ far # Ixp
    <2>1. e.ch # "shared"
        BY DEF TcpEnds
    <2>. QED
        BY <2>1, AddressFields DEF Ixp
<1>5. c = add_bidir_ixp(near, "Tcp", e.net) \/ c = add_bidir_ixp(far, "Tcp", "server_net")
    BY <1>1
<1>6. "server_net" \in NetNames(s)
    BY DEF NetworksUsed
<1>. HIDE DEF near, far
<1>7. CallFits(s, add_bidir_ixp(near, "Tcp", e.net))
    BY <1>2, <1>3, <1>4, DirectCall
<1>8. CallFits(s, add_bidir_ixp(far, "Tcp", "server_net"))
    BY <1>2, <1>3, <1>4, <1>6, DirectCall
<1>. QED
    BY <1>5, <1>7, <1>8

\* So do those for Iodine.
LEMMA IodineCalls ==
    ASSUME NEW s, NetworksUsed(s)
    PROVE  \A c \in IodineLinks(s) : CallFits(s, c)
<1>. SUFFICES ASSUME NEW c \in IodineLinks(s) PROVE CallFits(s, c)
    OBVIOUS
<1>1. PICK i \in Range(ClientIds(s, "iodine")) :
            \/ c = add_bidir_ixp(OfClient("iodine", i, "ServerAddr"), "Dns", "server_net")
            \/ c = add_bidir_ixp(OfClient("iodine", i, "SrvNetSrvAddr"), "Dns", "server_net")
            \/ c = add_bidir_ixp(OfClient("iodine", i, "SrvNetClAddr"), "Dns", "dns_net")
            \/ c = add_bidir_link(OfClient("iodine", i, "SrvNetClAddr"), OfClient("iodine", i, "SrvNetSrvAddr"), "DnsComposed", "server_net")
            \/ c = add_bidir_link(OfClient("iodine", i, "ServerAddr"), PublicDns, "DnsComposed", "server_net")
    BY DEF IodineLinks
<1>. DEFINE server == OfClient("iodine", i, "ServerAddr")
            netSrv == OfClient("iodine", i, "SrvNetSrvAddr")
            netCl == OfClient("iodine", i, "SrvNetClAddr")
<1>2. At(s, server) /\ At(s, netSrv) /\ At(s, netCl) /\ At(s, PublicDns)
    <2>1. "iodine" \in Channels
        BY DEF Channels
    <2>2. "Srv" \in PlacedNames["iodine"] /\ "SrvNetSrv" \in PlacedNames["iodine"] /\ "SrvNetCl" \in PlacedNames["iodine"]
        BY DEF PlacedNames
    <2>3. AddrRole("iodine", "Srv") = "ServerAddr" /\ AddrRole("iodine", "SrvNetSrv") = "SrvNetSrvAddr"
          /\ AddrRole("iodine", "SrvNetCl") = "SrvNetClAddr"
        BY DEF AddrRole
    <2>4. \A role \in PlacedNames["iodine"] : At(s, OfClient("iodine", i, AddrRole("iodine", role)))
        BY <2>1, ClientAt
    <2>. QED
        BY <2>2, <2>3, <2>4, SharedAt
<1>3. /\ Home(server) = LinkType("server_net", "Dns") /\ Home(netSrv) = LinkType("server_net", "Dns")
      /\ Home(netCl) = LinkType("dns_net", "Dns")
      /\ SeenIn(server) = "server_net" /\ SeenIn(netSrv) = "server_net" /\ SeenIn(netCl) = "server_net"
    BY ClientHomes
<1>4. \A a \in {server, netSrv, netCl} : a # Ixp /\ a \notin {PublicDns, PublicNetSrv}
    BY AddressFields DEF Ixp, PublicDns, PublicNetSrv
<1>5. "server_net" \in NetNames(s) \ {"dns_net"} /\ "dns_net" \in NetNames(s)
    BY DEF NetworksUsed
<1>6. PublicDns # Ixp
    BY SharedNames
<1>. HIDE DEF server, netSrv, netCl
<1>7. WireNet(netCl, netSrv) = "server_net" /\ WireNet(netSrv, netCl) = "server_net"
      /\ WireNet(server, PublicDns) = "server_net" /\ WireNet(PublicDns, server) = "server_net"
    BY <1>3, <1>4 DEF WireNet
<1>8. CallFits(s, add_bidir_ixp(server, "Dns", "server_net")) /\ CallFits(s, add_bidir_ixp(netSrv, "Dns", "server_net"))
    BY <1>2, <1>3, <1>4, <1>5, DirectCall
<1>9. CallFits(s, add_bidir_ixp(netCl, "Dns", "dns_net"))
    BY <1>2, <1>3, <1>4, <1>5, DirectCall
<1>10. CallFits(s, add_bidir_link(netCl, netSrv, "DnsComposed", "server_net"))
    BY <1>2, <1>3, <1>4, <1>5, <1>7, WireCall
<1>11. CallFits(s, add_bidir_link(server, PublicDns, "DnsComposed", "server_net"))
    BY <1>2, <1>3, <1>4, <1>5, <1>6, <1>7, WireCall
<1>. QED
    BY <1>1, <1>8, <1>9, <1>10, <1>11 DEF server, netSrv, netCl

\* So do those for the servers.
LEMMA ServerCalls ==
    ASSUME NEW s, NetworksUsed(s)
    PROVE  \A c \in ServerLinks(s) : CallFits(s, c)
<1>1. {"server_net", "minio_net", "dns_net"} \subseteq NetNames(s)
    BY DEF NetworksUsed
<1>2. At(s, S3Srv) /\ At(s, PublicDns) /\ At(s, Mastodon)
      /\ \A a \in {Irc, Shared("ftpSrvAddr"), Shared("gorillaSrvAddr")} : At(s, a)
    BY SharedAt
<1>3. CallFits(s, add_bidir_ixp(S3Srv, "Tcp", "minio_net")) /\ CallFits(s, add_bidir_ixp(PublicDns, "Dns", "dns_net"))
    BY <1>1, <1>2, SharedHomes, SharedNames, DirectCall
<1>4. \A a \in {Irc, Shared("ftpSrvAddr"), Shared("gorillaSrvAddr")} : CallFits(s, add_bidir_ixp(a, "Tcp", "server_net"))
    BY <1>1, <1>2, SharedHomes, SharedNames, DirectCall
<1>5. "mastodon_net" \in NetNames(s) => CallFits(s, add_bidir_ixp(Mastodon, "Tcp", "mastodon_net"))
    BY <1>1, <1>2, SharedHomes, SharedNames, DirectCall
<1>. QED
    BY <1>3, <1>4, <1>5 DEF ServerLinks

\* The end of a generator is there.
LEMMA TgenEndAt ==
    ASSUME NEW s, NEW t \in Tgens(s), t.type \in TgenTypes
    PROVE  At(s, TgenEnd(t)) /\ At(s, OfTgen(t, "TgAddr"))
<1>1. TgenAddrRole("Act") = "TgAddr" /\ TgenAddrRole("McAct") = "McAddr" /\ TgenAddrRole("S3ClAct") = "S3ClAddr"
    BY DEF TgenAddrRole
<1>2. /\ "Act" \in PlacedNames[t.type] /\ (t.type = "masTgen" => "McAct" \in PlacedNames[t.type])
      /\ (t.type = "minTgen" => "S3ClAct" \in PlacedNames[t.type])
    BY DEF PlacedNames, TgenTypes
<1>. QED
    BY <1>1, <1>2, TgenAt DEF TgenEnd

\* So do those for the generators.
LEMMA TgenCalls ==
    ASSUME NEW s, NetworksUsed(s)
    PROVE  \A c \in TgenLinks(s) : CallFits(s, c)
<1>. SUFFICES ASSUME NEW c \in TgenLinks(s) PROVE CallFits(s, c)
    OBVIOUS
<1>1. PICK t \in Tgens(s) : c = add_bidir_ixp(TgenEnd(t), "Tcp", t.net)
    BY DEF TgenLinks, TcpTgens, TgensOf
<1>2. t.type \in TgenTypes /\ t.net \in NetNames(s) /\ t.net \in ClientNets \cup ServerNets
    BY DEF NetworksUsed
<1>3. Home(TgenEnd(t)) = LinkType(t.net, "Tcp") /\ SeenIn(TgenEnd(t)) = t.net
    BY <1>2, TgenHomes
<1>4. At(s, TgenEnd(t))
    BY <1>2, TgenEndAt
<1>5. TgenEnd(t) # Ixp
    <2>1. TgenEnd(t)[1] = t.type /\ Ixp[1] = "shared"
        BY AddressFields DEF TgenEnd, Ixp
    <2>2. t.type # "shared"
        BY <1>2 DEF TgenTypes
    <2>. QED
        BY <2>1, <2>2
<1>. QED
    BY <1>1, <1>2, <1>3, <1>4, <1>5, DirectCall

\* Every call enters such a link.
LEMMA CallsFit ==
    ASSUME NEW s, NetworksUsed(s)
    PROVE  \A c \in LinkCalls(s) : CallFits(s, c)
<1>1. "server_net" \in NetNames(s)
    BY DEF NetworksUsed
<1>2. \A r \in Resolvers : r.net \in NetNames(s) \cup {"server_net"} => \A c \in ResolverLinks(r) : CallFits(s, c)
    BY <1>1, ResolverCalls
<1>3. \A e \in TcpEnds : e.net \in NetNames(s) => \A c \in ClientLinks(s, e) : CallFits(s, c)
    BY ClientCalls
<1>4. /\ \A c \in IodineLinks(s) : CallFits(s, c) 
      /\ \A c \in ServerLinks(s) : CallFits(s, c)
      /\ \A c \in TgenLinks(s) : CallFits(s, c)
    BY IodineCalls, ServerCalls, TgenCalls
<1>. QED
    BY <1>2, <1>3, <1>4 DEF LinkCalls

\* The two tools write the same network.
LEMMA SameNetwork ==
    ASSUME NEW s, NEW tool
    PROVE  /\ Output(tool, s).calls = LinkCalls(s) /\ Output(tool, s).params = LinkParams(s)
           /\ Output(tool, s).tcp = TcpAddrs(s) /\ Output(tool, s).udp = UdpAddrs(s)
           /\ Output(tool, s).seen = visibilityMap(s)
<1>1. ScriptLinkCalls(s) = LinkCalls(s)
    <2>. DEFINE resolver(nets) == UNION {ResolverLinks(r) : r \in {q \in Resolvers : q.net \in nets}}
                client(nets) == UNION {ClientLinks(s, e) : e \in {f \in TcpEnds : f.net \in nets}}
                rest == (IF "client_net_iodine" \in NetNames(s) THEN IodineLinks(s) ELSE {}) \cup ServerLinks(s) \cup TgenLinks(s)
                own == NetNames(s) \cap ClientNets
    <2>1. LinkCalls(s) = resolver(NetNames(s) \cup {"server_net"}) \cup client(NetNames(s)) \cup rest
        BY DEF LinkCalls
    <2>2. ScriptLinkCalls(s) = (UNION {ResolverLinks(r) \cup (UNION {ClientLinks(s, e) : e \in {f \in TcpEnds : f.net = r.net}}) :
                                         r \in {q \in Resolvers : q.net \in own}})
                               \cup resolver({"server_net"}) \cup rest
        BY DEF ScriptLinkCalls, ScriptClientLinks, ScriptServerLinks
    <2>3. \A e \in TcpEnds : e.net \in ClientNets /\ \E r \in Resolvers : r.net = e.net
        BY DEF TcpEnds, ClientNets, Resolvers
    <2>4. \A r \in Resolvers : r.net \in ClientNets \cup {"server_net"}
        BY DEF Resolvers, ClientNets
    <2>. HIDE DEF rest
    <2>5. (UNION {ResolverLinks(r) \cup (UNION {ClientLinks(s, e) : e \in {f \in TcpEnds : f.net = r.net}}) :
                    r \in {q \in Resolvers : q.net \in own}}) = resolver(own) \cup client(NetNames(s))
        BY <2>3
    <2>6. resolver(NetNames(s) \cup {"server_net"}) = resolver(own) \cup resolver({"server_net"})
        BY <2>4
    <2>. QED
        BY <2>1, <2>2, <2>5, <2>6
<1>2. ScriptLinkParams(s) = LinkParams(s)
    <2>. DEFINE of(n) == {LinkType(n, "Tcp"), LinkType(n, "Dns")} \cup (IF n = "dns_net" THEN {} ELSE {LinkType(n, "DnsComposed")})
    <2>1. \A n, m, kind, other : LinkType(n, kind) = LinkType(m, other) => n = m /\ kind = other
        BY DEF LinkType
    <2>2. \A p \in LinkParams(s) : \E n \in NetNames(s) : p \in of(n)
        BY DEF LinkParams
    <2>3. \A n \in NetNames(s) : of(n) \subseteq LinkParams(s)
        BY <2>1 DEF LinkParams
    <2>4. ScriptLinkParams(s) = UNION {of(n) : n \in NetNames(s)}
        BY DEF ScriptLinkParams
    <2>. HIDE DEF of
    <2>. QED
        BY <2>2, <2>3, <2>4
<1>3. ScriptVisibilityMap(s) = visibilityMap(s)
    BY <1>1 DEF ScriptVisibilityMap, visibilityMap
<1>4. CASE tool = "generate"
    BY <1>4 DEF Output, GenOutput
<1>5. CASE tool # "generate"
    BY <1>1, <1>2, <1>3, <1>5 DEF Output, ScriptOutput, ScriptTcpAddrs, ScriptUdpAddrs
<1>. QED
    BY <1>4, <1>5

-----------------------------------------------------------------------------
\* The links of a main file, and what leads from one address to the other.
Links(s) == UNION {c.links : c \in LinkCalls(s)}
Ends(s) == {<<l[1], l[2]>> : l \in Links(s)}
LinkOf(a, b) ==
    IF b = Ixp THEN Home(a) ELSE IF a = Ixp THEN Home(b) ELSE LinkType(WireNet(a, b), "DnsComposed")

LinkFits(s, l) ==
    /\ <<l[2], l[1], l[3]>> \in Links(s) /\ (At(s, l[1]) \/ l[1] = Ixp) /\ l[3] \in LinkParams(s)
    /\ l[3] = LinkOf(l[1], l[2])

\* The links that one call enters.
LEMMA CallLinks ==
    /\ \A a, kind, net : add_bidir_ixp(a, kind, net).links = {<<a, Ixp, LinkType(net, kind)>>, <<Ixp, a, LinkType(net, kind)>>}
    /\ \A a, b, kind, net :
          add_bidir_link(a, b, kind, net).links = {<<a, b, LinkType(net, kind)>>, <<b, a, LinkType(net, kind)>>}
BY DEF add_bidir_ixp, add_bidir_link

\* Every link leads back, from somebody, over parameters that are defined.
LEMMA LinksFit ==
    ASSUME NEW s, NetworksUsed(s)
    PROVE  \A l \in Links(s) : LinkFits(s, l)
<1>. SUFFICES ASSUME NEW c \in LinkCalls(s), NEW l \in c.links PROVE LinkFits(s, l)
    BY DEF Links
<1>0. \A m \in c.links : m \in Links(s)
    BY DEF Links
<1>1. CASE \E a : DirectFits(s, a) /\ c = Direct(a)
    <2>1. PICK a : DirectFits(s, a) /\ c = Direct(a)
        BY <1>1
    <2>2. Home(a) \in LinkParams(s) /\ At(s, a) /\ a # Ixp
        BY <2>1 DEF DirectFits
    <2>3. LinkType(Home(a)[1], Home(a)[2]) = Home(a)
        BY <2>2 DEF LinkParams, LinkType
    <2>4. c.links = {<<a, Ixp, Home(a)>>, <<Ixp, a, Home(a)>>}
        BY <2>1, <2>3, CallLinks DEF Direct
    <2>5. LinkOf(a, Ixp) = Home(a) /\ LinkOf(Ixp, a) = Home(a)
        BY <2>2 DEF LinkOf
    <2>6. CASE l = <<a, Ixp, Home(a)>>
        <3>1. l[1] = a /\ l[2] = Ixp /\ l[3] = Home(a)
            BY <2>6
        <3>2. <<Ixp, a, Home(a)>> \in Links(s)
            BY <1>0, <2>4
        <3>. QED
            BY <2>2, <2>5, <3>1, <3>2 DEF LinkFits
    <2>7. CASE l = <<Ixp, a, Home(a)>>
        <3>1. l[1] = Ixp /\ l[2] = a /\ l[3] = Home(a)
            BY <2>7
        <3>2. <<a, Ixp, Home(a)>> \in Links(s)
            BY <1>0, <2>4
        <3>. QED
            BY <2>2, <2>5, <3>1, <3>2 DEF LinkFits
    <2>. QED
        BY <2>4, <2>6, <2>7
<1>2. CASE \E a, b : WireFits(s, a, b) /\ c = Wire(a, b)
    <2>1. PICK a, b : WireFits(s, a, b) /\ c = Wire(a, b)
        BY <1>2
    <2>. DEFINE type == LinkType(SeenIn(a), "DnsComposed")
    <2>2. /\ At(s, a) /\ At(s, b) /\ a # Ixp /\ b # Ixp /\ type \in LinkParams(s)
          /\ WireNet(a, b) = SeenIn(a) /\ WireNet(b, a) = SeenIn(a)
        BY <2>1 DEF WireFits
    <2>3. c.links = {<<a, b, type>>, <<b, a, type>>}
        BY <2>1, CallLinks DEF Wire
    <2>4. LinkOf(a, b) = type /\ LinkOf(b, a) = type
        BY <2>2 DEF LinkOf
    <2>. HIDE DEF type
    <2>5. CASE l = <<a, b, type>>
        <3>1. l[1] = a /\ l[2] = b /\ l[3] = type
            BY <2>5
        <3>2. <<b, a, type>> \in Links(s)
            BY <1>0, <2>3
        <3>. QED
            BY <2>2, <2>4, <3>1, <3>2 DEF LinkFits
    <2>6. CASE l = <<b, a, type>>
        <3>1. l[1] = b /\ l[2] = a /\ l[3] = type
            BY <2>6
        <3>2. <<a, b, type>> \in Links(s)
            BY <1>0, <2>3
        <3>. QED
            BY <2>2, <2>4, <3>1, <3>2 DEF LinkFits
    <2>. QED
        BY <2>3, <2>5, <2>6
<1>3. CallFits(s, c)
    BY CallsFit
<1>. QED
    BY <1>1, <1>2, <1>3 DEF CallFits

\* Each address is seen from one network, besides the DNS network.
LEMMA SeenFits ==
    ASSUME NEW s, NetworksUsed(s)
    PROVE  \A v \in visibilityMap(s) : v.net = "dns_net" \/ v.net = SeenIn(v.addr)
<1>. SUFFICES ASSUME NEW c \in LinkCalls(s), NEW v \in c.seen PROVE v.net = "dns_net" \/ v.net = SeenIn(v.addr)
    BY DEF visibilityMap
<1>1. CASE \E a : DirectFits(s, a) /\ c = Direct(a)
    <2>1. PICK a : DirectFits(s, a) /\ c = Direct(a)
        BY <1>1
    <2>2. v = [net |-> Home(a)[1], addr |-> a]
        BY <2>1 DEF Direct, add_bidir_ixp
    <2>. QED
        BY <2>1, <2>2 DEF DirectFits
<1>2. CASE \E a, b : WireFits(s, a, b) /\ c = Wire(a, b)
    <2>1. PICK a, b : WireFits(s, a, b) /\ c = Wire(a, b)
        BY <1>2
    <2>2. v = [net |-> SeenIn(a), addr |-> a] \/ v = [net |-> "dns_net", addr |-> b]
        BY <2>1 DEF Wire, add_bidir_link
    <2>. QED
        BY <2>2
<1>3. CallFits(s, c)
    BY CallsFit
<1>. QED
    BY <1>1, <1>2, <1>3 DEF CallFits

-----------------------------------------------------------------------------
\* The calls are finitely many, and so are the links.
LEMMA FiniteFew ==
    /\ \A a, b : IsFiniteSet({a, b})
    /\ \A a, b, c, d, e : IsFiniteSet({a, b, c, d, e})
<1>1. ASSUME NEW a, NEW b PROVE IsFiniteSet({a, b})
    <2>1. IsFiniteSet({a}) /\ IsFiniteSet({b})
        BY FS_Singleton
    <2>2. IsFiniteSet({a} \cup {b})
        BY <2>1, FS_Union
    <2>3. {a, b} = {a} \cup {b}
        OBVIOUS
    <2>. QED
        BY <2>2, <2>3
<1>2. ASSUME NEW a, NEW b, NEW c, NEW d, NEW e PROVE IsFiniteSet({a, b, c, d, e})
    <2>1. IsFiniteSet({a, b}) /\ IsFiniteSet({c, d}) /\ IsFiniteSet({e, e})
        BY <1>1
    <2>2. IsFiniteSet({a, b} \cup {c, d})
        BY <2>1, FS_Union
    <2>3. IsFiniteSet(({a, b} \cup {c, d}) \cup {e, e})
        BY <2>1, <2>2, FS_Union
    <2>4. {a, b, c, d, e} = ({a, b} \cup {c, d}) \cup {e, e}
        OBVIOUS
    <2>. QED
        BY <2>3, <2>4
<1>. QED
    BY <1>1, <1>2

\* So is what finitely many indices stand for together.
LEMMA FiniteUnion ==
    ASSUME NEW A, IsFiniteSet(A), NEW f, \A a \in A : IsFiniteSet(f[a])
    PROVE  IsFiniteSet(UNION {f[a] : a \in A})
<1>. DEFINE all == {f[a] : a \in A}
<1>1. IsFiniteSet(all)
    BY FiniteImage
<1>2. \A x \in all : IsFiniteSet(x)
    OBVIOUS
<1>. HIDE DEF all
<1>3. IsFiniteSet(UNION all)
    BY <1>1, <1>2, FS_UNION
<1>. QED
    BY <1>3 DEF all

\* There are finitely many resolvers and kinds of ends.
LEMMA ResolversFinite == IsFiniteSet(Resolvers) /\ IsFiniteSet(TcpEnds)
<1>. DEFINE r1 == [net |-> "client_net_mastodon",   dns |-> "corpMasDnsAddr",  cl |-> "corpMasNetClAddr"]
            r2 == [net |-> "client_net_racetunnel", dns |-> "corpRtDnsAddr",   cl |-> "corpRtNetClAddr"]
            r3 == [net |-> "client_net_iodine",     dns |-> "corpIodDnsAddr",  cl |-> "corpIodNetClAddr"]
            r4 == [net |-> "client_net_obfs",       dns |-> "corpObfsDnsAddr", cl |-> "corpObfsNetClAddr"]
            r5 == [net |-> "client_net_sky",        dns |-> "corpSkyDnsAddr",  cl |-> "corpSkyNetClAddr"]
            r6 == [net |-> "server_net",            dns |-> "servDnsAddr",     cl |-> "servNetClAddr"]
            e1 == [ch |-> "webtunnel", net |-> "client_net_racetunnel", near |-> "ClientAddr", far |-> "ProxyAddr"]
            e2 == [ch |-> "obfs4",     net |-> "client_net_obfs",       near |-> "ClientAddr", far |-> "ServerAddr"]
            e3 == [ch |-> "skyhook",   net |-> "client_net_sky",        near |-> "SdkacAddr",  far |-> "SdkasAddr"]
            e4 == [ch |-> "mastodon",  net |-> "client_net_mastodon",   near |-> "McacAddr",   far |-> "McasAddr"]
<1>1. Resolvers = {r1, r2, r3, r4, r5, r6} /\ TcpEnds = {e1, e2, e3, e4}
    BY DEF Resolvers, TcpEnds
<1>. HIDE DEF r1, r2, r3, r4, r5, r6, e1, e2, e3, e4
<1>2. Resolvers = {r1, r2, r3, r4, r5} \cup {r6, r6} /\ TcpEnds = {e1, e2, e3, e4, e4}
    BY <1>1
<1>3. IsFiniteSet({r1, r2, r3, r4, r5}) /\ IsFiniteSet({r6, r6}) /\ IsFiniteSet({e1, e2, e3, e4, e4})
    BY FiniteFew
<1>4. IsFiniteSet({r1, r2, r3, r4, r5} \cup {r6, r6})
    BY <1>3, FS_Union
<1>. QED
    BY <1>2, <1>3, <1>4

\* The calls are finitely many.
LEMMA CallsFinite ==
    ASSUME scenario \in Scenarios
    PROVE  IsFiniteSet(LinkCalls(S))
<1>. DEFINE resolvers == {q \in Resolvers : q.net \in NetNames(S) \cup {"server_net"}}
            ofResolver == [r \in resolvers |-> ResolverLinks(r)]
            ends == {f \in TcpEnds : f.net \in NetNames(S)}
            ofEnd == [e \in ends |-> ClientLinks(S, e)]
<1>1. IsFiniteSet(UNION {ofResolver[r] : r \in resolvers})
    <2>1. IsFiniteSet(resolvers)
        BY ResolversFinite, FS_Subset
    <2>2. ASSUME NEW r \in resolvers PROVE IsFiniteSet(ofResolver[r])
        <3>. DEFINE a == add_bidir_ixp(Shared(r.dns), "Dns", r.net)
                    b == add_bidir_link(Shared(r.cl), PublicNetSrv, "DnsComposed", r.net)
                    c == add_bidir_link(Shared(r.cl), PublicDns, "DnsComposed", r.net)
                    d == add_bidir_link(Shared(r.dns), PublicDns, "DnsComposed", r.net)
                    e == add_bidir_ixp(Shared(r.cl), "Dns", r.net)
        <3>1. ofResolver[r] \subseteq {a, b, c, d, e}
            BY DEF ResolverLinks
        <3>. HIDE DEF a, b, c, d, e
        <3>. QED
            BY <3>1, FiniteFew, FS_Subset
    <2>. HIDE DEF resolvers, ofResolver
    <2>. QED
        BY <2>1, <2>2, FiniteUnion
<1>2. IsFiniteSet(UNION {ofEnd[e] : e \in ends})
    <2>1. IsFiniteSet(ends)
        BY ResolversFinite, FS_Subset
    <2>2. ASSUME NEW e \in ends PROVE IsFiniteSet(ofEnd[e])
        <3>. DEFINE ids == Range(ClientIds(S, e.ch))
                    near(i) == add_bidir_ixp(OfClient(e.ch, i, e.near), "Tcp", e.net)
                    far(i) == add_bidir_ixp(OfClient(e.ch, i, e.far), "Tcp", "server_net")
                    two == [i \in ids |-> {near(i), far(i)}]
        <3>1. ofEnd[e] = UNION {two[i] : i \in ids}
            BY DEF ClientLinks
        <3>2. IsFiniteSet(ids)
            BY ClientIdsFinite
        <3>3. \A i \in ids : IsFiniteSet(two[i])
            <4>. HIDE DEF near, far
            <4>. QED
                BY FiniteFew
        <3>. HIDE DEF two, ids
        <3>4. IsFiniteSet(UNION {two[i] : i \in ids})
            BY <3>2, <3>3, FiniteUnion
        <3>. QED
            BY <3>1, <3>4
    <2>. HIDE DEF ends, ofEnd
    <2>. QED
        BY <2>1, <2>2, FiniteUnion
<1>3. IsFiniteSet(IodineLinks(S))
    <2>. DEFINE ids == Range(ClientIds(S, "iodine"))
                a(i) == add_bidir_ixp(OfClient("iodine", i, "ServerAddr"), "Dns", "server_net")
                b(i) == add_bidir_ixp(OfClient("iodine", i, "SrvNetSrvAddr"), "Dns", "server_net")
                c(i) == add_bidir_ixp(OfClient("iodine", i, "SrvNetClAddr"), "Dns", "dns_net")
                d(i) == add_bidir_link(OfClient("iodine", i, "SrvNetClAddr"), OfClient("iodine", i, "SrvNetSrvAddr"), "DnsComposed", "server_net")
                e(i) == add_bidir_link(OfClient("iodine", i, "ServerAddr"), PublicDns, "DnsComposed", "server_net")
                five == [i \in ids |-> {a(i), b(i), c(i), d(i), e(i)}]
    <2>1. IodineLinks(S) = UNION {five[i] : i \in ids}
        BY DEF IodineLinks
    <2>2. IsFiniteSet(ids)
        BY ClientIdsFinite
    <2>3. \A i \in ids : IsFiniteSet(five[i])
        <3>. HIDE DEF a, b, c, d, e
        <3>. QED
            BY FiniteFew
    <2>. HIDE DEF five, ids
    <2>4. IsFiniteSet(UNION {five[i] : i \in ids})
        BY <2>2, <2>3, FiniteUnion
    <2>. QED
        BY <2>1, <2>4
<1>4. IsFiniteSet(ServerLinks(S))
    <2>. DEFINE two == {add_bidir_ixp(S3Srv, "Tcp", "minio_net"), add_bidir_ixp(PublicDns, "Dns", "dns_net")}
                in(a) == add_bidir_ixp(a, "Tcp", "server_net")
                irc == in(Irc)
                ftp == in(Shared("ftpSrvAddr"))
                gorilla == in(Shared("gorillaSrvAddr"))
                mastodon == add_bidir_ixp(Mastodon, "Tcp", "mastodon_net")
    <2>1. ServerLinks(S) \subseteq two \cup {irc, ftp, gorilla, mastodon, mastodon}
        BY DEF ServerLinks
    <2>2. IsFiniteSet(two)
        BY FiniteFew
    <2>. HIDE DEF two, irc, ftp, gorilla, mastodon
    <2>3. IsFiniteSet({irc, ftp, gorilla, mastodon, mastodon})
        BY FiniteFew
    <2>4. IsFiniteSet(two \cup {irc, ftp, gorilla, mastodon, mastodon})
        BY <2>2, <2>3, FS_Union
    <2>. QED
        BY <2>1, <2>4, FS_Subset
<1>5. IsFiniteSet(TgenLinks(S))
    <2>. DEFINE f == [t \in TcpTgens(S) |-> add_bidir_ixp(TgenEnd(t), "Tcp", t.net)]
    <2>1. TgenLinks(S) = {f[t] : t \in TcpTgens(S)}
        BY DEF TgenLinks
    <2>2. TcpTgens(S) \subseteq Tgens(S)
        BY DEF TcpTgens, TgensOf
    <2>3. IsFiniteSet(TcpTgens(S))
        BY <2>2, TgensFacts, FS_Subset
    <2>. HIDE DEF f
    <2>4. IsFiniteSet({f[t] : t \in TcpTgens(S)})
        BY <2>3, FiniteImage
    <2>. QED
        BY <2>1, <2>4
<1>. DEFINE A == UNION {ofResolver[r] : r \in resolvers}
            B == UNION {ofEnd[e] : e \in ends}
            C == ServerLinks(S) \cup TgenLinks(S)
<1>6. LinkCalls(S) \subseteq ((A \cup B) \cup IodineLinks(S)) \cup C
    BY DEF LinkCalls
<1>. HIDE DEF A, B
<1>7. IsFiniteSet(A \cup B) /\ IsFiniteSet(C)
    BY <1>1, <1>2, <1>4, <1>5, FS_Union DEF A, B
<1>. HIDE DEF C
<1>8. IsFiniteSet((A \cup B) \cup IodineLinks(S))
    BY <1>3, <1>7, FS_Union
<1>9. IsFiniteSet(((A \cup B) \cup IodineLinks(S)) \cup C)
    BY <1>7, <1>8, FS_Union
<1>. QED
    BY <1>6, <1>9, FS_Subset

\* So are the links.
LEMMA LinksFinite ==
    ASSUME scenario \in Scenarios, NetworksUsed(S)
    PROVE  IsFiniteSet(Links(S))
<1>. DEFINE calls == LinkCalls(S)
            f == [c \in calls |-> c.links]
<1>1. IsFiniteSet(calls)
    BY CallsFinite
<1>2. ASSUME NEW c \in calls PROVE IsFiniteSet(f[c])
    <2>1. CASE \E a : DirectFits(S, a) /\ c = Direct(a)
        <3>1. PICK a : c = Direct(a)
            BY <2>1
        <3>. DEFINE there == <<a, Ixp, LinkType(Home(a)[1], Home(a)[2])>>
                    back == <<Ixp, a, LinkType(Home(a)[1], Home(a)[2])>>
        <3>2. c.links = {there, back}
            BY <3>1, CallLinks DEF Direct
        <3>. HIDE DEF there, back
        <3>3. IsFiniteSet({there, back})
            BY FiniteFew
        <3>. QED
            BY <3>2, <3>3
    <2>2. CASE \E a, b : WireFits(S, a, b) /\ c = Wire(a, b)
        <3>1. PICK a, b : c = Wire(a, b)
            BY <2>2
        <3>. DEFINE there == <<a, b, LinkType(SeenIn(a), "DnsComposed")>>
                    back == <<b, a, LinkType(SeenIn(a), "DnsComposed")>>
        <3>2. c.links = {there, back}
            BY <3>1, CallLinks DEF Wire
        <3>. HIDE DEF there, back
        <3>3. IsFiniteSet({there, back})
            BY FiniteFew
        <3>. QED
            BY <3>2, <3>3
    <2>3. CallFits(S, c)
        BY CallsFit
    <2>. QED
        BY <2>1, <2>2, <2>3 DEF CallFits
<1>3. Links(S) = UNION {f[c] : c \in calls}
    BY DEF Links
<1>. HIDE DEF calls, f
<1>. QED
    BY <1>1, <1>2, <1>3, FiniteUnion

\* Between two addresses there is one link.
LEMMA LinksCounted ==
    ASSUME scenario \in Scenarios, NetworksUsed(S)
    PROVE  Cardinality(Ends(S)) = Cardinality(Links(S))
<1>. DEFINE f == [l \in Links(S) |-> <<l[1], l[2]>>]
<1>1. f \in [Links(S) -> Ends(S)] /\ \A x \in Ends(S) : \E l \in Links(S) : f[l] = x
    BY DEF Ends
<1>2. ASSUME NEW l \in Links(S), NEW m \in Links(S), f[l] = f[m] PROVE l = m
    <2>1. l[1] = m[1] /\ l[2] = m[2]
        BY <1>2
    <2>2. l[3] = m[3]
        <3>1. LinkFits(S, l) /\ LinkFits(S, m)
            BY LinksFit
        <3>2. l[3] = LinkOf(l[1], l[2]) /\ m[3] = LinkOf(m[1], m[2])
            BY <3>1 DEF LinkFits
        <3>. QED
            BY <2>1, <3>2
    <2>3. \A k \in Links(S) : k = <<k[1], k[2], k[3]>>
        <3>. SUFFICES ASSUME NEW c \in LinkCalls(S), NEW k \in c.links PROVE k = <<k[1], k[2], k[3]>>
            BY DEF Links
        <3>1. CASE \E a : DirectFits(S, a) /\ c = Direct(a)
            BY <3>1, CallLinks DEF Direct
        <3>2. CASE \E a, b : WireFits(S, a, b) /\ c = Wire(a, b)
            BY <3>2, CallLinks DEF Wire
        <3>3. CallFits(S, c)
            BY CallsFit
        <3>. QED
            BY <3>1, <3>2, <3>3 DEF CallFits
    <2>4. l = <<l[1], l[2], l[3]>> /\ m = <<m[1], m[2], m[3]>>
        BY <2>3
    <2>. QED
        BY <2>1, <2>2, <2>4
<1>. HIDE DEF f
<1>3. f \in Bijection(Links(S), Ends(S))
    BY <1>1, <1>2 DEF Bijection, Injection, Surjection, IsInjective
<1>4. ExistsBijection(Links(S), Ends(S))
    BY <1>3 DEF ExistsBijection
<1>. QED
    BY <1>4, LinksFinite, FS_Bijection

\* The networks of the covert channels and of the Mastodon server, where they are used.
ChannelsUsed(s) ==
    /\ \A e \in TcpEnds : Range(ClientIds(s, e.ch)) # {} => e.net \in NetNames(s)
    /\ Range(ClientIds(s, "mastodon")) # {} \/ (\E t \in Tgens(s) : t.type = "masTgen") =>
          {"client_net_mastodon", "mastodon_net"} \subseteq NetNames(s)

\* An end of a connection, and a resolver that finds it.
EndFits(s, a) == a \in TcpAddrs(s) \ UdpAddrs(s) /\ <<a, Ixp>> \in Ends(s)
ResolverFits(s, d) == d \in UdpAddrs(s) /\ <<d, PublicDns>> \in Ends(s) /\ <<d, Ixp>> \in Ends(s)
CarryFits(s, c) ==
    EndFits(s, c.server) /\ EndFits(s, c.client) /\ \A d \in c.dns : ResolverFits(s, d)
CarriesFit(s, a) == \A c \in a.carries : CarryFits(s, c)

\* A call enters a link from the one address to the other.
LEMMA CallEnds ==
    ASSUME NEW s
    PROVE  /\ \A a, kind, net : add_bidir_ixp(a, kind, net) \in LinkCalls(s) => <<a, Ixp>> \in Ends(s)
           /\ \A a, b, kind, net : add_bidir_link(a, b, kind, net) \in LinkCalls(s) => <<a, b>> \in Ends(s)
<1>1. ASSUME NEW a, NEW b, NEW c \in LinkCalls(s), NEW type, <<a, b, type>> \in c.links PROVE <<a, b>> \in Ends(s)
    <2>. DEFINE l == <<a, b, type>>
    <2>1. l \in Links(s) /\ l[1] = a /\ l[2] = b
        BY <1>1 DEF Links
    <2>. HIDE DEF l
    <2>. QED
        BY <2>1 DEF Ends
<1>2. ASSUME NEW a, NEW kind, NEW net, add_bidir_ixp(a, kind, net) \in LinkCalls(s) PROVE <<a, Ixp>> \in Ends(s)
    <2>1. <<a, Ixp, LinkType(net, kind)>> \in add_bidir_ixp(a, kind, net).links
        BY CallLinks
    <2>. QED
        BY <1>1, <1>2, <2>1
<1>3. ASSUME NEW a, NEW b, NEW kind, NEW net, add_bidir_link(a, b, kind, net) \in LinkCalls(s) PROVE <<a, b>> \in Ends(s)
    <2>1. <<a, b, LinkType(net, kind)>> \in add_bidir_link(a, b, kind, net).links
        BY CallLinks
    <2>. QED
        BY <1>1, <1>3, <2>1
<1>. QED
    BY <1>2, <1>3

\* A resolver of a network that is there can be asked, and asks the public one.
LEMMA ResolversFit ==
    ASSUME NEW s, NEW r \in Resolvers, r.net \in NetNames(s) \cup {"server_net"}
    PROVE  ResolverFits(s, Shared(r.dns))
<1>1. ResolverLinks(r) \subseteq LinkCalls(s)
    BY DEF LinkCalls
<1>2. add_bidir_ixp(Shared(r.dns), "Dns", r.net) \in ResolverLinks(r)
      /\ add_bidir_link(Shared(r.dns), PublicDns, "DnsComposed", r.net) \in ResolverLinks(r)
    BY DEF ResolverLinks
<1>3. <<Shared(r.dns), PublicDns>> \in Ends(s) /\ <<Shared(r.dns), Ixp>> \in Ends(s)
    BY <1>1, <1>2, CallEnds
<1>4. Shared(r.dns) \in UdpAddrs(s)
    BY DEF UdpAddrs
<1>. QED
    BY <1>3, <1>4 DEF ResolverFits

\* Who sends over UDP.
LEMMA UdpOwners ==
    ASSUME NEW s, NEW a \in UdpAddrs(s)
    PROVE  \/ a[1] = "iodine"
           \/ a[1] = "shared" /\ a[4] \in {"publicDnsAddr"} \cup {r.dns : r \in Resolvers}
<1>1. CASE a = PublicDns
    BY <1>1, AddressFields DEF PublicDns
<1>2. CASE \E r \in Resolvers : a = Shared(r.dns)
    BY <1>2, AddressFields
<1>3. CASE \E i, role : a = OfClient("iodine", i, role)
    BY <1>3, AddressFields
<1>. QED
    BY <1>1, <1>2, <1>3 DEF UdpAddrs

\* The servers are ends of connections; the Mastodon server where its clients are.
LEMMA ServersFit ==
    ASSUME NEW s
    PROVE  /\ EndFits(s, S3Srv) /\ EndFits(s, Irc) /\ EndFits(s, Shared("ftpSrvAddr")) /\ EndFits(s, Shared("gorillaSrvAddr"))
           /\ {"client_net_mastodon", "mastodon_net"} \subseteq NetNames(s) => EndFits(s, Mastodon)
<1>. DEFINE servers == {S3Srv, Irc, Shared("ftpSrvAddr"), Shared("gorillaSrvAddr"), Mastodon}
            roles == {"s3SrvAddr", "ircServerAddr", "ftpSrvAddr", "gorillaSrvAddr", "masSrvAddr"}
<1>1. servers \subseteq TcpAddrs(s)
    BY DEF TcpAddrs
<1>2. \A a \in servers : a \notin UdpAddrs(s)
    <2>1. \A role \in roles : role \notin {"publicDnsAddr"} \cup {r.dns : r \in Resolvers}
        BY DEF Resolvers
    <2>2. \A a \in servers : a[1] = "shared" /\ a[4] \in roles
        BY AddressFields DEF S3Srv, Irc, Mastodon
    <2>. HIDE DEF servers, roles
    <2>. QED
        BY <2>1, <2>2, UdpOwners
<1>3. ServerLinks(s) \subseteq LinkCalls(s)
    BY DEF LinkCalls
<1>4. /\ add_bidir_ixp(S3Srv, "Tcp", "minio_net") \in ServerLinks(s)
      /\ \A a \in {Irc, Shared("ftpSrvAddr"), Shared("gorillaSrvAddr")} : add_bidir_ixp(a, "Tcp", "server_net") \in ServerLinks(s)
      /\ {"client_net_mastodon", "mastodon_net"} \subseteq NetNames(s) =>
            add_bidir_ixp(Mastodon, "Tcp", "mastodon_net") \in ServerLinks(s)
    BY DEF ServerLinks
<1>5. /\ \A a \in {S3Srv, Irc, Shared("ftpSrvAddr"), Shared("gorillaSrvAddr")} : <<a, Ixp>> \in Ends(s)
      /\ {"client_net_mastodon", "mastodon_net"} \subseteq NetNames(s) => <<Mastodon, Ixp>> \in Ends(s)
    BY <1>3, <1>4, CallEnds
<1>. QED
    BY <1>1, <1>2, <1>5 DEF EndFits

\* Both ends of a covert client are ends of connections.
LEMMA ClientsFit ==
    ASSUME NEW s, ChannelsUsed(s), NEW e \in TcpEnds, NEW i \in Range(ClientIds(s, e.ch))
    PROVE  EndFits(s, OfClient(e.ch, i, e.near)) /\ EndFits(s, OfClient(e.ch, i, e.far))
<1>. DEFINE near == OfClient(e.ch, i, e.near)
            far == OfClient(e.ch, i, e.far)
<1>1. near \in TcpAddrs(s) /\ far \in TcpAddrs(s)
    <2>. DEFINE of(f) == {OfClient(f.ch, j, role) : j \in Range(ClientIds(s, f.ch)), role \in {f.near, f.far}}
    <2>1. near \in of(e) /\ far \in of(e)
        OBVIOUS
    <2>2. UNION {of(f) : f \in TcpEnds} \subseteq TcpAddrs(s)
        BY DEF TcpAddrs
    <2>. HIDE DEF of, near, far
    <2>. QED
        BY <2>1, <2>2
<1>2. near \notin UdpAddrs(s) /\ far \notin UdpAddrs(s)
    <2>1. e.ch # "iodine" /\ e.ch # "shared"
        BY DEF TcpEnds
    <2>2. near[1] = e.ch /\ far[1] = e.ch
        BY AddressFields
    <2>. HIDE DEF near, far
    <2>. QED
        BY <2>1, <2>2, UdpOwners
<1>3. e.net \in NetNames(s)
    BY DEF ChannelsUsed
<1>4. ClientLinks(s, e) \subseteq LinkCalls(s)
    BY <1>3 DEF LinkCalls
<1>5. add_bidir_ixp(near, "Tcp", e.net) \in ClientLinks(s, e) /\ add_bidir_ixp(far, "Tcp", "server_net") \in ClientLinks(s, e)
    BY DEF ClientLinks
<1>. HIDE DEF near, far
<1>6. <<near, Ixp>> \in Ends(s) /\ <<far, Ixp>> \in Ends(s)
    BY <1>4, <1>5, CallEnds
<1>. QED
    BY <1>1, <1>2, <1>6 DEF EndFits, near, far

\* So is the end of a generator that sends over TCP.
LEMMA TgensFit ==
    ASSUME NEW s, NEW t \in Tgens(s), t.type \in TgenTypes \ {"dnsTgen"}
    PROVE  EndFits(s, TgenEnd(t))
<1>1. t \in TcpTgens(s)
    BY DEF TcpTgens, TgensOf
<1>2. TgenEnd(t) \in TcpAddrs(s)
    BY <1>1 DEF TcpAddrs
<1>3. TgenEnd(t) \notin UdpAddrs(s)
    <2>1. TgenEnd(t)[1] = t.type
        BY AddressFields DEF TgenEnd
    <2>2. t.type # "iodine" /\ t.type # "shared"
        BY DEF TgenTypes
    <2>. QED
        BY <2>1, <2>2, UdpOwners
<1>4. add_bidir_ixp(TgenEnd(t), "Tcp", t.net) \in LinkCalls(s)
    BY <1>1 DEF LinkCalls, TgenLinks
<1>. QED
    BY <1>2, <1>3, <1>4, CallEnds DEF EndFits

-----------------------------------------------------------------------------
\* What is carried for the clients of a channel, and for a generator.
LEMMA CarriedBy ==
    ASSUME NEW s, NEW server, NEW client, NEW dns, EndFits(s, server), EndFits(s, client), \A d \in dns : ResolverFits(s, d),
           NEW name, NEW at
    PROVE  CarriesFit(s, NetClient(name, at, server, client, dns))
<1>. DEFINE c == [server |-> server, client |-> client, dns |-> dns]
<1>1. NetClient(name, at, server, client, dns).carries = {c}
    BY NetClientFields
<1>2. c.server = server /\ c.client = client /\ c.dns = dns
    OBVIOUS
<1>. HIDE DEF c
<1>3. CarryFits(s, c)
    BY <1>2 DEF CarryFits
<1>. QED
    BY <1>1, <1>3 DEF CarriesFit

\* An actor that is no network client carries nothing.
LEMMA CarriedNone ==
    ASSUME NEW s
    PROVE  \A name, at, refs, model : CarriesFit(s, Actor(name, at, refs, model))
BY ActorFields DEF CarriesFit

\* Nor do the actors that every channel has.
LEMMA IrcSideCarries ==
    ASSUME NEW s, NEW ch, NEW i, NEW p, NEW down, NEW up
    PROVE  \A a \in IrcSide(ch, i, p, down, up) : CarriesFit(s, a)
BY CarriedNone DEF IrcSide

\* What the network client of a generator carries has its ends.
LEMMA TgenCarries ==
    ASSUME NEW s, NetworksUsed(s), ChannelsUsed(s), NEW t \in Tgens(s)
    PROVE  \A a \in TgenActors(t) : CarriesFit(s, a)
<1>1. t.type \in TgenTypes /\ t.net \in NetNames(s)
    BY DEF NetworksUsed
<1>2. \A d \in TgenDns(t) : ResolverFits(s, d)
    BY <1>1, ResolversFit DEF TgenDns, ResolverOf
<1>3. /\ \A refs : CarriesFit(s, TgenUm(t, refs))
      /\ \A refs, model : CarriesFit(s, TgenTg(t, refs, model))
      /\ \A role, at, refs, model : CarriesFit(s, Actor(OfTgen(t, role), at, refs, model))
    BY CarriedNone DEF TgenUm, TgenTg
<1>4. ASSUME NEW server, NEW client, NEW dns, EndFits(s, server), EndFits(s, OfTgen(t, client)),
             \A d \in dns : ResolverFits(s, d)
      PROVE  CarriesFit(s, TgenNet(t, server, client, dns))
    BY <1>4, CarriedBy DEF TgenNet
<1>5. CASE t.type = "ftpTgen"
    <2>. DEFINE a == TgenTg(t, {Shared("ftpSrvAddr")}, TgenModel(t))
                b == TgenUm(t, {})
                c == TgenNet(t, Shared("ftpSrvAddr"), "TgAddr", TgenDns(t))
    <2>1. TgenActors(t) = {a, b, c}
        BY <1>5, TgenSets
    <2>2. CarriesFit(s, a) /\ CarriesFit(s, b)
        BY <1>3
    <2>3. EndFits(s, OfTgen(t, "TgAddr"))
        BY <1>5, TgensFit DEF TgenEnd, TgenTypes
    <2>4. CarriesFit(s, c)
        BY <1>2, <1>4, <2>3, ServersFit
    <2>. HIDE DEF a, b, c
    <2>. QED
        BY <2>1, <2>2, <2>4
<1>6. CASE t.type = "gorTgen"
    <2>. DEFINE a == TgenTg(t, {Shared("gorillaSrvAddr")}, NoModel)
                b == TgenUm(t, {})
                c == TgenNet(t, Shared("gorillaSrvAddr"), "TgAddr", TgenDns(t))
    <2>1. TgenActors(t) = {a, b, c}
        BY <1>6, TgenSets
    <2>2. CarriesFit(s, a) /\ CarriesFit(s, b)
        BY <1>3
    <2>3. EndFits(s, OfTgen(t, "TgAddr"))
        BY <1>6, TgensFit DEF TgenEnd, TgenTypes
    <2>4. CarriesFit(s, c)
        BY <1>2, <1>4, <2>3, ServersFit
    <2>. HIDE DEF a, b, c
    <2>. QED
        BY <2>1, <2>2, <2>4
<1>7. CASE t.type = "minTgen"
    <2>. DEFINE a == TgenTg(t, {OfTgen(t, "S3ClAddr")}, NoModel)
                b == TgenUm(t, {})
                c == TgenNet(t, S3Srv, "S3ClAddr", TgenDns(t))
                d == Actor(OfTgen(t, "S3ClAct"), OfTgen(t, "S3ClAddr"), {S3Srv}, NoModel)
    <2>1. TgenActors(t) = {a, b, c, d}
        BY <1>7, TgenSets
    <2>2. CarriesFit(s, a) /\ CarriesFit(s, b) /\ CarriesFit(s, d)
        BY <1>3
    <2>3. EndFits(s, OfTgen(t, "S3ClAddr"))
        BY <1>7, TgensFit DEF TgenEnd, TgenTypes
    <2>4. CarriesFit(s, c)
        BY <1>2, <1>4, <2>3, ServersFit
    <2>. HIDE DEF a, b, c, d
    <2>. QED
        BY <2>1, <2>2, <2>4
<1>8. CASE t.type = "dnsTgen"
    <2>. DEFINE a == TgenTg(t, IF TgenDns(t) = {} THEN {Shared("publicDnsAddr")} ELSE TgenDns(t), NoModel)
                b == TgenUm(t, {})
    <2>1. TgenActors(t) = {a, b}
        BY <1>8, TgenSets
    <2>2. CarriesFit(s, a) /\ CarriesFit(s, b)
        BY <1>3
    <2>. HIDE DEF a, b
    <2>. QED
        BY <2>1, <2>2
<1>9. CASE t.type = "masTgen"
    <2>. DEFINE a == TgenTg(t, {OfTgen(t, "McAddr")}, TgenModel(t))
                b == TgenUm(t, {})
                c == TgenNet(t, Mastodon, "McAddr", TgenDns(t))
                d == Actor(OfTgen(t, "McAct"), OfTgen(t, "McAddr"), {Mastodon, OfTgen(t, "TgAddr")}, NoModel)
    <2>1. TgenActors(t) = {a, b, c, d}
        BY <1>9, TgenSets
    <2>2. CarriesFit(s, a) /\ CarriesFit(s, b) /\ CarriesFit(s, d)
        BY <1>3
    <2>3. EndFits(s, OfTgen(t, "McAddr"))
        BY <1>9, TgensFit DEF TgenEnd, TgenTypes
    <2>4. EndFits(s, Mastodon)
        BY <1>9, ServersFit DEF ChannelsUsed
    <2>5. CarriesFit(s, c)
        BY <1>2, <1>4, <2>3, <2>4
    <2>. HIDE DEF a, b, c, d
    <2>. QED
        BY <2>1, <2>2, <2>5
<1>10. CASE t.type = "ircTgen"
    <2>. DEFINE a == TgenTg(t, {Irc}, NoModel)
                b == TgenUm(t, {Irc})
                c == TgenNet(t, Irc, "TgAddr", {})
    <2>1. TgenActors(t) = {a, b, c}
        BY <1>10, TgenSets
    <2>2. CarriesFit(s, a) /\ CarriesFit(s, b)
        BY <1>3
    <2>3. EndFits(s, OfTgen(t, "TgAddr"))
        BY <1>10, TgensFit DEF TgenEnd, TgenTypes
    <2>4. CarriesFit(s, c)
        BY <1>4, <2>3, ServersFit
    <2>. HIDE DEF a, b, c
    <2>. QED
        BY <2>1, <2>2, <2>4
<1>. QED
    BY <1>1, <1>5, <1>6, <1>7, <1>8, <1>9, <1>10 DEF TgenTypes

\* The resolvers of the clients' networks and of the servers' are there.
LEMMA ClientResolvers ==
    ASSUME NEW s
    PROVE  /\ \A d \in {Shared("servDnsAddr")} : ResolverFits(s, d)
           /\ "client_net_racetunnel" \in NetNames(s) => \A d \in {Shared("corpRtDnsAddr")} : ResolverFits(s, d)
           /\ "client_net_obfs" \in NetNames(s) => \A d \in {Shared("corpObfsDnsAddr")} : ResolverFits(s, d)
           /\ "client_net_sky" \in NetNames(s) => \A d \in {Shared("corpSkyDnsAddr")} : ResolverFits(s, d)
           /\ "client_net_mastodon" \in NetNames(s) => \A d \in {Shared("corpMasDnsAddr")} : ResolverFits(s, d)
<1>1. ResolverFits(s, Shared("servDnsAddr"))
    <2>. DEFINE r == [net |-> "server_net", dns |-> "servDnsAddr", cl |-> "servNetClAddr"]
    <2>1. r \in Resolvers /\ r.net = "server_net" /\ r.dns = "servDnsAddr"
        BY DEF Resolvers
    <2>. HIDE DEF r
    <2>. QED
        BY <2>1, ResolversFit
<1>2. "client_net_racetunnel" \in NetNames(s) => ResolverFits(s, Shared("corpRtDnsAddr"))
    <2>. DEFINE r == [net |-> "client_net_racetunnel", dns |-> "corpRtDnsAddr", cl |-> "corpRtNetClAddr"]
    <2>1. r \in Resolvers /\ r.net = "client_net_racetunnel" /\ r.dns = "corpRtDnsAddr"
        BY DEF Resolvers
    <2>. HIDE DEF r
    <2>. QED
        BY <2>1, ResolversFit
<1>3. "client_net_obfs" \in NetNames(s) => ResolverFits(s, Shared("corpObfsDnsAddr"))
    <2>. DEFINE r == [net |-> "client_net_obfs", dns |-> "corpObfsDnsAddr", cl |-> "corpObfsNetClAddr"]
    <2>1. r \in Resolvers /\ r.net = "client_net_obfs" /\ r.dns = "corpObfsDnsAddr"
        BY DEF Resolvers
    <2>. HIDE DEF r
    <2>. QED
        BY <2>1, ResolversFit
<1>4. "client_net_sky" \in NetNames(s) => ResolverFits(s, Shared("corpSkyDnsAddr"))
    <2>. DEFINE r == [net |-> "client_net_sky", dns |-> "corpSkyDnsAddr", cl |-> "corpSkyNetClAddr"]
    <2>1. r \in Resolvers /\ r.net = "client_net_sky" /\ r.dns = "corpSkyDnsAddr"
        BY DEF Resolvers
    <2>. HIDE DEF r
    <2>. QED
        BY <2>1, ResolversFit
<1>5. "client_net_mastodon" \in NetNames(s) => ResolverFits(s, Shared("corpMasDnsAddr"))
    <2>. DEFINE r == [net |-> "client_net_mastodon", dns |-> "corpMasDnsAddr", cl |-> "corpMasNetClAddr"]
    <2>1. r \in Resolvers /\ r.net = "client_net_mastodon" /\ r.dns = "corpMasDnsAddr"
        BY DEF Resolvers
    <2>. HIDE DEF r
    <2>. QED
        BY <2>1, ResolversFit
<1>. QED
    BY <1>1, <1>2, <1>3, <1>4, <1>5

\* What the network clients of a WebTunnel client carry has its ends.
LEMMA WebtunnelCarries ==
    ASSUME NEW s, ChannelsUsed(s), NEW i \in Range(ClientIds(s, "webtunnel")), NEW p
    PROVE  \A a \in WebtunnelClient(i, p) : CarriesFit(s, a)
<1>. DEFINE e == [ch |-> "webtunnel", net |-> "client_net_racetunnel", near |-> "ClientAddr", far |-> "ProxyAddr"]
            R(role) == OfClient("webtunnel", i, role)
            side == IrcSide("webtunnel", i, p, "ClientAddr", "ProxyAddr")
            net1 == NetClient(R("NetClient"), R("NetClientAddr"), R("ProxyAddr"), R("ClientAddr"), {Shared("corpRtDnsAddr")})
<1>1. e \in TcpEnds /\ e.ch = "webtunnel" /\ e.net = "client_net_racetunnel" /\ e.near = "ClientAddr" /\ e.far = "ProxyAddr"
    BY DEF TcpEnds
<1>. HIDE DEF e
<1>2. "client_net_racetunnel" \in NetNames(s)
    BY <1>1 DEF ChannelsUsed
<1>3. EndFits(s, R("ClientAddr")) /\ EndFits(s, R("ProxyAddr"))
    BY <1>1, ClientsFit
<1>5. CarriesFit(s, net1)
    BY <1>2, <1>3, ClientResolvers, CarriedBy
<1>6. \A a \in side : CarriesFit(s, a)
    BY IrcSideCarries
<1>7. \A a \in WebtunnelClient(i, p) : a \in side \/ a = net1
          \/ \E name, at, refs, model : a = Actor(name, at, refs, model)
    BY DEF WebtunnelClient
<1>. HIDE DEF side, net1
<1>. QED
    BY <1>5, <1>6, <1>7, CarriedNone

\* The same for obfs4.
LEMMA Obfs4Carries ==
    ASSUME NEW s, ChannelsUsed(s), NEW i \in Range(ClientIds(s, "obfs4")), NEW p
    PROVE  \A a \in Obfs4Client(i, p) : CarriesFit(s, a)
<1>. DEFINE e == [ch |-> "obfs4", net |-> "client_net_obfs", near |-> "ClientAddr", far |-> "ServerAddr"]
            R(role) == OfClient("obfs4", i, role)
            side == IrcSide("obfs4", i, p, "ClientAddr", "ServerAddr")
            net1 == NetClient(R("NetCl"), R("NetClientAddr"), R("ServerAddr"), R("ClientAddr"), {Shared("corpObfsDnsAddr")})
<1>1. e \in TcpEnds /\ e.ch = "obfs4" /\ e.net = "client_net_obfs" /\ e.near = "ClientAddr" /\ e.far = "ServerAddr"
    BY DEF TcpEnds
<1>. HIDE DEF e
<1>2. "client_net_obfs" \in NetNames(s)
    BY <1>1 DEF ChannelsUsed
<1>3. EndFits(s, R("ClientAddr")) /\ EndFits(s, R("ServerAddr"))
    BY <1>1, ClientsFit
<1>5. CarriesFit(s, net1)
    BY <1>2, <1>3, ClientResolvers, CarriedBy
<1>6. \A a \in side : CarriesFit(s, a)
    BY IrcSideCarries
<1>7. \A a \in Obfs4Client(i, p) : a \in side \/ a = net1
          \/ \E name, at, refs, model : a = Actor(name, at, refs, model)
    BY DEF Obfs4Client
<1>. HIDE DEF side, net1
<1>. QED
    BY <1>5, <1>6, <1>7, CarriedNone

\* The same for Skyhook, on both sides.
LEMMA SkyhookCarries ==
    ASSUME NEW s, ChannelsUsed(s), NEW i \in Range(ClientIds(s, "skyhook")), NEW p
    PROVE  \A a \in SkyhookClient(i, p) : CarriesFit(s, a)
<1>. DEFINE e == [ch |-> "skyhook", net |-> "client_net_sky", near |-> "SdkacAddr", far |-> "SdkasAddr"]
            R(role) == OfClient("skyhook", i, role)
            side == IrcSide("skyhook", i, p, "CmacAddr", "CmasAddr")
            net1 == NetClient(R("ClNet"), R("ClNetAddr"), S3Srv, R("SdkacAddr"), {Shared("corpSkyDnsAddr")})
            net2 == NetClient(R("SrvNetCl"), R("SrvNetClAddr"), S3Srv, R("SdkasAddr"), {Shared("servDnsAddr")})
<1>1. e \in TcpEnds /\ e.ch = "skyhook" /\ e.net = "client_net_sky" /\ e.near = "SdkacAddr" /\ e.far = "SdkasAddr"
    BY DEF TcpEnds
<1>. HIDE DEF e
<1>2. "client_net_sky" \in NetNames(s)
    BY <1>1 DEF ChannelsUsed
<1>3. EndFits(s, R("SdkacAddr")) /\ EndFits(s, R("SdkasAddr"))
    BY <1>1, ClientsFit
<1>4. EndFits(s, S3Srv)
    BY ServersFit
<1>5. CarriesFit(s, net1) /\ CarriesFit(s, net2)
    BY <1>2, <1>3, <1>4, ClientResolvers, CarriedBy
<1>6. \A a \in side : CarriesFit(s, a)
    BY IrcSideCarries
<1>7. \A a \in SkyhookClient(i, p) : a \in side \/ a = net1 \/ a = net2
          \/ \E name, at, refs, model : a = Actor(name, at, refs, model)
    BY DEF SkyhookClient
<1>. HIDE DEF side, net1, net2
<1>. QED
    BY <1>5, <1>6, <1>7, CarriedNone

\* The same for Mastodon, on both sides.
LEMMA MastodonCarries ==
    ASSUME NEW s, ChannelsUsed(s), NEW i \in Range(ClientIds(s, "mastodon")), NEW p
    PROVE  \A a \in MastodonClient(i, p) : CarriesFit(s, a)
<1>. DEFINE e == [ch |-> "mastodon", net |-> "client_net_mastodon", near |-> "McacAddr", far |-> "McasAddr"]
            R(role) == OfClient("mastodon", i, role)
            side == IrcSide("mastodon", i, p, "CmacAddr", "CmasAddr")
            net1 == NetClient(R("ClNet"), R("ClNetAddr"), Mastodon, R("McacAddr"), {Shared("corpMasDnsAddr")})
            net2 == NetClient(R("SrvNetCl"), R("SrvNetClAddr"), Mastodon, R("McasAddr"), {Shared("servDnsAddr")})
<1>1. e \in TcpEnds /\ e.ch = "mastodon" /\ e.net = "client_net_mastodon" /\ e.near = "McacAddr" /\ e.far = "McasAddr"
    BY DEF TcpEnds
<1>. HIDE DEF e
<1>2. "client_net_mastodon" \in NetNames(s)
    BY <1>1 DEF ChannelsUsed
<1>3. EndFits(s, R("McacAddr")) /\ EndFits(s, R("McasAddr"))
    BY <1>1, ClientsFit
<1>4. EndFits(s, Mastodon)
    BY ServersFit DEF ChannelsUsed
<1>5. CarriesFit(s, net1) /\ CarriesFit(s, net2)
    BY <1>2, <1>3, <1>4, ClientResolvers, CarriedBy
<1>6. \A a \in side : CarriesFit(s, a)
    BY IrcSideCarries
<1>7. \A a \in MastodonClient(i, p) : a \in side \/ a = net1 \/ a = net2
          \/ \E name, at, refs, model : a = Actor(name, at, refs, model)
    BY DEF MastodonClient
<1>. HIDE DEF side, net1, net2
<1>. QED
    BY <1>5, <1>6, <1>7, CarriedNone

\* An Iodine client has no network client that carries TCP.
LEMMA IodineCarries ==
    ASSUME NEW s, NEW i, NEW p
    PROVE  \A a \in IodineClient(i, p) : CarriesFit(s, a)
<1>1. \A a \in IodineClient(i, p) : a \in IrcSide("iodine", i, p, "SendAppAddr", "RcvAppAddr")
          \/ \E name, at, refs, model : a = Actor(name, at, refs, model)
    BY DEF IodineClient
<1>. QED
    BY <1>1, IrcSideCarries, CarriedNone

\* Nothing is carried for the shared actors, of either tool.
LEMMA SharedCarries ==
    ASSUME NEW s
    PROVE  \A a \in ScriptBase \cup DnsActors \cup TgenServerActors(s) : CarriesFit(s, a)
<1>1. \A a \in ScriptBase : \E name, at, refs, model : a = Actor(name, at, refs, model)
    BY DEF ScriptBase, BaseActors
<1>2. \A a \in DnsActors : \E name, at, refs, model : a = Actor(name, at, refs, model)
    BY DEF DnsActors
<1>3. \A a \in TgenServerActors(s) : \E name, at, refs, model : a = Actor(name, at, refs, model)
    BY DEF TgenServerActors
<1>. QED
    BY <1>1, <1>2, <1>3, CarriedNone

\* What the clients of a channel carry has its ends.
LEMMA ChannelCarries ==
    ASSUME NEW s, ChannelsUsed(s), NEW ch \in Channels
    PROVE  \A a \in ChannelActors(s, ch) : CarriesFit(s, a)
<1>. SUFFICES ASSUME NEW i \in Range(ClientIds(s, ch)), NEW a \in ClientActors(ch, i, ClientProfile(s, ch, i))
              PROVE  CarriesFit(s, a)
    BY ClientsHere
<1>. DEFINE p == ClientProfile(s, ch, i)
<1>. HIDE DEF p
<1>0. a \in ClientActors(ch, i, p)
    BY DEF p
<1>1. CASE ch = "webtunnel"
    BY <1>0, <1>1, WebtunnelCarries DEF ClientActors
<1>2. CASE ch = "skyhook"
    BY <1>0, <1>2, SkyhookCarries DEF ClientActors
<1>3. CASE ch = "obfs4"
    BY <1>0, <1>3, Obfs4Carries DEF ClientActors
<1>4. CASE ch = "iodine"
    BY <1>0, <1>4, IodineCarries DEF ClientActors
<1>5. CASE ch = "mastodon"
    BY <1>0, <1>5, MastodonCarries DEF ClientActors
<1>. QED
    BY <1>1, <1>2, <1>3, <1>4, <1>5 DEF Channels

\* Whoever is placed, by either tool, carries what has its ends.
LEMMA PlacedCarries ==
    ASSUME NEW s, NEW tool, NetworksUsed(s), ChannelsUsed(s)
    PROVE  \A a \in PlacedBy(Output(tool, s)) : CarriesFit(s, a)
<1>. DEFINE shared == ScriptBase \cup DnsActors \cup TgenServerActors(s)
            clients == UNION {ChannelActors(s, ch) : ch \in Channels}
            tgens == UNION {TgenActors(t) : t \in Tgens(s)}
<1>1. Output(tool, s).defined \subseteq shared \cup clients \cup tgens
    <2>1. CASE tool = "generate"
        <3>1. Output(tool, s).defined = DefinedActors(s)
            BY <2>1 DEF Output, GenOutput
        <3>. QED
            BY <3>1 DEF DefinedActors, ScriptBase
    <2>2. CASE tool # "generate"
        <3>1. Output(tool, s).defined = ScriptClients(s) \cup ScriptBase \cup ScriptDns \cup ScriptTgens(s)
            BY <2>2 DEF Output, ScriptOutput
        <3>. QED
            BY <3>1 DEF ScriptClients, ScriptDns, ScriptTgens
    <2>. QED
        BY <2>1, <2>2
<1>2. \A a \in shared : CarriesFit(s, a)
    BY SharedCarries
<1>3. \A a \in clients : CarriesFit(s, a)
    BY ChannelCarries
<1>4. \A a \in tgens : CarriesFit(s, a)
    BY TgenCarries
<1>. HIDE DEF shared, clients, tgens
<1>. QED
    BY <1>1, <1>2, <1>3, <1>4 DEF PlacedBy

-----------------------------------------------------------------------------
(* A scenario that was read, and where the covert channels and servers have their *)
(* networks: what the theorem of the network asks of a scenario.                    *)

NetworksThere(s) == {"server_net", "minio_net"} \subseteq NetNames(s) /\ ChannelsUsed(s)
ScenarioRead == ScenarioAccepted(S) /\ NetworksKnown(S)

\* The generators of an entry are numbered.
LEMMA EntryNumbered ==
    ASSUME scenario \in Scenarios, NEW e \in Range(S.tgens)
    PROVE  /\ EntryTgens(e) \in Seq(Range(EntryTgens(e))) /\ IsInjective(EntryTgens(e))
           /\ \A t \in Range(EntryTgens(e)) : t.type = e.type /\ t.net = e.net
           /\ \A t, u \in Range(EntryTgens(e)) : t.idx = u.idx => t = u
<1>. DEFINE profiles == distribute_profiles(e.qty, e.profs)
            n == Len(profiles)
            seq == EntryTgens(e)
<1>1. /\ seq \in Seq(Range(seq)) /\ DOMAIN seq = 1 .. n
      /\ \A j \in 1 .. n : seq[j] = [type |-> e.type, net |-> e.net, idx |-> j, profile |-> profiles[j]]
    BY EntryFacts
<1>. HIDE DEF seq, n, profiles
<1>2. \A j \in 1 .. n : seq[j].type = e.type /\ seq[j].net = e.net /\ seq[j].idx = j
    BY <1>1
<1>3. IsInjective(seq)
    BY <1>1, <1>2 DEF IsInjective
<1>4. \A t \in Range(seq) : t.type = e.type /\ t.net = e.net
    BY <1>1, <1>2 DEF Range
<1>5. \A t, u \in Range(seq) : t.idx = u.idx => t = u
    BY <1>1, <1>2 DEF Range
<1>. QED
    BY <1>1, <1>3, <1>4, <1>5 DEF seq

\* A generator that was read is of a known type and network.
LEMMA ReadTgens ==
    ASSUME scenario \in Scenarios, ScenarioRead, NEW t \in Tgens(S)
    PROVE  t.type \in TgenTypes /\ t.net \in NetNames(S) /\ t.net \in ClientNets \cup ServerNets
<1>0. NetNames(S) \subseteq ClientNets \cup ServerNets
    BY DEF ScenarioRead, ScenarioAccepted
<1>1. PICK k \in DOMAIN S.tgens : t \in Range(EntryTgens(S.tgens[k]))
    BY TgensFacts
<1>. DEFINE e == S.tgens[k]
<1>2. e \in Range(S.tgens)
    BY DEF Range
<1>3. e.type \in TgenTypes /\ e.net \in NetNames(S)
    BY <1>2, ScenariosAssumption DEF S, ScenarioRead, NetworksKnown
<1>4. t.type = e.type /\ t.net = e.net
    BY <1>1, <1>2, EntryNumbered
<1>. QED
    BY <1>0, <1>3, <1>4

\* Then every network that something is in is known, and a generator has its own.
LEMMA ReadNetworks ==
    ASSUME scenario \in Scenarios, ScenarioRead, MainPossible(S), NetworksThere(S)
    PROVE  NetworksUsed(S)
<1>1. NetNames(S) \subseteq ClientNets \cup ServerNets
    BY DEF ScenarioRead, ScenarioAccepted
<1>2. {"server_net", "minio_net", "dns_net"} \subseteq NetNames(S)
    BY DEF NetworksThere, MainPossible
<1>3. \A t \in Tgens(S) : t.type \in TgenTypes /\ t.net \in NetNames(S)
    BY ReadTgens
<1>. QED
    BY <1>1, <1>2, <1>3 DEF NetworksUsed

\* Hence what either tool writes for it fits together.
LEMMA NetworkMade ==
    ASSUME scenario \in Scenarios, ScenarioRead, MainPossible(S), NetworksThere(S), NEW tool
    PROVE  NetworkFits(Output(tool, S))
<1>0. NetworksUsed(S) /\ ChannelsUsed(S)
    BY ReadNetworks DEF NetworksThere
<1>. DEFINE out == Output(tool, S)
            placed == PlacedBy(out)
            at == {a.at : a \in placed} \cup {Ixp}
<1>1. /\ out.calls = LinkCalls(S) /\ out.params = LinkParams(S)
      /\ out.tcp = TcpAddrs(S) /\ out.udp = UdpAddrs(S) /\ out.seen = visibilityMap(S)
    BY SameNetwork
<1>2. /\ UNION {c.links : c \in out.calls} = Links(S)
      /\ {<<l[1], l[2]>> : l \in UNION {c.links : c \in out.calls}} = Ends(S)
    BY <1>1 DEF Links, Ends
<1>3. \A addr : At(S, addr) => addr \in at
    BY AtPlaced
<1>4. \A a \in placed : CarriesFit(S, a)
    BY <1>0, PlacedCarries
<1>. HIDE DEF out, placed, at
<1>5. ASSUME NEW l \in Links(S) PROVE <<l[2], l[1], l[3]>> \in Links(S) /\ l[1] \in at /\ l[3] \in out.params
    <2>1. LinkFits(S, l)
        BY <1>0, LinksFit
    <2>2. Ixp \in at
        BY DEF at
    <2>. QED
        BY <1>1, <1>3, <2>1, <2>2 DEF LinkFits
<1>6. Cardinality(Ends(S)) = Cardinality(Links(S))
    BY <1>0, LinksCounted
<1>7. ASSUME NEW c \in UNION {a.carries : a \in placed}
      PROVE  /\ \A end \in {c.server, c.client} : end \in out.tcp \ out.udp /\ <<end, Ixp>> \in Ends(S)
             /\ \A d \in c.dns : d \in out.udp /\ {<<d, PublicDns>>, <<d, Ixp>>} \subseteq Ends(S)
    <2>1. CarryFits(S, c)
        BY <1>4 DEF CarriesFit
    <2>2. EndFits(S, c.server) /\ EndFits(S, c.client) /\ \A d \in c.dns : ResolverFits(S, d)
        BY <2>1 DEF CarryFits
    <2>. QED
        BY <1>1, <2>2 DEF EndFits, ResolverFits
<1>8. ASSUME NEW v \in out.seen, NEW w \in out.seen, v.addr = w.addr, "dns_net" \notin {v.net, w.net}
      PROVE  v.net = w.net
    <2>1. /\ v.net = "dns_net" \/ v.net = SeenIn(v.addr)
          /\ w.net = "dns_net" \/ w.net = SeenIn(w.addr)
        BY <1>0, <1>1, SeenFits
    <2>. QED
        BY <1>8, <2>1
<1>9. NetworkFits(out)
    BY <1>2, <1>5, <1>6, <1>7, <1>8 DEF NetworkFits, placed, at
<1>. QED
    BY <1>9 DEF out

-----------------------------------------------------------------------------
(* Sequences without repetitions. *)

\* Two sequences without repetitions, of different elements, one after the other have none.
LEMMA ConcatInjective ==
    ASSUME NEW V, NEW a \in Seq(V), NEW b \in Seq(V), IsInjective(a), IsInjective(b), Range(a) \cap Range(b) = {}
    PROVE  IsInjective(a \o b)
<1>. DEFINE c == a \o b
<1>1. /\ Len(a) \in Nat /\ Len(b) \in Nat /\ DOMAIN a = 1 .. Len(a) /\ DOMAIN b = 1 .. Len(b)
      /\ c \in Seq(V) /\ DOMAIN c = 1 .. Len(a) + Len(b)
      /\ \A i \in 1 .. Len(a) + Len(b) : c[i] = IF i <= Len(a) THEN a[i] ELSE b[i - Len(a)]
    BY ConcatProperties
<1>. HIDE DEF c
<1>. DEFINE m == Len(a)
            n == Len(b)
<1>. HIDE DEF m, n
<1>2. \A i \in 1 .. m + n : \/ i <= m /\ i \in 1 .. m /\ c[i] = a[i] /\ c[i] \in Range(a)
                            \/ ~(i <= m) /\ i - m \in 1 .. n /\ c[i] = b[i - m] /\ c[i] \in Range(b)
    <2>. SUFFICES ASSUME NEW i \in 1 .. m + n
                  PROVE  \/ i <= m /\ i \in 1 .. m /\ c[i] = a[i] /\ c[i] \in Range(a)
                         \/ ~(i <= m) /\ i - m \in 1 .. n /\ c[i] = b[i - m] /\ c[i] \in Range(b)
        OBVIOUS
    <2>1. m \in Nat /\ n \in Nat /\ DOMAIN a = 1 .. m /\ DOMAIN b = 1 .. n
        BY <1>1 DEF m, n
    <2>2. c[i] = IF i <= m THEN a[i] ELSE b[i - m]
        BY <1>1 DEF m, n
    <2>3. CASE i <= m
        <3>1. i \in 1 .. m
            BY <2>1, <2>3
        <3>. QED
            BY <2>1, <2>2, <2>3, <3>1 DEF Range
    <2>4. CASE ~(i <= m)
        <3>1. i - m \in 1 .. n
            BY <2>1, <2>4
        <3>. QED
            BY <2>1, <2>2, <2>4, <3>1 DEF Range
    <2>. QED
        BY <2>3, <2>4
<1>. SUFFICES ASSUME NEW i \in 1 .. m + n, NEW j \in 1 .. m + n, c[i] = c[j] PROVE i = j
    BY <1>1 DEF IsInjective, m, n, c
<1>3. \A x : ~(x \in Range(a) /\ x \in Range(b))
    OBVIOUS
<1>4. DOMAIN a = 1 .. m /\ DOMAIN b = 1 .. n /\ m \in Nat /\ n \in Nat
    BY <1>1 DEF m, n
<1>5. CASE i <= m
    <2>1. j <= m
        BY <1>2, <1>3, <1>5
    <2>. QED
        BY <1>2, <1>4, <1>5, <2>1 DEF IsInjective
<1>6. CASE ~(i <= m)
    <2>1. ~(j <= m)
        BY <1>2, <1>3, <1>6
    <2>2. i - m \in DOMAIN b /\ j - m \in DOMAIN b /\ b[i - m] = b[j - m]
        BY <1>2, <1>4, <1>6, <2>1
    <2>3. i - m = j - m
        BY <2>2 DEF IsInjective
    <2>. QED
        BY <1>4, <2>3
<1>. QED
    BY <1>5, <1>6

\* So is what FlattenSeq puts together, if no two of its sequences share an element.
LEMMA FlattenInjective ==
    ASSUME NEW V, NEW seqs \in Seq(Seq(V)), \A i \in DOMAIN seqs : IsInjective(seqs[i]),
           \A i, j \in DOMAIN seqs : i # j => Range(seqs[i]) \cap Range(seqs[j]) = {}
    PROVE  IsInjective(FlattenSeq(seqs))
<1>1. CASE seqs = <<>>
    BY <1>1 DEF FlattenSeq, IsInjective
<1>2. CASE seqs # <<>>
    <2>. DEFINE n == Len(seqs)
    <2>1. n \in Nat /\ n # 0 /\ DOMAIN seqs = 1 .. n
        BY <1>2
    <2>2. PICK f \in Flattenings(seqs, n, V) : FlattenSeq(seqs) = f[n]
        BY <1>2, FlattenIsLast
    <2>3. /\ f \in [1 .. n -> Seq(V)]
          /\ \A i \in 1 .. n : f[i] = IF i = 1 THEN seqs[i] ELSE f[i - 1] \o seqs[i]
        BY <2>2 DEF Flattenings
    <2>4. \A i \in 1 .. n : seqs[i] \in Seq(V)
        BY <2>1
    <2>. HIDE DEF n
    <2>. DEFINE Of(k) == UNION {Range(seqs[i]) : i \in 1 .. k}
                A == {k \in 1 .. n : Range(f[k]) = Of(k) /\ IsInjective(f[k])}
    <2>5. 1 \in A
        <3>1. f[1] = seqs[1] /\ 1 .. 1 = {1} /\ 1 \in 1 .. n
            BY <2>1, <2>3
        <3>2. Of(1) = Range(seqs[1])
            BY <3>1
        <3>. QED
            BY <2>1, <3>1, <3>2
    <2>6. ASSUME NEW k \in 1 .. n, k \in A, k # n PROVE k + 1 \in A
        <3>1. k \in Nat /\ k + 1 \in 1 .. n /\ k + 1 # 1 /\ (k + 1) - 1 = k
            BY <2>1, <2>6
        <3>2. f[k + 1] = f[k] \o seqs[k + 1]
            BY <2>3, <3>1
        <3>3. Range(f[k]) = Of(k) /\ IsInjective(f[k])
            BY <2>6
        <3>4. f[k] \in Seq(V) /\ seqs[k + 1] \in Seq(V)
            BY <2>3, <2>4, <3>1
        <3>5. Range(f[k + 1]) = Range(f[k]) \cup Range(seqs[k + 1])
            BY <3>2, <3>4, ConcatRange
        <3>6. Of(k + 1) = Of(k) \cup Range(seqs[k + 1])
            <4>1. 1 .. k + 1 = (1 .. k) \cup {k + 1}
                BY <3>1
            <4>. QED
                BY <4>1
        <3>7. Of(k) \cap Range(seqs[k + 1]) = {}
            <4>1. \A i \in 1 .. k : i \in DOMAIN seqs /\ i # k + 1 /\ k + 1 \in DOMAIN seqs
                BY <2>1, <3>1
            <4>2. \A i \in 1 .. k : Range(seqs[i]) \cap Range(seqs[k + 1]) = {}
                BY <4>1
            <4>. QED
                BY <4>2
        <3>8. IsInjective(f[k + 1])
            <4>1. IsInjective(seqs[k + 1])
                BY <2>1, <3>1
            <4>2. Range(f[k]) \cap Range(seqs[k + 1]) = {}
                BY <3>3, <3>7
            <4>. HIDE DEF Of, A
            <4>. QED
                BY <3>2, <3>3, <3>4, <4>1, <4>2, ConcatInjective
        <3>. QED
            BY <3>1, <3>3, <3>5, <3>6, <3>8
    <2>7. \A k \in 1 .. n : k \in A
        <3>. HIDE DEF A
        <3>. QED
            BY <2>1, <2>5, <2>6, InductionTo
    <2>8. n \in A
        <3>1. n \in 1 .. n
            BY <2>1
        <3>. QED
            BY <2>7, <3>1
    <2>. QED
        BY <2>2, <2>8
<1>. QED
    BY <1>1, <1>2

\* A sequence has each element of a set once.
Lists(seq, set) == seq \in Seq(set) /\ Range(seq) = set /\ IsInjective(seq)

\* Two sequences one after the other have the elements of both, if they share none.
LEMMA ListsConcat ==
    ASSUME NEW a, NEW A, NEW b, NEW B, Lists(a, A), Lists(b, B), A \cap B = {}
    PROVE  Lists(a \o b, A \cup B)
<1>1. a \in Seq(A \cup B) /\ b \in Seq(A \cup B)
    BY DEF Lists
<1>2. Range(a \o b) = Range(a) \cup Range(b)
    BY <1>1, ConcatRange
<1>3. IsInjective(a \o b)
    BY <1>1, ConcatInjective DEF Lists
<1>4. a \o b \in Seq(A \cup B)
    BY <1>1, ConcatProperties
<1>. QED
    BY <1>2, <1>3, <1>4 DEF Lists

\* So many different elements one after the other.
LEMMA ShortLists ==
    /\ \A a : Lists(<<a>>, {a})
    /\ \A a, b : a # b => Lists(<<a, b>>, {a, b})
    /\ \A a, b, c : a # b /\ a # c /\ b # c => Lists(<<a, b, c>>, {a, b, c})
<1>1. \A a : Lists(<<a>>, {a})
    BY DEF Lists, Range, IsInjective
<1>2. ASSUME NEW a, NEW b, a # b PROVE Lists(<<a, b>>, {a, b})
    <2>. DEFINE seq == <<a, b>>
    <2>1. seq \in Seq({a, b}) /\ DOMAIN seq = {1, 2} /\ seq[1] = a /\ seq[2] = b
        OBVIOUS
    <2>. HIDE DEF seq
    <2>2. Range(seq) = {a, b} /\ IsInjective(seq)
        BY <1>2, <2>1 DEF Range, IsInjective
    <2>. QED
        BY <2>1, <2>2 DEF seq, Lists
<1>3. ASSUME NEW a, NEW b, NEW c, a # b, a # c, b # c PROVE Lists(<<a, b, c>>, {a, b, c})
    <2>. DEFINE seq == <<a, b, c>>
    <2>1. seq \in Seq({a, b, c}) /\ DOMAIN seq = {1, 2, 3} /\ seq[1] = a /\ seq[2] = b /\ seq[3] = c
        OBVIOUS
    <2>. HIDE DEF seq
    <2>2. Range(seq) = {a, b, c}
        BY <2>1 DEF Range
    <2>3. IsInjective(seq)
        BY <1>3, <2>1 DEF IsInjective
    <2>. QED
        BY <2>1, <2>2, <2>3 DEF seq, Lists
<1>. QED
    BY <1>1, <1>2, <1>3

-----------------------------------------------------------------------------
(* Clients and generators are numbered: none has the number of another. *)

\* The numbers of one entry's clients.
EntryIds(s, ch, k) ==
    IF s.nodes[k].channel = ch THEN [l \in 1 .. s.nodes[k].qty |-> FirstClient(s, k) + l - 1] ELSE <<>>

\* Clients are numbered through: each entry's begin after those of the entries before.
LEMMA FirstClients ==
    ASSUME scenario \in Scenarios, \A n \in Range(S.nodes) : n.qty > 0
    PROVE  /\ S.nodes \in Seq(Range(S.nodes)) /\ \A k \in DOMAIN S.nodes : S.nodes[k].qty \in Nat \ {0}
           /\ \A k \in DOMAIN S.nodes : FirstClient(S, k) \in Int
           /\ \A k, l \in DOMAIN S.nodes : k < l => FirstClient(S, k) + S.nodes[k].qty <= FirstClient(S, l)
<1>. DEFINE nodes == S.nodes
            n == Len(nodes)
            qtys == Qtys(S)
            F(k) == FirstClient(S, k)
<1>1. nodes \in Seq(Range(nodes)) /\ \A k \in DOMAIN nodes : nodes[k].qty \in Int /\ nodes[k].qty > 0
    BY ScenariosAssumption DEF S, Range
<1>2. n \in Nat /\ DOMAIN nodes = 1 .. n
    BY <1>1
<1>3. \A k \in 1 .. n : nodes[k].qty \in Nat \ {0}
    BY <1>1, <1>2
<1>4. qtys = [k \in 1 .. n |-> nodes[k].qty]
    BY <1>2 DEF Qtys
<1>. HIDE DEF n, qtys
<1>5. qtys \in [1 .. n -> Int] /\ \A k \in 1 .. n : qtys[k] = nodes[k].qty
    BY <1>3, <1>4
<1>6. \A k : F(k) = 1 + SumTo(qtys, k - 1)
    BY DEF FirstClient, qtys
<1>. HIDE DEF F
<1>7. ASSUME NEW k \in 1 .. n PROVE F(k) \in Int /\ (k # n => F(k + 1) = F(k) + nodes[k].qty)
    <2>1. k - 1 \in 0 .. n /\ k - 1 # n /\ (k - 1) + 1 = k /\ (k + 1) - 1 = k
        BY <1>2
    <2>2. SumTo(qtys, k - 1) \in Int /\ SumTo(qtys, k) = SumTo(qtys, k - 1) + qtys[k]
        BY <1>2, <1>5, <2>1, SumFacts
    <2>3. F(k) = 1 + SumTo(qtys, k - 1) /\ F(k + 1) = 1 + SumTo(qtys, k)
        BY <1>6, <2>1
    <2>4. qtys[k] = nodes[k].qty /\ nodes[k].qty \in Int
        BY <1>3, <1>5
    <2>. QED
        BY <2>2, <2>3, <2>4
<1>. DEFINE A == {l \in 1 .. n : \A k \in 1 .. n : k < l => F(k) + nodes[k].qty <= F(l)}
<1>8. n # 0 => 1 \in A
    BY <1>2
<1>9. ASSUME NEW l \in 1 .. n, l \in A, l # n PROVE l + 1 \in A
    <2>1. l + 1 \in 1 .. n
        BY <1>2, <1>9
    <2>2. F(l + 1) = F(l) + nodes[l].qty /\ F(l) \in Int /\ nodes[l].qty \in Nat
        BY <1>3, <1>7, <1>9
    <2>3. ASSUME NEW k \in 1 .. n, k < l + 1 PROVE F(k) + nodes[k].qty <= F(l + 1)
        <3>1. CASE k = l
            BY <2>2, <3>1
        <3>2. CASE k < l
            <4>1. F(k) + nodes[k].qty <= F(l)
                BY <1>9, <3>2
            <4>2. F(k) \in Int /\ nodes[k].qty \in Nat
                BY <1>3, <1>7
            <4>. QED
                BY <2>2, <4>1, <4>2
        <3>. QED
            BY <2>3, <3>1, <3>2
    <2>. QED
        BY <2>1, <2>3
<1>10. \A l \in 1 .. n : l \in A
    <2>. HIDE DEF A
    <2>. QED
        BY <1>2, <1>8, <1>9, InductionTo
<1>. QED
    BY <1>1, <1>2, <1>3, <1>7, <1>10 DEF F, n

\* The clients of an entry.
LEMMA EntryIdsFacts ==
    ASSUME scenario \in Scenarios, \A n \in Range(S.nodes) : n.qty > 0, NEW ch, NEW k \in DOMAIN S.nodes
    PROVE  LET ids == EntryIds(S, ch, k)
               qty == S.nodes[k].qty
               first == FirstClient(S, k)
           IN /\ ids \in Seq(Int) /\ IsInjective(ids)
              /\ Len(ids) = IF S.nodes[k].channel = ch THEN qty ELSE 0
              /\ \A i \in Range(ids) : first <= i /\ i < first + qty
<1>. DEFINE ids == EntryIds(S, ch, k)
            qty == S.nodes[k].qty
            first == FirstClient(S, k)
            n == IF S.nodes[k].channel = ch THEN qty ELSE 0
<1>1. qty \in Nat /\ first \in Int
    BY FirstClients
<1>2. n \in Nat /\ DOMAIN ids = 1 .. n /\ \A l \in 1 .. n : ids[l] = first + l - 1 /\ l <= qty
    <2>1. CASE S.nodes[k].channel = ch
        BY <1>1, <2>1 DEF EntryIds
    <2>2. CASE S.nodes[k].channel # ch
        BY <1>1, <2>2 DEF EntryIds
    <2>. QED
        BY <2>1, <2>2
<1>3. ids = [l \in 1 .. n |-> ids[l]]
    <2>1. CASE S.nodes[k].channel = ch
        BY <1>2, <2>1 DEF EntryIds
    <2>2. CASE S.nodes[k].channel # ch
        BY <1>2, <2>2 DEF EntryIds
    <2>. QED
        BY <2>1, <2>2
<1>. HIDE DEF ids, qty, first, n
<1>4. \A l \in 1 .. n : ids[l] \in Int /\ first <= ids[l] /\ ids[l] < first + qty
    BY <1>1, <1>2
<1>5. ids \in [1 .. n -> Int]
    BY <1>3, <1>4
<1>6. ids \in Seq(Int)
    BY <1>2, <1>5, SeqOfFunction
<1>7. Len(ids) = n
    BY <1>2, <1>6
<1>8. IsInjective(ids)
    <2>1. \A l, m \in 1 .. n : first + l - 1 = first + m - 1 => l = m
        BY <1>1, <1>2
    <2>. QED
        BY <1>2, <2>1 DEF IsInjective
<1>9. \A i \in Range(ids) : first <= i /\ i < first + qty
    BY <1>2, <1>4 DEF Range
<1>. QED
    BY <1>6, <1>7, <1>8, <1>9 DEF ids, qty, first, n

\* No two clients of a channel have the same number.
LEMMA ClientsApart ==
    ASSUME scenario \in Scenarios, \A n \in Range(S.nodes) : n.qty > 0, NEW ch
    PROVE  ClientIds(S, ch) \in Seq(Int) /\ IsInjective(ClientIds(S, ch))
<1>. DEFINE nodes == S.nodes
            n == Len(nodes)
            seqs == [k \in DOMAIN nodes |-> EntryIds(S, ch, k)]
<1>1. n \in Nat /\ DOMAIN nodes = 1 .. n
    BY FirstClients
<1>2. ClientIds(S, ch) = FlattenSeq(seqs)
    BY DEF ClientIds, EntryIds
<1>3. DOMAIN seqs = 1 .. n /\ seqs = [k \in 1 .. n |-> seqs[k]] /\ \A k \in 1 .. n : seqs[k] = EntryIds(S, ch, k)
    BY <1>1
<1>. HIDE DEF seqs, n
<1>4. \A k \in 1 .. n : seqs[k] \in Seq(Int) /\ IsInjective(seqs[k])
    BY <1>1, <1>3, EntryIdsFacts
<1>5. seqs \in [1 .. n -> Seq(Int)]
    BY <1>3, <1>4
<1>6. seqs \in Seq(Seq(Int))
    BY <1>1, <1>5, SeqOfFunction
<1>7. ASSUME NEW i \in 1 .. n, NEW j \in 1 .. n, i # j PROVE Range(seqs[i]) \cap Range(seqs[j]) = {}
    <2>. DEFINE F(k) == FirstClient(S, k)
                q(k) == nodes[k].qty
    <2>1. /\ F(i) \in Int /\ F(j) \in Int /\ q(i) \in Nat /\ q(j) \in Nat
          /\ i < j => F(i) + q(i) <= F(j)
          /\ j < i => F(j) + q(j) <= F(i)
        BY <1>1, FirstClients
    <2>2. /\ \A x \in Range(seqs[i]) : F(i) <= x /\ x < F(i) + q(i)
          /\ \A x \in Range(seqs[j]) : F(j) <= x /\ x < F(j) + q(j)
        BY <1>1, <1>3, EntryIdsFacts
    <2>3. Range(seqs[i]) \subseteq Int /\ Range(seqs[j]) \subseteq Int
        <3>1. \A k \in 1 .. n : Range(seqs[k]) \subseteq Int
            BY <1>4 DEF Range
        <3>. QED
            BY <3>1
    <2>. HIDE DEF F, q
    <2>4. i < j \/ j < i
        BY <1>1, <1>7
    <2>5. \A x \in Int : ~(x \in Range(seqs[i]) /\ x \in Range(seqs[j]))
        BY <2>1, <2>2, <2>4
    <2>. QED
        BY <2>3, <2>5
<1>8. FlattenSeq(seqs) \in Seq(Int)
    BY <1>6, FlattenFacts
<1>9. IsInjective(FlattenSeq(seqs))
    BY <1>3, <1>4, <1>6, <1>7, FlattenInjective
<1>. QED
    BY <1>2, <1>8, <1>9

\* No generator is there twice, nor two with the same number of a type and network.
LEMMA TgensApart ==
    ASSUME scenario \in Scenarios
    PROVE  /\ generate_all_tgen_instances(S) \in Seq(Tgens(S)) /\ IsInjective(generate_all_tgen_instances(S))
           /\ \A t, u \in Tgens(S) : t.type = u.type /\ t.net = u.net /\ t.idx = u.idx => t = u
<1>. DEFINE defs == S.tgens
            n == Len(defs)
            seqs == [k \in DOMAIN defs |-> EntryTgens(defs[k])]
            V == Tgens(S)
<1>1. n \in Nat /\ DOMAIN defs = 1 .. n /\ \A k \in 1 .. n : defs[k] \in Range(defs)
    BY ScenariosAssumption DEF S, Range
<1>2. generate_all_tgen_instances(S) = FlattenSeq(seqs)
    BY DEF generate_all_tgen_instances, EntryTgens
<1>3. DOMAIN seqs = 1 .. n /\ seqs = [k \in 1 .. n |-> seqs[k]] /\ \A k \in 1 .. n : seqs[k] = EntryTgens(defs[k])
    BY <1>1
<1>4. V = UNION {Range(EntryTgens(defs[k])) : k \in DOMAIN defs}
    BY TgensFacts
<1>. HIDE DEF seqs, n, V
<1>5. ASSUME NEW k \in 1 .. n PROVE seqs[k] \in Seq(V) /\ IsInjective(seqs[k])
    <2>1. EntryTgens(defs[k]) \in Seq(Range(EntryTgens(defs[k]))) /\ IsInjective(EntryTgens(defs[k]))
        BY <1>1, EntryNumbered
    <2>2. Range(EntryTgens(defs[k])) \subseteq V
        BY <1>1, <1>4
    <2>3. \A A, B : A \subseteq B => Seq(A) \subseteq Seq(B)
        OBVIOUS
    <2>. QED
        BY <1>3, <2>1, <2>2, <2>3
<1>6. seqs \in [1 .. n -> Seq(V)]
    BY <1>3, <1>5
<1>7. seqs \in Seq(Seq(V))
    BY <1>1, <1>6, SeqOfFunction
<1>8. ASSUME NEW i \in 1 .. n, NEW j \in 1 .. n,
             NEW t \in Range(EntryTgens(defs[i])), NEW u \in Range(EntryTgens(defs[j])), t.type = u.type, t.net = u.net
      PROVE  i = j
    <2>1. t.type = defs[i].type /\ t.net = defs[i].net /\ u.type = defs[j].type /\ u.net = defs[j].net
        BY <1>1, EntryNumbered
    <2>. QED
        BY <1>1, <1>8, <2>1, ScenariosAssumption DEF S
<1>9. \A i, j \in 1 .. n : i # j => Range(seqs[i]) \cap Range(seqs[j]) = {}
    BY <1>3, <1>8
<1>10. FlattenSeq(seqs) \in Seq(V)
    BY <1>7, FlattenFacts
<1>11. IsInjective(FlattenSeq(seqs))
    BY <1>3, <1>5, <1>7, <1>9, FlattenInjective
<1>12. ASSUME NEW t \in V, NEW u \in V, t.type = u.type, t.net = u.net, t.idx = u.idx PROVE t = u
    <2>1. PICK i \in 1 .. n : t \in Range(EntryTgens(defs[i]))
        BY <1>1, <1>4
    <2>2. PICK j \in 1 .. n : u \in Range(EntryTgens(defs[j]))
        BY <1>1, <1>4
    <2>3. i = j
        BY <1>8, <1>12, <2>1, <2>2
    <2>. QED
        BY <1>1, <1>12, <2>1, <2>2, <2>3, EntryNumbered
<1>. QED
    BY <1>2, <1>10, <1>11, <1>12 DEF V

-----------------------------------------------------------------------------
(* The timers of the initial state: one for each part that is started. *)

\* The parts of a client that are started, and its user last; each with the same message
\* in every channel.
TimerRoles(ch) ==
    CASE ch = "skyhook"   -> {"AhaAddr", "UmacAddr", "UmasAddr", "UmAddr"}
      [] ch = "webtunnel" -> {"ClientAddr", "UmAddr"}
      [] ch = "iodine"    -> {"SendAppAddr", "RcvAppAddr", "UmAddr"}
      [] ch = "mastodon"  -> {"UmacAddr", "UmasAddr", "UmAddr"}
      [] ch = "obfs4"     -> {"UmAddr"}
TimerMsg(role) ==
    CASE role = "UmAddr" -> "burstDelayTO" [] role \in {"UmacAddr", "UmasAddr"} -> "actionR"
      [] role = "AhaAddr" -> "SkyhookStartCmd" [] role = "ClientAddr" -> "WtStartCmd"
      [] role \in {"SendAppAddr", "RcvAppAddr"} -> "start"
ClientTimer(ch, i, role) ==
    Timer(OfClient(ch, i, role), TimerMsg(role), "hcs", IF role = "UmAddr" THEN 10 ELSE 0)

\* Timers of different parts differ.
LEMMA TimersDiffer ==
    /\ \A ch, i, role : ClientTimer(ch, i, role).to = OfClient(ch, i, role)
    /\ \A ch, i, role, other : ClientTimer(ch, i, role) = ClientTimer(ch, i, other) => role = other
<1>1. \A ch, i, role : ClientTimer(ch, i, role).to = OfClient(ch, i, role)
    BY DEF ClientTimer, Timer
<1>2. ASSUME NEW ch, NEW i, NEW role, NEW other, ClientTimer(ch, i, role) = ClientTimer(ch, i, other) PROVE role = other
    <2>1. OfClient(ch, i, role) = OfClient(ch, i, other)
        BY <1>1, <1>2
    <2>. QED
        BY <2>1, AddressFields
<1>. QED
    BY <1>1, <1>2

\* The timers of a client.
LEMMA TimersOfClient ==
    ASSUME NEW ch \in Channels, NEW i
    PROVE  Lists(ClientTimers(ch, i), {ClientTimer(ch, i, role) : role \in TimerRoles(ch)})
<1>. DEFINE T(role) == ClientTimer(ch, i, role)
            all == {T(role) : role \in TimerRoles(ch)}
            seq == ClientTimers(ch, i)
<1>0. \A role, other : role # other => T(role) # T(other)
    BY TimersDiffer
<1>00. Lists(<<T("UmAddr")>>, {T("UmAddr")})
    BY ShortLists
<1>1. CASE ch = "skyhook"
    <2>1. seq = <<T("AhaAddr"), T("UmacAddr"), T("UmasAddr")>> \o <<T("UmAddr")>>
        BY <1>1 DEF ClientTimers, ClientTimer, TimerMsg
    <2>2. all = {T("AhaAddr"), T("UmacAddr"), T("UmasAddr")} \cup {T("UmAddr")}
        BY <1>1 DEF TimerRoles
    <2>3. /\ T("AhaAddr") # T("UmacAddr") /\ T("AhaAddr") # T("UmasAddr") /\ T("AhaAddr") # T("UmAddr")
          /\ T("UmacAddr") # T("UmasAddr") /\ T("UmacAddr") # T("UmAddr") /\ T("UmasAddr") # T("UmAddr")
        BY <1>0
    <2>. HIDE DEF T, all, seq
    <2>4. Lists(<<T("AhaAddr"), T("UmacAddr"), T("UmasAddr")>>, {T("AhaAddr"), T("UmacAddr"), T("UmasAddr")})
        BY <2>3, ShortLists
    <2>5. {T("AhaAddr"), T("UmacAddr"), T("UmasAddr")} \cap {T("UmAddr")} = {}
        BY <2>3
    <2>6. Lists(seq, all)
        BY <1>00, <2>1, <2>2, <2>4, <2>5, ListsConcat
    <2>. QED
        BY <2>6 DEF all, seq, T
<1>2. CASE ch = "webtunnel"
    <2>1. seq = <<T("ClientAddr")>> \o <<T("UmAddr")>>
        BY <1>2 DEF ClientTimers, ClientTimer, TimerMsg
    <2>2. all = {T("ClientAddr")} \cup {T("UmAddr")}
        BY <1>2 DEF TimerRoles
    <2>3. {T("ClientAddr")} \cap {T("UmAddr")} = {}
        BY <1>0
    <2>. HIDE DEF T, all, seq
    <2>4. Lists(<<T("ClientAddr")>>, {T("ClientAddr")})
        BY ShortLists
    <2>5. Lists(seq, all)
        BY <1>00, <2>1, <2>2, <2>3, <2>4, ListsConcat
    <2>. QED
        BY <2>5 DEF all, seq, T
<1>3. CASE ch = "iodine"
    <2>1. seq = <<T("SendAppAddr"), T("RcvAppAddr")>> \o <<T("UmAddr")>>
        BY <1>3 DEF ClientTimers, ClientTimer, TimerMsg
    <2>2. all = {T("SendAppAddr"), T("RcvAppAddr")} \cup {T("UmAddr")}
        BY <1>3 DEF TimerRoles
    <2>3. T("SendAppAddr") # T("RcvAppAddr") /\ {T("SendAppAddr"), T("RcvAppAddr")} \cap {T("UmAddr")} = {}
        BY <1>0
    <2>. HIDE DEF T, all, seq
    <2>4. Lists(<<T("SendAppAddr"), T("RcvAppAddr")>>, {T("SendAppAddr"), T("RcvAppAddr")})
        BY <2>3, ShortLists
    <2>5. Lists(seq, all)
        BY <1>00, <2>1, <2>2, <2>3, <2>4, ListsConcat
    <2>. QED
        BY <2>5 DEF all, seq, T
<1>4. CASE ch = "mastodon"
    <2>1. seq = <<T("UmacAddr"), T("UmasAddr")>> \o <<T("UmAddr")>>
        BY <1>4 DEF ClientTimers, ClientTimer, TimerMsg
    <2>2. all = {T("UmacAddr"), T("UmasAddr")} \cup {T("UmAddr")}
        BY <1>4 DEF TimerRoles
    <2>3. T("UmacAddr") # T("UmasAddr") /\ {T("UmacAddr"), T("UmasAddr")} \cap {T("UmAddr")} = {}
        BY <1>0
    <2>. HIDE DEF T, all, seq
    <2>4. Lists(<<T("UmacAddr"), T("UmasAddr")>>, {T("UmacAddr"), T("UmasAddr")})
        BY <2>3, ShortLists
    <2>5. Lists(seq, all)
        BY <1>00, <2>1, <2>2, <2>3, <2>4, ListsConcat
    <2>. QED
        BY <2>5 DEF all, seq, T
<1>5. CASE ch = "obfs4"
    <2>1. seq = <<T("UmAddr")>>
        BY <1>5 DEF ClientTimers, ClientTimer, TimerMsg
    <2>2. all = {T("UmAddr")}
        BY <1>5 DEF TimerRoles
    <2>. QED
        BY <1>00, <2>1, <2>2
<1>. QED
    BY <1>1, <1>2, <1>3, <1>4, <1>5 DEF Channels

\* The timers of a channel's clients, and their places in the order of the file.
ChannelTimers(s, ch) ==
    FlattenSeq([k \in DOMAIN ClientIds(s, ch) |-> ClientTimers(ch, ClientIds(s, ch)[k])])
TimersOf(s, ch) == UNION {{ClientTimer(ch, i, role) : role \in TimerRoles(ch)} : i \in Range(ClientIds(s, ch))}

\* Each of them is there once.
LEMMA ChannelStarts ==
    ASSUME scenario \in Scenarios, \A n \in Range(S.nodes) : n.qty > 0, NEW ch \in Channels
    PROVE  Lists(ChannelTimers(S, ch), TimersOf(S, ch))
<1>. DEFINE ids == ClientIds(S, ch)
            n == Len(ids)
            T(i) == {ClientTimer(ch, i, role) : role \in TimerRoles(ch)}
            seqs == [k \in DOMAIN ids |-> ClientTimers(ch, ids[k])]
            V == TimersOf(S, ch)
<1>1. ids \in Seq(Int) /\ IsInjective(ids)
    BY ClientsApart
<1>2. n \in Nat /\ DOMAIN ids = 1 .. n /\ \A k \in 1 .. n : ids[k] \in Range(ids)
    BY <1>1 DEF Range
<1>3. DOMAIN seqs = 1 .. n /\ seqs = [k \in 1 .. n |-> seqs[k]] /\ \A k \in 1 .. n : seqs[k] = ClientTimers(ch, ids[k])
    BY <1>2
<1>4. V = UNION {T(i) : i \in Range(ids)}
    BY DEF TimersOf
<1>5. \A i : Lists(ClientTimers(ch, i), T(i))
    BY TimersOfClient
<1>6. \A i, j : i # j => T(i) \cap T(j) = {}
    <2>1. ASSUME NEW i, NEW j, NEW t \in T(i), t \in T(j) PROVE i = j
        <3>1. PICK r \in TimerRoles(ch) : t = ClientTimer(ch, i, r)
            OBVIOUS
        <3>2. PICK q \in TimerRoles(ch) : t = ClientTimer(ch, j, q)
            BY <2>1
        <3>3. OfClient(ch, i, r) = OfClient(ch, j, q)
            BY <3>1, <3>2, TimersDiffer
        <3>. QED
            BY <3>3, AddressFields
    <2>. HIDE DEF T
    <2>. QED
        BY <2>1
<1>7. ChannelTimers(S, ch) = FlattenSeq(seqs)
    BY DEF ChannelTimers
<1>. HIDE DEF seqs, n, V, T, ids
<1>8. \A k \in 1 .. n : seqs[k] \in Seq(T(ids[k])) /\ Range(seqs[k]) = T(ids[k]) /\ IsInjective(seqs[k]) /\ T(ids[k]) \subseteq V
    BY <1>2, <1>3, <1>4, <1>5 DEF Lists
<1>9. seqs \in Seq(Seq(V))
    <2>1. \A A, B : A \subseteq B => Seq(A) \subseteq Seq(B)
        OBVIOUS
    <2>2. seqs \in [1 .. n -> Seq(V)]
        BY <1>3, <1>8, <2>1
    <2>. QED
        BY <1>2, <2>2, SeqOfFunction
<1>10. \A j, k \in 1 .. n : j # k => Range(seqs[j]) \cap Range(seqs[k]) = {}
    <2>1. \A j, k \in 1 .. n : j # k => ids[j] # ids[k]
        BY <1>1, <1>2 DEF IsInjective
    <2>. QED
        BY <1>6, <1>8, <2>1
<1>11. FlattenSeq(seqs) \in Seq(V) /\ Range(FlattenSeq(seqs)) = UNION {Range(seqs[k]) : k \in DOMAIN seqs}
    BY <1>9, FlattenFacts
<1>12. IsInjective(FlattenSeq(seqs))
    BY <1>3, <1>8, <1>9, <1>10, FlattenInjective
<1>13. UNION {Range(seqs[k]) : k \in DOMAIN seqs} = V
    <2>1. \A i \in Range(ids) : \E k \in 1 .. n : i = ids[k]
        BY <1>2 DEF Range
    <2>2. UNION {Range(seqs[k]) : k \in DOMAIN seqs} \subseteq V
        BY <1>3, <1>8
    <2>3. ASSUME NEW i \in Range(ids) PROVE T(i) \subseteq UNION {Range(seqs[k]) : k \in DOMAIN seqs}
        BY <1>3, <1>8, <2>1
    <2>. QED
        BY <1>4, <2>2, <2>3
<1>. QED
    BY <1>7, <1>11, <1>12, <1>13 DEF Lists, V

\* Whose address it is tells which generator.
LEMMA TgenAddresses ==
    ASSUME scenario \in Scenarios, ScenarioRead, NEW t \in Tgens(S), NEW u \in Tgens(S),
           NEW role, NEW other, OfTgen(t, role) = OfTgen(u, other)
    PROVE  t = u
<1>1. t.type = u.type /\ NetShort(t.net) = NetShort(u.net) /\ t.idx = u.idx
    BY AddressFields
<1>2. t.net = u.net
    BY <1>1, ReadTgens, ShortNames
<1>. QED
    BY <1>1, <1>2, TgensApart

\* The timers of the generators, one of each.
LEMMA TgenStarts ==
    ASSUME scenario \in Scenarios, ScenarioRead
    PROVE  LET tgens == generate_all_tgen_instances(S)
           IN Lists([k \in DOMAIN tgens |-> TgenTimer(tgens[k])], {TgenTimer(t) : t \in Tgens(S)})
<1>. DEFINE tgens == generate_all_tgen_instances(S)
            n == Len(tgens)
            seq == [k \in DOMAIN tgens |-> TgenTimer(tgens[k])]
            V == {TgenTimer(t) : t \in Tgens(S)}
<1>1. tgens \in Seq(Tgens(S)) /\ IsInjective(tgens) /\ Tgens(S) = Range(tgens)
    BY TgensApart DEF Tgens
<1>2. n \in Nat /\ DOMAIN tgens = 1 .. n /\ \A k \in 1 .. n : tgens[k] \in Tgens(S)
    BY <1>1
<1>3. DOMAIN seq = 1 .. n /\ seq = [k \in 1 .. n |-> seq[k]] /\ \A k \in 1 .. n : seq[k] = TgenTimer(tgens[k])
    BY <1>2
<1>4. \A t \in Tgens(S) : TgenTimer(t) \in V
    OBVIOUS
<1>5. \A t \in Tgens(S) : \E k \in 1 .. n : t = tgens[k]
    BY <1>1, <1>2 DEF Range
<1>6. \A t, u \in Tgens(S) : TgenTimer(t) = TgenTimer(u) => t = u
    <2>1. \A t : TgenTimer(t).to = OfTgen(t, "UmAddr")
        BY DEF TgenTimer, Timer
    <2>. QED
        BY <2>1, TgenAddresses
<1>7. \A v \in V : \E t \in Tgens(S) : v = TgenTimer(t)
    OBVIOUS
<1>. HIDE DEF seq, n, V, tgens
<1>8. seq \in [1 .. n -> V]
    BY <1>2, <1>3, <1>4
<1>9. seq \in Seq(V)
    BY <1>2, <1>8, SeqOfFunction
<1>10. Range(seq) = V
    <2>1. \A v \in V : \E k \in 1 .. n : v = seq[k]
        BY <1>3, <1>5, <1>7
    <2>. QED
        BY <1>3, <1>8, <2>1 DEF Range
<1>11. IsInjective(seq)
    BY <1>1, <1>2, <1>3, <1>6 DEF IsInjective
<1>12. Lists(seq, V)
    BY <1>9, <1>10, <1>11 DEF Lists
<1>. QED
    BY <1>12 DEF seq, V, tgens

\* The timer that opens the monitor's windows, and all that are set.
Opening == Timer(Monitor, "initKs", "window", 0)
TgenTimers(s) == {TgenTimer(t) : t \in Tgens(s)}
AllTimers(s, notgens) ==
    (UNION {TimersOf(s, ch) : ch \in Channels}) \cup (IF notgens THEN {} ELSE TgenTimers(s)) \cup {Opening}

\* To whom they are.
LEMMA TimerOwners ==
    ASSUME NEW s
    PROVE  /\ \A ch : \A t \in TimersOf(s, ch) : t.to[1] = ch
           /\ \A t \in TgenTimers(s) : \E u \in Tgens(s) : t = TgenTimer(u) /\ t.to = OfTgen(u, "UmAddr") /\ t.to[1] = u.type
           /\ Opening.to = Monitor /\ Opening.to[1] = "shared" /\ Opening.base = "window"
<1>1. ASSUME NEW ch, NEW t \in TimersOf(s, ch) PROVE t.to[1] = ch
    <2>1. PICK i \in Range(ClientIds(s, ch)) : \E role \in TimerRoles(ch) : t = ClientTimer(ch, i, role)
        BY DEF TimersOf
    <2>. QED
        BY <2>1, TimersDiffer, AddressFields
<1>2. ASSUME NEW u PROVE TgenTimer(u).to = OfTgen(u, "UmAddr") /\ TgenTimer(u).to[1] = u.type
    <2>1. TgenTimer(u).to = OfTgen(u, "UmAddr")
        BY DEF TgenTimer, Timer
    <2>. QED
        BY <2>1, AddressFields
<1>3. \A t \in TgenTimers(s) : \E u \in Tgens(s) : t = TgenTimer(u)
    BY DEF TgenTimers
<1>4. Opening.to = Monitor /\ Opening.base = "window" /\ Monitor[1] = "shared"
    BY AddressFields DEF Opening, Timer, Monitor
<1>. QED
    BY <1>1, <1>2, <1>3, <1>4

\* Each is set once.
LEMMA AllStarts ==
    ASSUME scenario \in Scenarios, ScenarioRead, NEW notgens \in BOOLEAN
    PROVE  Lists(StartupTimers(S, notgens), AllTimers(S, notgens))
<1>0. \A n \in Range(S.nodes) : n.qty > 0
    BY DEF ScenarioRead, ScenarioAccepted
<1>. DEFINE C(ch) == ChannelTimers(S, ch)
            T(ch) == TimersOf(S, ch)
            tgens == generate_all_tgen_instances(S)
            G == IF notgens THEN <<>> ELSE [k \in DOMAIN tgens |-> TgenTimer(tgens[k])]
            U == IF notgens THEN {} ELSE TgenTimers(S)
            last == <<Opening>>
<1>1. StartupTimers(S, notgens) = C("skyhook") \o C("webtunnel") \o C("iodine") \o C("mastodon") \o C("obfs4") \o G \o last
    BY DEF StartupTimers, ChannelTimers, Opening
<1>2. \A ch \in Channels : Lists(C(ch), T(ch))
    BY <1>0, ChannelStarts
<1>3. Lists(G, U)
    <2>1. CASE notgens
        <3>1. G = <<>> /\ U = {} /\ <<>> \in Seq({})
            BY <2>1
        <3>2. Range(<<>>) = {} /\ IsInjective(<<>>)
            BY DEF Range, IsInjective
        <3>. QED
            BY <3>1, <3>2 DEF Lists
    <2>2. CASE ~notgens
        BY <2>2, TgenStarts DEF TgenTimers
    <2>. QED
        BY <2>1, <2>2
<1>4. Lists(last, {Opening})
    BY ShortLists
<1>5. \A ch \in Channels, other \in Channels : ch # other => T(ch) \cap T(other) = {}
    BY TimerOwners
<1>6. \A ch \in Channels : T(ch) \cap U = {} /\ Opening \notin T(ch)
    <2>1. \A ch \in Channels : ch \notin TgenTypes /\ ch # "shared"
        BY DEF Channels, TgenTypes
    <2>2. \A t \in U : t.to[1] \in TgenTypes
        BY TimerOwners, ReadTgens
    <2>3. \A ch \in Channels : \A t \in T(ch) : t.to[1] = ch
        BY TimerOwners
    <2>4. Opening.to[1] = "shared"
        BY TimerOwners
    <2>. HIDE DEF T, U
    <2>. QED
        BY <2>1, <2>2, <2>3, <2>4
<1>7. Opening \notin U
    <2>1. \A t \in U : t.to[1] \in TgenTypes
        BY TimerOwners, ReadTgens
    <2>2. Opening.to[1] = "shared" /\ "shared" \notin TgenTypes
        BY TimerOwners DEF TgenTypes
    <2>. HIDE DEF U
    <2>. QED
        BY <2>1, <2>2
<1>8. AllTimers(S, notgens) = T("skyhook") \cup T("webtunnel") \cup T("iodine") \cup T("mastodon") \cup T("obfs4") \cup U \cup {Opening}
    <2>1. AllTimers(S, notgens) = (UNION {T(ch) : ch \in Channels}) \cup U \cup {Opening}
        BY DEF AllTimers
    <2>. HIDE DEF T, U
    <2>. QED
        BY <2>1 DEF Channels
<1>9. {"skyhook", "webtunnel", "iodine", "mastodon", "obfs4"} \subseteq Channels
    BY DEF Channels
<1>. HIDE DEF C, T, G, U, last
<1>10. Lists(C("skyhook") \o C("webtunnel"), T("skyhook") \cup T("webtunnel"))
    <2>1. T("skyhook") \cap T("webtunnel") = {}
        BY <1>5, <1>9
    <2>. QED
        BY <1>2, <1>9, <2>1, ListsConcat
<1>11. Lists(C("skyhook") \o C("webtunnel") \o C("iodine"), T("skyhook") \cup T("webtunnel") \cup T("iodine"))
    <2>1. T("skyhook") \cap T("iodine") = {} /\ T("webtunnel") \cap T("iodine") = {}
        BY <1>5, <1>9
    <2>2. (T("skyhook") \cup T("webtunnel")) \cap T("iodine") = {}
        BY <2>1
    <2>. QED
        BY <1>2, <1>9, <1>10, <2>2, ListsConcat
<1>12. Lists(C("skyhook") \o C("webtunnel") \o C("iodine") \o C("mastodon"),
             T("skyhook") \cup T("webtunnel") \cup T("iodine") \cup T("mastodon"))
    <2>1. T("skyhook") \cap T("mastodon") = {} /\ T("webtunnel") \cap T("mastodon") = {} /\ T("iodine") \cap T("mastodon") = {}
        BY <1>5, <1>9
    <2>2. (T("skyhook") \cup T("webtunnel") \cup T("iodine")) \cap T("mastodon") = {}
        BY <2>1
    <2>. QED
        BY <1>2, <1>9, <1>11, <2>2, ListsConcat
<1>. DEFINE five == C("skyhook") \o C("webtunnel") \o C("iodine") \o C("mastodon") \o C("obfs4")
            clients == T("skyhook") \cup T("webtunnel") \cup T("iodine") \cup T("mastodon") \cup T("obfs4")
<1>13. Lists(five, clients)
    <2>1. /\ T("skyhook") \cap T("obfs4") = {} /\ T("webtunnel") \cap T("obfs4") = {} /\ T("iodine") \cap T("obfs4") = {}
          /\ T("mastodon") \cap T("obfs4") = {}
        BY <1>5, <1>9
    <2>2. (T("skyhook") \cup T("webtunnel") \cup T("iodine") \cup T("mastodon")) \cap T("obfs4") = {}
        BY <2>1
    <2>. QED
        BY <1>2, <1>9, <1>12, <2>2, ListsConcat
<1>14. clients \cap U = {} /\ Opening \notin clients
    BY <1>6, <1>9
<1>15. StartupTimers(S, notgens) = five \o G \o last /\ AllTimers(S, notgens) = clients \cup U \cup {Opening}
    BY <1>1, <1>8
<1>. HIDE DEF five, clients
<1>16. Lists(five \o G, clients \cup U)
    BY <1>3, <1>13, <1>14, ListsConcat
<1>17. Lists(five \o G \o last, clients \cup U \cup {Opening})
    <2>1. (clients \cup U) \cap {Opening} = {}
        BY <1>7, <1>14
    <2>. QED
        BY <1>4, <1>16, <2>1, ListsConcat
<1>. QED
    BY <1>15, <1>17

\* Whom a timer is to, tells which it is.
LEMMA OneEach ==
    ASSUME scenario \in Scenarios, ScenarioRead, NEW notgens \in BOOLEAN,
           NEW t \in AllTimers(S, notgens), NEW u \in AllTimers(S, notgens), t.to = u.to
    PROVE  t = u
<1>1. \A v \in AllTimers(S, notgens) :
         \/ \E ch \in Channels : v \in TimersOf(S, ch)
         \/ v \in TgenTimers(S)
         \/ v = Opening
    BY DEF AllTimers
<1>2. \A ch \in Channels : ch \notin TgenTypes /\ ch # "shared"
    BY DEF Channels, TgenTypes
<1>3. "shared" \notin TgenTypes
    BY DEF TgenTypes
<1>4. \A v \in TgenTimers(S) : v.to[1] \in TgenTypes
    BY TimerOwners, ReadTgens
<1>5. \A ch \in Channels : \A v \in TimersOf(S, ch) : v.to[1] = ch
    BY TimerOwners
<1>6. Opening.to[1] = "shared"
    BY TimerOwners
<1>7. CASE \E ch \in Channels : t \in TimersOf(S, ch)
    <2>1. PICK ch \in Channels : t \in TimersOf(S, ch)
        BY <1>7
    <2>2. u \in TimersOf(S, ch)
        BY <1>1, <1>2, <1>4, <1>5, <1>6, <2>1
    <2>3. PICK i \in Range(ClientIds(S, ch)) : \E role \in TimerRoles(ch) : t = ClientTimer(ch, i, role)
        BY <2>1 DEF TimersOf
    <2>4. PICK role \in TimerRoles(ch) : t = ClientTimer(ch, i, role)
        BY <2>3
    <2>5. PICK j \in Range(ClientIds(S, ch)) : \E other \in TimerRoles(ch) : u = ClientTimer(ch, j, other)
        BY <2>2 DEF TimersOf
    <2>6. PICK other \in TimerRoles(ch) : u = ClientTimer(ch, j, other)
        BY <2>5
    <2>7. OfClient(ch, i, role) = OfClient(ch, j, other)
        BY <2>4, <2>6, TimersDiffer
    <2>8. i = j /\ role = other
        BY <2>7, AddressFields
    <2>. QED
        BY <2>4, <2>6, <2>8
<1>8. CASE t \in TgenTimers(S)
    <2>1. u \in TgenTimers(S)
        BY <1>1, <1>2, <1>3, <1>4, <1>5, <1>6, <1>8
    <2>2. PICK v \in Tgens(S) : t = TgenTimer(v) /\ t.to = OfTgen(v, "UmAddr")
        BY <1>8, TimerOwners
    <2>3. PICK w \in Tgens(S) : u = TgenTimer(w) /\ u.to = OfTgen(w, "UmAddr")
        BY <2>1, TimerOwners
    <2>4. v = w
        BY <2>2, <2>3, TgenAddresses
    <2>. QED
        BY <2>2, <2>3, <2>4
<1>9. CASE t = Opening
    <2>1. u = Opening
        BY <1>1, <1>2, <1>3, <1>4, <1>5, <1>6, <1>9
    <2>. QED
        BY <1>9, <2>1
<1>. QED
    BY <1>1, <1>7, <1>8, <1>9

-----------------------------------------------------------------------------
(* The user models of the initial state, and what starts them.  *)

\* The names user models have, and the user models of a client: the one that chats, and
\* those of either side of a channel with an action model of its own.
UserNames == {"Um", "UmAct", "UmacAct", "UmasAct"}
ActRole(side) == IF side = "client" THEN "UmacAddr" ELSE "UmasAddr"
ClientUser(a, ch, i, p) ==
    /\ a.name[1] = ch
    /\ \/ a.at = OfClient(ch, i, "UmAddr") /\ a.model = <<"irc", p>>
       \/ \E side \in {"client", "server"} :
             ch \in {"skyhook", "mastodon"} /\ a.at = OfClient(ch, i, ActRole(side)) /\ a.model = <<ch, side>>

\* The other actors are no user models.
LEMMA OtherNames ==
    /\ \A ch, i, role : role \notin UserNames => OfClient(ch, i, role)[4] \notin UserNames
    /\ \A t, role : role \notin UserNames => OfTgen(t, role)[4] \notin UserNames
    /\ \A role : role \notin UserNames => Shared(role)[4] \notin UserNames
BY AddressFields

\* Of the actors every channel has, the user.
LEMMA IrcSideUser ==
    ASSUME NEW ch, NEW i, NEW p, NEW down, NEW up, NEW a \in IrcSide(ch, i, p, down, up), a.name[4] \in UserNames
    PROVE  ClientUser(a, ch, i, p)
<1>1. {"Irc", "Iface", "SrvIface"} \cap UserNames = {}
    BY DEF UserNames
<1>2. \E refs : a = Actor(OfClient(ch, i, "Um"), OfClient(ch, i, "UmAddr"), refs, <<"irc", p>>)
    BY <1>1, ActorFields, OtherNames DEF IrcSide
<1>. QED
    BY <1>2, ActorFields, AddressFields DEF ClientUser

\* The user models of a client, in each channel.
LEMMA ClientUsers ==
    ASSUME NEW ch \in Channels, NEW i, NEW p, NEW a \in ClientActors(ch, i, p), a.name[4] \in UserNames
    PROVE  ClientUser(a, ch, i, p)
<1>. DEFINE R(role) == OfClient(ch, i, role)
<1>0. \A role, at, refs, model : a = Actor(R(role), at, refs, model) => role \in UserNames
    BY ActorFields, OtherNames
<1>00. \A role, at, server, client, dns : a = NetClient(R(role), at, server, client, dns) => role \in UserNames
    BY NetClientFields, OtherNames
<1>000. ASSUME NEW role, NEW side \in {"client", "server"}, NEW refs, ch \in {"skyhook", "mastodon"},
              a = Actor(R(role), R(ActRole(side)), refs, <<ch, side>>)
       PROVE  ClientUser(a, ch, i, p)
    BY <1>000, ActorFields, AddressFields DEF ClientUser
<1>1. CASE ch = "webtunnel"
    <2>. DEFINE side == IrcSide("webtunnel", i, p, "ClientAddr", "ProxyAddr")
    <2>1. {"Client", "Proxy", "NetServer", "NetClient"} \cap UserNames = {}
        BY DEF UserNames
    <2>2. a \in WebtunnelClient(i, p)
        BY <1>1 DEF ClientActors
    <2>3. \/ a \in side
          \/ \E role \in {"Client", "Proxy", "NetServer"} : \E at, refs, model : a = Actor(R(role), at, refs, model)
          \/ \E role \in {"NetClient"} : \E at, server, client, dns : a = NetClient(R(role), at, server, client, dns)
        <3>. HIDE DEF side
        <3>. QED
            BY <1>1, <2>2, Zenon DEF WebtunnelClient, side
    <2>4. CASE a \in side
        BY <1>1, <2>4, IrcSideUser
    <2>. QED
        BY <1>0, <1>00, <2>1, <2>3, <2>4
<1>2. CASE ch = "skyhook"
    <2>. DEFINE side == IrcSide("skyhook", i, p, "CmacAddr", "CmasAddr")
    <2>1. {"CmacAct", "PuaAct", "SdkacAct", "CmasAct", "AhaAct", "SdkasAct", "NetSrv", "ClNet", "SrvNetCl"} \cap UserNames = {}
        BY DEF UserNames
    <2>2. a \in SkyhookClient(i, p)
        BY <1>2 DEF ClientActors
    <2>3. \/ a \in side
          \/ \E role \in {"CmacAct", "PuaAct", "SdkacAct", "CmasAct", "AhaAct", "SdkasAct", "NetSrv"} : \E at, refs, model : a = Actor(R(role), at, refs, model)
          \/ \E role \in {"ClNet", "SrvNetCl"} : \E at, server, client, dns : a = NetClient(R(role), at, server, client, dns)
          \/ a = Actor(R("UmacAct"), R("UmacAddr"), {R("CmacAddr")}, <<"skyhook", "client">>)
          \/ a = Actor(R("UmasAct"), R("UmasAddr"), {R("CmasAddr")}, <<"skyhook", "server">>)
        <3>. HIDE DEF side
        <3>. QED
            BY <1>2, <2>2, Zenon DEF SkyhookClient, side
    <2>4. CASE a \in side
        BY <1>2, <2>4, IrcSideUser
    <2>5. ASSUME NEW role, NEW s \in {"client", "server"}, NEW refs, a = Actor(R(role), R(ActRole(s)), refs, <<"skyhook", s>>)
          PROVE  ClientUser(a, ch, i, p)
        BY <1>000, <1>2, <2>5
    <2>6. ActRole("client") = "UmacAddr" /\ ActRole("server") = "UmasAddr"
        BY DEF ActRole
    <2>7. CASE a = Actor(R("UmacAct"), R("UmacAddr"), {R("CmacAddr")}, <<"skyhook", "client">>)
        BY <2>5, <2>6, <2>7
    <2>8. CASE a = Actor(R("UmasAct"), R("UmasAddr"), {R("CmasAddr")}, <<"skyhook", "server">>)
        BY <2>5, <2>6, <2>8
    <2>. QED
        BY <1>0, <1>00, <2>1, <2>3, <2>4, <2>7, <2>8
<1>3. CASE ch = "obfs4"
    <2>. DEFINE side == IrcSide("obfs4", i, p, "ClientAddr", "ServerAddr")
    <2>1. {"Cl", "Srv", "NetSrv", "NetCl"} \cap UserNames = {}
        BY DEF UserNames
    <2>2. a \in Obfs4Client(i, p)
        BY <1>3 DEF ClientActors
    <2>3. \/ a \in side
          \/ \E role \in {"Cl", "Srv", "NetSrv"} : \E at, refs, model : a = Actor(R(role), at, refs, model)
          \/ \E role \in {"NetCl"} : \E at, server, client, dns : a = NetClient(R(role), at, server, client, dns)
        <3>. HIDE DEF side
        <3>. QED
            BY <1>3, <2>2, Zenon DEF Obfs4Client, side
    <2>4. CASE a \in side
        BY <1>3, <2>4, IrcSideUser
    <2>. QED
        BY <1>0, <1>00, <2>1, <2>3, <2>4
<1>4. CASE ch = "iodine"
    <2>. DEFINE side == IrcSide("iodine", i, p, "SendAppAddr", "RcvAppAddr")
    <2>1. {"SendApp", "RcvApp", "Cl", "Srv", "SrvNetSrv", "SrvNetCl"} \cap UserNames = {}
        BY DEF UserNames
    <2>2. a \in IodineClient(i, p)
        BY <1>4 DEF ClientActors
    <2>3. \/ a \in side
          \/ \E role \in {"SendApp", "RcvApp", "Cl", "Srv", "SrvNetSrv", "SrvNetCl"} : \E at, refs, model : a = Actor(R(role), at, refs, model)
        <3>. HIDE DEF side
        <3>. QED
            BY <1>4, <2>2, Zenon DEF IodineClient, side
    <2>4. CASE a \in side
        BY <1>4, <2>4, IrcSideUser
    <2>. QED
        BY <1>0, <1>00, <2>1, <2>3, <2>4
<1>5. CASE ch = "mastodon"
    <2>. DEFINE side == IrcSide("mastodon", i, p, "CmacAddr", "CmasAddr")
    <2>1. {"CmacAct", "McacAct", "EdacAct", "CmasAct", "McasAct", "EdasAct", "ClNet", "SrvNetCl"} \cap UserNames = {}
        BY DEF UserNames
    <2>2. a \in MastodonClient(i, p)
        BY <1>5 DEF ClientActors
    <2>3. \/ a \in side
          \/ \E role \in {"CmacAct", "McacAct", "EdacAct", "CmasAct", "McasAct", "EdasAct"} : \E at, refs, model : a = Actor(R(role), at, refs, model)
          \/ \E role \in {"ClNet", "SrvNetCl"} : \E at, server, client, dns : a = NetClient(R(role), at, server, client, dns)
          \/ a = Actor(R("UmacAct"), R("UmacAddr"), {R("CmacAddr")}, <<"mastodon", "client">>)
          \/ a = Actor(R("UmasAct"), R("UmasAddr"), {R("CmasAddr")}, <<"mastodon", "server">>)
        <3>. HIDE DEF side
        <3>. QED
            BY <1>5, <2>2, Zenon DEF MastodonClient, side
    <2>4. CASE a \in side
        BY <1>5, <2>4, IrcSideUser
    <2>5. ASSUME NEW role, NEW s \in {"client", "server"}, NEW refs, a = Actor(R(role), R(ActRole(s)), refs, <<"mastodon", s>>)
          PROVE  ClientUser(a, ch, i, p)
        BY <1>000, <1>5, <2>5
    <2>6. ActRole("client") = "UmacAddr" /\ ActRole("server") = "UmasAddr"
        BY DEF ActRole
    <2>7. CASE a = Actor(R("UmacAct"), R("UmacAddr"), {R("CmacAddr")}, <<"mastodon", "client">>)
        BY <2>5, <2>6, <2>7
    <2>8. CASE a = Actor(R("UmasAct"), R("UmasAddr"), {R("CmasAddr")}, <<"mastodon", "server">>)
        BY <2>5, <2>6, <2>8
    <2>. QED
        BY <1>0, <1>00, <2>1, <2>3, <2>4, <2>7, <2>8
<1>. QED
    BY <1>1, <1>2, <1>3, <1>4, <1>5 DEF Channels

\* The user model of a generator.
TgenUser(a, t) == a.name[1] = t.type /\ a.at = OfTgen(t, "UmAddr") /\ a.model = TgenModel(t)

\* A generator has no other.
LEMMA TgenUsers ==
    ASSUME NEW t, t.type \in TgenTypes, NEW a \in TgenActors(t), a.name[4] \in UserNames
    PROVE  TgenUser(a, t)
<1>1. {"Act", "NetClAct", "S3ClAct", "McAct"} \cap UserNames = {}
    BY DEF UserNames
<1>2. \A refs, model : TgenTg(t, refs, model).name[4] \notin UserNames
    BY <1>1, ActorFields, OtherNames DEF TgenTg
<1>3. \A server, client, resolver : TgenNet(t, server, client, resolver).name[4] \notin UserNames
    BY <1>1, NetClientFields, OtherNames DEF TgenNet
<1>4. /\ \A refs, model : Actor(OfTgen(t, "S3ClAct"), OfTgen(t, "S3ClAddr"), refs, model).name[4] \notin UserNames
      /\ \A refs, model : Actor(OfTgen(t, "McAct"), OfTgen(t, "McAddr"), refs, model).name[4] \notin UserNames
    BY <1>1, ActorFields, OtherNames
<1>5. \A refs : TgenUser(TgenUm(t, refs), t)
    BY ActorFields, AddressFields DEF TgenUser, TgenUm
<1>6. \/ \E refs, model : a = TgenTg(t, refs, model)
      \/ \E refs : a = TgenUm(t, refs)
      \/ \E server, client, resolver : a = TgenNet(t, server, client, resolver)
      \/ \E refs, model : a = Actor(OfTgen(t, "S3ClAct"), OfTgen(t, "S3ClAddr"), refs, model)
      \/ \E refs, model : a = Actor(OfTgen(t, "McAct"), OfTgen(t, "McAddr"), refs, model)
    <2>1. CASE t.type = "ftpTgen"
        <3>1. \/ a = TgenTg(t, {Shared("ftpSrvAddr")}, TgenModel(t))
              \/ a = TgenUm(t, {})
              \/ a = TgenNet(t, Shared("ftpSrvAddr"), "TgAddr", TgenDns(t))
            BY <2>1, TgenSets
        <3>. QED
            BY <3>1, Zenon
    <2>2. CASE t.type = "gorTgen"
        <3>1. \/ a = TgenTg(t, {Shared("gorillaSrvAddr")}, NoModel)
              \/ a = TgenUm(t, {})
              \/ a = TgenNet(t, Shared("gorillaSrvAddr"), "TgAddr", TgenDns(t))
            BY <2>2, TgenSets
        <3>. QED
            BY <3>1, Zenon
    <2>3. CASE t.type = "minTgen"
        <3>1. \/ a = TgenTg(t, {OfTgen(t, "S3ClAddr")}, NoModel)
              \/ a = TgenUm(t, {})
              \/ a = TgenNet(t, S3Srv, "S3ClAddr", TgenDns(t))
              \/ a = Actor(OfTgen(t, "S3ClAct"), OfTgen(t, "S3ClAddr"), {S3Srv}, NoModel)
            BY <2>3, TgenSets
        <3>. QED
            BY <3>1, Zenon
    <2>4. CASE t.type = "dnsTgen"
        <3>1. \/ a = TgenTg(t, IF TgenDns(t) = {} THEN {Shared("publicDnsAddr")} ELSE TgenDns(t), NoModel)
              \/ a = TgenUm(t, {})
            BY <2>4, TgenSets
        <3>. QED
            BY <3>1, Zenon
    <2>5. CASE t.type = "masTgen"
        <3>1. \/ a = TgenTg(t, {OfTgen(t, "McAddr")}, TgenModel(t))
              \/ a = TgenUm(t, {})
              \/ a = TgenNet(t, Mastodon, "McAddr", TgenDns(t))
              \/ a = Actor(OfTgen(t, "McAct"), OfTgen(t, "McAddr"), {Mastodon, OfTgen(t, "TgAddr")}, NoModel)
            BY <2>5, TgenSets
        <3>. QED
            BY <3>1, Zenon
    <2>6. CASE t.type = "ircTgen"
        <3>1. \/ a = TgenTg(t, {Irc}, NoModel)
              \/ a = TgenUm(t, {Irc})
              \/ a = TgenNet(t, Irc, "TgAddr", {})
            BY <2>6, TgenSets
        <3>. QED
            BY <3>1, Zenon
    <2>. QED
        BY <2>1, <2>2, <2>3, <2>4, <2>5, <2>6 DEF TgenTypes
<1>. QED
    BY <1>2, <1>3, <1>4, <1>5, <1>6

\* No shared actor is a user model.
LEMMA SharedUsers ==
    ASSUME NEW s
    PROVE  \A a \in ScriptBase \cup DnsActors \cup TgenServerActors(s) : a.name[4] \notin UserNames
<1>1. \A role, at, refs, model : role \notin UserNames => Actor(Shared(role), at, refs, model).name[4] \notin UserNames
    BY ActorFields, OtherNames
<1>2. \A a \in ScriptBase :
         \E role \in {"ircServer", "s3SrvAct", "masSrvAct", "masNetSrv", "advActor", "iodineMonitor"} :
            \E at, refs, model : a = Actor(Shared(role), at, refs, model)
    BY Zenon DEF ScriptBase, BaseActors
<1>3. {"ircServer", "s3SrvAct", "masSrvAct", "masNetSrv", "advActor", "iodineMonitor"} \cap UserNames = {}
    BY DEF UserNames
<1>. DEFINE dns == {"publicDnsAddr", "rootDnsAddr", "tldDnsAddr", "authDnsAddr", "publicResolverNetSrvAddr"}
                      \cup {r.dns : r \in Resolvers} \cup {r.cl : r \in Resolvers}
<1>4. \A a \in DnsActors : \E role \in dns : \E at, refs, model : a = Actor(Shared(role), at, refs, model)
    BY DEF DnsActors
<1>5. dns \cap UserNames = {}
    BY DEF UserNames, Resolvers
<1>6. \A a \in TgenServerActors(s) :
         \E role \in {"ftpSrvAct", "ftpNetSrvAct", "gorillaSrvAct", "gorillaNetSrvAct", "ircTgenSrvNet"} :
            \E at, refs, model : a = Actor(Shared(role), at, refs, model)
    BY Zenon DEF TgenServerActors
<1>7. {"ftpSrvAct", "ftpNetSrvAct", "gorillaSrvAct", "gorillaNetSrvAct", "ircTgenSrvNet"} \cap UserNames = {}
    BY DEF UserNames
<1>. HIDE DEF dns
<1>. QED
    BY <1>1, <1>2, <1>3, <1>4, <1>5, <1>6, <1>7

\* A channel that has clients has a last entry.
LEMMA LastEntry ==
    ASSUME scenario \in Scenarios, NEW ch, NEW k \in DOMAIN S.nodes, S.nodes[k].channel = ch
    PROVE  LastNode(S, ch) \in Range(S.nodes) /\ LastNode(S, ch).channel = ch
<1>. DEFINE nodes == S.nodes
            n == Len(nodes)
            T == {l \in 1 .. n : nodes[l].channel = ch}
            last(l) == nodes[l].channel = ch /\ \A m \in l + 1 .. n : nodes[m].channel # ch
<1>1. n \in Nat /\ DOMAIN nodes = 1 .. n
    BY ScenariosAssumption DEF S
<1>2. T \in SUBSET Int /\ IsFiniteSet(T) /\ T # {}
    <2>1. IsFiniteSet(1 .. n)
        BY <1>1, FS_Interval
    <2>2. T \subseteq 1 .. n
        OBVIOUS
    <2>. QED
        BY <1>1, <2>1, <2>2, FS_Subset
<1>3. Max(T) \in T /\ \A x \in T : x <= Max(T)
    <2>. HIDE DEF T
    <2>. QED
        BY <1>2, LeastAndGreatest
<1>4. Max(T) \in DOMAIN nodes /\ last(Max(T))
    <2>. DEFINE m == Max(T)
    <2>1. m \in 1 .. n /\ nodes[m].channel = ch /\ \A x \in 1 .. n : nodes[x].channel = ch => x <= m
        BY <1>3
    <2>. HIDE DEF m
    <2>2. last(m)
        BY <1>1, <2>1
    <2>. QED
        BY <1>1, <2>1, <2>2 DEF m
<1>. DEFINE c == CHOOSE l \in DOMAIN nodes : last(l)
<1>5. c \in DOMAIN nodes /\ last(c)
    <2>. HIDE DEF last
    <2>. QED
        BY <1>4
<1>6. LastNode(S, ch) = nodes[c]
    BY DEF LastNode
<1>. HIDE DEF c
<1>. QED
    BY <1>5, <1>6 DEF Range

\* A client runs one of the profiles of its channel.
LEMMA ProfileGiven ==
    ASSUME scenario \in Scenarios, ScenarioRead, ProfilesReach(S), NEW ch, NEW i \in Range(ClientIds(S, ch))
    PROVE  <<"irc", ClientProfile(S, ch, i)>> \in ModelFiles(S)
<1>. DEFINE ids == ClientIds(S, ch)
            last == LastNode(S, ch)
            profiles == distribute_profiles(last.qty, last.profs)
<1>0. \A n \in Range(S.nodes) : n.qty > 0
    BY DEF ScenarioRead, ScenarioAccepted
<1>1. ids \in Seq(Int)
    BY <1>0, ClientsApart
<1>2. PICK k \in DOMAIN S.nodes : S.nodes[k].channel = ch
    <2>. DEFINE seqs == [k \in DOMAIN S.nodes |-> EntryIds(S, ch, k)]
    <2>1. ids = FlattenSeq(seqs)
        BY DEF ClientIds, EntryIds
    <2>2. DOMAIN S.nodes = 1 .. Len(S.nodes) /\ Len(S.nodes) \in Nat
        BY ScenariosAssumption DEF S
    <2>3. DOMAIN seqs = 1 .. Len(S.nodes) /\ seqs = [k \in 1 .. Len(S.nodes) |-> seqs[k]]
          /\ \A k \in DOMAIN S.nodes : seqs[k] = EntryIds(S, ch, k)
        BY <2>2
    <2>. HIDE DEF seqs
    <2>4. \A k \in DOMAIN S.nodes : seqs[k] \in Seq(Int)
        BY <1>0, <2>3, EntryIdsFacts
    <2>5. seqs \in [1 .. Len(S.nodes) -> Seq(Int)]
        BY <2>2, <2>3, <2>4
    <2>6. seqs \in Seq(Seq(Int))
        BY <2>2, <2>5, SeqOfFunction
    <2>7. i \in UNION {Range(seqs[k]) : k \in DOMAIN seqs}
        BY <2>1, <2>6, FlattenFacts
    <2>8. PICK k \in DOMAIN S.nodes : i \in Range(seqs[k])
        BY <2>2, <2>3, <2>7
    <2>9. S.nodes[k].channel = ch
        <3>1. CASE S.nodes[k].channel # ch
            <4>1. seqs[k] = <<>>
                BY <2>3, <3>1 DEF EntryIds
            <4>. QED
                BY <2>8, <4>1 DEF Range
        <3>. QED
            BY <3>1
    <2>. QED
        BY <2>9
<1>3. last \in Range(S.nodes) /\ last.channel = ch
    BY <1>2, LastEntry
<1>4. last.qty \in Int /\ last.profs \in Seq(Range(last.profs)) /\ \A p \in Range(last.profs) : p.share \in Int
    BY <1>3, ScenariosAssumption DEF S
<1>5. profiles \in Seq({p.name : p \in Range(last.profs)})
    <2>. HIDE DEF last
    <2>. QED
        BY <1>4, ProfilesFacts
<1>6. Len(ids) <= Len(profiles)
    <2>1. Len(ids) <= Len(ClientProfiles(S, ch))
        BY <1>3 DEF ProfilesReach
    <2>. QED
        BY <2>1 DEF ClientProfiles
<1>. DEFINE j == CHOOSE l \in DOMAIN ids : ids[l] = i
<1>7. j \in DOMAIN ids
    <2>1. \E l \in DOMAIN ids : ids[l] = i
        BY DEF Range
    <2>. QED
        BY <2>1
<1>8. ClientProfile(S, ch, i) = profiles[j]
    BY DEF ClientProfile, ClientProfiles
<1>. HIDE DEF j, profiles, ids
<1>9. DOMAIN ids = 1 .. Len(ids) /\ DOMAIN profiles = 1 .. Len(profiles) /\ Len(ids) \in Nat /\ Len(profiles) \in Nat
    BY <1>1, <1>5
<1>10. j \in 1 .. Len(profiles)
    BY <1>6, <1>7, <1>9
<1>11. profiles[j] \in {p.name : p \in Range(last.profs)}
    BY <1>5, <1>9, <1>10
<1>12. PICK p \in Range(last.profs) : profiles[j] = p.name
    BY <1>11
<1>13. p \in UNION {Range(LastNode(S, n.channel).profs) : n \in Range(S.nodes)}
    BY <1>3, <1>12
<1>. HIDE DEF last
<1>14. <<"irc", p.name>> \in {<<"irc", q.name>> : q \in UNION {Range(LastNode(S, n.channel).profs) : n \in Range(S.nodes)}}
    BY <1>13
<1>. QED
    BY <1>8, <1>12, <1>14 DEF ModelFiles

\* Either tool gives the same models to the map of the second version.
LEMMA SameMap ==
    ASSUME NEW s, NEW tool
    PROVE  Output(tool, s).map = MAModelMap(s)
<1>1. CASE tool = "generate"
    BY <1>1 DEF Output, GenOutput
<1>2. CASE tool # "generate"
    <2>1. Output(tool, s).map = ScriptMAModelMap(s)
        BY <1>2 DEF Output, ScriptOutput
    <2>. DEFINE kinds == {"irc", "irc-tgen", "ftp-tgen", "minio-tgen", "gorilla-tgen"}
    <2>2. ASSUME NEW m \in ModelFiles(s) PROVE ScriptModule(s, m).version = 2 <=> m[1] \in kinds
        <3>1. ModelModule(s, m).version = IF m \in MAModelMap(s) THEN 2 ELSE 1
            BY DEF ModelModule
        <3>2. m \in MAModelMap(s) <=> m[1] \in kinds
            BY DEF MAModelMap
        <3>3. CASE m[1] \in Channels \/ m[1] = "dns-tgen" \/ m[1] = "mastodon-tgen"
            <4>1. ScriptModule(s, m).version = 1
                BY <3>3 DEF ScriptModule, Channels
            <4>. QED
                BY <3>3, <4>1 DEF Channels
        <3>4. CASE ~(m[1] \in Channels \/ m[1] = "dns-tgen" \/ m[1] = "mastodon-tgen")
            <4>1. ScriptModule(s, m) = ModelModule(s, m)
                BY <3>4 DEF ScriptModule
            <4>. QED
                BY <3>1, <3>2, <4>1
        <3>. QED
            BY <3>3, <3>4
    <2>3. ScriptMAModelMap(s) = MAModelMap(s)
        BY <2>2 DEF ScriptMAModelMap, MAModelMap
    <2>. QED
        BY <2>1, <2>3
<1>. QED
    BY <1>1, <1>2

\* Whoever is a user model in the initial state belongs to a client or a generator.
LEMMA UserKinds ==
    ASSUME scenario \in Scenarios, ScenarioRead, NEW tool, NEW a \in UserModels(Output(tool, S))
    PROVE  \/ \E ch \in Channels : \E i \in Range(ClientIds(S, ch)) : ClientUser(a, ch, i, ClientProfile(S, ch, i))
           \/ \E t \in Tgens(S) : TgenUser(a, t)
<1>. DEFINE shared == ScriptBase \cup DnsActors \cup TgenServerActors(S)
            clients == UNION {ChannelActors(S, ch) : ch \in Channels}
            tgens == UNION {TgenActors(t) : t \in Tgens(S)}
<1>0. a \in Output(tool, S).defined /\ a.name[4] \in UserNames
    BY DEF UserModels, PlacedBy, UserNames
<1>1. Output(tool, S).defined \subseteq shared \cup clients \cup tgens
    <2>1. CASE tool = "generate"
        <3>1. Output(tool, S).defined = DefinedActors(S)
            BY <2>1 DEF Output, GenOutput
        <3>. QED
            BY <3>1 DEF DefinedActors, ScriptBase
    <2>2. CASE tool # "generate"
        <3>1. Output(tool, S).defined = ScriptClients(S) \cup ScriptBase \cup ScriptDns \cup ScriptTgens(S)
            BY <2>2 DEF Output, ScriptOutput
        <3>. QED
            BY <3>1 DEF ScriptClients, ScriptDns, ScriptTgens
    <2>. QED
        BY <2>1, <2>2
<1>2. a \notin shared
    BY <1>0, SharedUsers
<1>3. ASSUME a \in clients
      PROVE  \E ch \in Channels : \E i \in Range(ClientIds(S, ch)) : ClientUser(a, ch, i, ClientProfile(S, ch, i))
    <2>1. PICK ch \in Channels : a \in ChannelActors(S, ch)
        BY <1>3
    <2>2. PICK i \in Range(ClientIds(S, ch)) : a \in ClientActors(ch, i, ClientProfile(S, ch, i))
        BY <2>1, ClientsHere
    <2>3. ClientUser(a, ch, i, ClientProfile(S, ch, i))
        BY <1>0, <2>2, ClientUsers
    <2>. QED
        BY <2>3
<1>4. ASSUME a \in tgens PROVE \E t \in Tgens(S) : TgenUser(a, t)
    <2>1. PICK t \in Tgens(S) : a \in TgenActors(t)
        BY <1>4
    <2>2. TgenUser(a, t)
        BY <1>0, <2>1, ReadTgens, TgenUsers
    <2>. QED
        BY <2>2
<1>. HIDE DEF shared, clients, tgens
<1>. QED
    BY <1>0, <1>1, <1>2, <1>3, <1>4

\* The timer that starts a user model, with a timeout if its action model is one of the
\* second version.
StartedBy(a, t) == t.to = a.at /\ (t.msg = "burstDelayTO" <=> a.model \in MAModelMap(S))

\* There is one of its channel for a client's, and its own for a generator's.
LEMMA UserStarts ==
    ASSUME scenario \in Scenarios, ScenarioRead, ProfilesReach(S), NEW tool, NEW a \in UserModels(Output(tool, S))
    PROVE  \/ a.name[1] \in Channels /\ \E t \in TimersOf(S, a.name[1]) : StartedBy(a, t)
           \/ a.name[1] \notin Channels /\ \E t \in TgenTimers(S) : StartedBy(a, t)
<1>1. \A m \in ModelFiles(S) : m \in MAModelMap(S) <=> m[1] \in {"irc", "irc-tgen", "ftp-tgen", "minio-tgen", "gorilla-tgen"}
    BY DEF MAModelMap
<1>2. CASE \E ch \in Channels : \E i \in Range(ClientIds(S, ch)) : ClientUser(a, ch, i, ClientProfile(S, ch, i))
    <2>1. PICK ch \in Channels : \E i \in Range(ClientIds(S, ch)) : ClientUser(a, ch, i, ClientProfile(S, ch, i))
        BY <1>2
    <2>2. PICK i \in Range(ClientIds(S, ch)) : ClientUser(a, ch, i, ClientProfile(S, ch, i))
        BY <2>1
    <2>3. a.name[1] = ch
        BY <2>2 DEF ClientUser
    <2>4. \A role \in TimerRoles(ch) : ClientTimer(ch, i, role) \in TimersOf(S, ch)
        BY DEF TimersOf
    <2>5. \A role : ClientTimer(ch, i, role).to = OfClient(ch, i, role) /\ ClientTimer(ch, i, role).msg = TimerMsg(role)
        BY DEF ClientTimer, Timer
    <2>6. CASE a.at = OfClient(ch, i, "UmAddr") /\ a.model = <<"irc", ClientProfile(S, ch, i)>>
        <3>1. "UmAddr" \in TimerRoles(ch)
            BY DEF TimerRoles, Channels
        <3>2. a.model \in MAModelMap(S)
            BY <1>1, <2>6, ProfileGiven
        <3>3. TimerMsg("UmAddr") = "burstDelayTO"
            BY DEF TimerMsg
        <3>4. StartedBy(a, ClientTimer(ch, i, "UmAddr"))
            BY <2>5, <2>6, <3>2, <3>3 DEF StartedBy
        <3>. QED
            BY <2>3, <2>4, <3>1, <3>4
    <2>7. CASE \E side \in {"client", "server"} :
                  ch \in {"skyhook", "mastodon"} /\ a.at = OfClient(ch, i, ActRole(side)) /\ a.model = <<ch, side>>
        <3>1. PICK side \in {"client", "server"} :
                  ch \in {"skyhook", "mastodon"} /\ a.at = OfClient(ch, i, ActRole(side)) /\ a.model = <<ch, side>>
            BY <2>7
        <3>2. ActRole(side) \in TimerRoles(ch) /\ TimerMsg(ActRole(side)) = "actionR"
            BY <3>1 DEF ActRole, TimerRoles, TimerMsg
        <3>3. a.model \notin MAModelMap(S)
            <4>1. a.model[1] = ch
                BY <3>1
            <4>. QED
                BY <3>1, <4>1 DEF MAModelMap
        <3>4. StartedBy(a, ClientTimer(ch, i, ActRole(side)))
            BY <2>5, <3>1, <3>2, <3>3 DEF StartedBy
        <3>. QED
            BY <2>3, <2>4, <3>2, <3>4
    <2>. QED
        BY <2>2, <2>6, <2>7 DEF ClientUser
<1>3. CASE \E t \in Tgens(S) : TgenUser(a, t)
    <2>1. PICK t \in Tgens(S) : TgenUser(a, t)
        BY <1>3
    <2>2. t.type \in TgenTypes
        BY ReadTgens
    <2>3. a.name[1] \notin Channels
        BY <2>1, <2>2 DEF TgenUser, Channels, TgenTypes
    <2>4. TgenTimer(t) \in TgenTimers(S)
        BY DEF TgenTimers
    <2>5. TgenTimer(t).to = a.at /\ TgenTimer(t).msg = IF t.type \in {"masTgen", "dnsTgen"} THEN "actionR" ELSE "burstDelayTO"
        BY <2>1 DEF TgenUser, TgenTimer, Timer
    <2>6. a.model = TgenModel(t) /\ a.model \in ModelFiles(S)
        BY <2>1 DEF TgenUser, ModelFiles
    <2>7. a.model[1] \in {"irc", "irc-tgen", "ftp-tgen", "minio-tgen", "gorilla-tgen"} <=> t.type \notin {"masTgen", "dnsTgen"}
        BY <2>2, <2>6 DEF TgenModel, TgenTypes
    <2>8. StartedBy(a, TgenTimer(t))
        BY <1>1, <2>5, <2>6, <2>7 DEF StartedBy
    <2>. QED
        BY <2>3, <2>4, <2>8
<1>. QED
    BY <1>2, <1>3, UserKinds

\* Whoever a timer starts is in the initial state, but for the monitor.
LEMMA StartedPlaced ==
    ASSUME scenario \in Scenarios, ScenarioRead, NEW notgens, NEW t \in AllTimers(S, notgens), NEW tool
    PROVE  t.to \in {a.at : a \in PlacedBy(Output(tool, S))} \/ t.base = "window"
<1>1. CASE \E ch \in Channels : t \in TimersOf(S, ch)
    <2>1. PICK ch \in Channels : t \in TimersOf(S, ch)
        BY <1>1
    <2>2. PICK i \in Range(ClientIds(S, ch)) : \E role \in TimerRoles(ch) : t = ClientTimer(ch, i, role)
        BY <2>1 DEF TimersOf
    <2>3. PICK role \in TimerRoles(ch) : t = ClientTimer(ch, i, role)
        BY <2>2
    <2>4. \E name \in PlacedNames[ch] : AddrRole(ch, name) = role
        <3>1. CASE ch = "skyhook"
            <4>1. {"AhaAct", "UmacAct", "UmasAct", "Um"} \subseteq PlacedNames[ch]
                BY <3>1 DEF PlacedNames, IrcSideNames
            <4>2. AddrRole(ch, "AhaAct") = "AhaAddr" /\ AddrRole(ch, "UmacAct") = "UmacAddr" /\ AddrRole(ch, "UmasAct") = "UmasAddr"
                  /\ AddrRole(ch, "Um") = "UmAddr"
                BY DEF AddrRole
            <4>. QED
                BY <3>1, <4>1, <4>2 DEF TimerRoles
        <3>2. CASE ch = "webtunnel"
            <4>1. {"Client", "Um"} \subseteq PlacedNames[ch]
                BY <3>2 DEF PlacedNames, IrcSideNames
            <4>2. AddrRole(ch, "Client") = "ClientAddr" /\ AddrRole(ch, "Um") = "UmAddr"
                BY DEF AddrRole
            <4>. QED
                BY <3>2, <4>1, <4>2 DEF TimerRoles
        <3>3. CASE ch = "iodine"
            <4>1. {"SendApp", "RcvApp", "Um"} \subseteq PlacedNames[ch]
                BY <3>3 DEF PlacedNames, IrcSideNames
            <4>2. AddrRole(ch, "SendApp") = "SendAppAddr" /\ AddrRole(ch, "RcvApp") = "RcvAppAddr" /\ AddrRole(ch, "Um") = "UmAddr"
                BY DEF AddrRole
            <4>. QED
                BY <3>3, <4>1, <4>2 DEF TimerRoles
        <3>4. CASE ch = "mastodon"
            <4>1. {"UmacAct", "UmasAct", "Um"} \subseteq PlacedNames[ch]
                BY <3>4 DEF PlacedNames, IrcSideNames
            <4>2. AddrRole(ch, "UmacAct") = "UmacAddr" /\ AddrRole(ch, "UmasAct") = "UmasAddr" /\ AddrRole(ch, "Um") = "UmAddr"
                BY DEF AddrRole
            <4>. QED
                BY <3>4, <4>1, <4>2 DEF TimerRoles
        <3>5. CASE ch = "obfs4"
            <4>1. "Um" \in PlacedNames[ch]
                BY <3>5 DEF PlacedNames, IrcSideNames
            <4>2. AddrRole(ch, "Um") = "UmAddr"
                BY DEF AddrRole
            <4>. QED
                BY <3>5, <4>1, <4>2 DEF TimerRoles
        <3>. QED
            BY <3>1, <3>2, <3>3, <3>4, <3>5 DEF Channels
    <2>5. t.to = OfClient(ch, i, role)
        BY <2>3, TimersDiffer
    <2>6. At(S, t.to)
        BY <2>4, <2>5, ClientAt
    <2>. QED
        BY <2>6, AtPlaced
<1>2. CASE t \in TgenTimers(S)
    <2>1. PICK u \in Tgens(S) : t = TgenTimer(u) /\ t.to = OfTgen(u, "UmAddr")
        BY <1>2, TimerOwners
    <2>2. u.type \in TgenTypes
        BY ReadTgens
    <2>3. "UmAct" \in PlacedNames[u.type]
        BY <2>2 DEF TgenTypes, PlacedNames
    <2>4. TgenAddrRole("UmAct") = "UmAddr"
        BY DEF TgenAddrRole
    <2>5. At(S, t.to)
        BY <2>1, <2>2, <2>3, <2>4, TgenAt
    <2>. QED
        BY <2>5, AtPlaced
<1>3. CASE t = Opening
    BY <1>3, TimerOwners
<1>. QED
    BY <1>1, <1>2, <1>3 DEF AllTimers

\* Either tool sets the same timers.
LEMMA SameTimers ==
    ASSUME NEW s, NEW tool, NEW notgens \in BOOLEAN
    PROVE  Output(tool, s).timers[notgens] = StartupTimers(s, notgens)
BY DEF Output, GenOutput, ScriptOutput, ScriptStartupTimers

\* Hence the timers of what either writes start its user models.
LEMMA StartsMade ==
    ASSUME scenario \in Scenarios, ScenarioRead, ProfilesReach(S), NEW tool,
           disk["main"].notgens \in BOOLEAN
    PROVE  UsersStart(Output(tool, S))
<1>. DEFINE out == Output(tool, S)
            notgens == disk["main"].notgens
            timers == out.timers[notgens]
            all == AllTimers(S, notgens)
            at == {a.at : a \in PlacedBy(out)}
            To(addr) == {k \in DOMAIN timers : timers[k].to = addr}
            Started(a) == ~notgens \/ a.name[1] \in Channels
<1>1. timers \in Seq(all) /\ Range(timers) = all /\ IsInjective(timers)
    BY SameTimers, AllStarts DEF Lists
<1>2. \A k \in DOMAIN timers : timers[k] \in all
    BY <1>1 DEF Range
<1>3. \A t, u \in all : t.to = u.to => t = u
    BY OneEach
<1>4. \A t \in all : t.to \in at \/ t.base = "window"
    BY StartedPlaced
<1>5. out.map = MAModelMap(S)
    BY SameMap
<1>6. ASSUME NEW a \in UserModels(out)
      PROVE  /\ Started(a) => \E t \in all : StartedBy(a, t)
             /\ ~Started(a) => \A t \in all : t.to # a.at
    <2>1. \/ a.name[1] \in Channels /\ \E t \in TimersOf(S, a.name[1]) : StartedBy(a, t)
          \/ a.name[1] \notin Channels /\ \E t \in TgenTimers(S) : StartedBy(a, t)
        BY UserStarts
    <2>2. CASE a.name[1] \in Channels
        <3>1. TimersOf(S, a.name[1]) \subseteq all
            BY <2>2 DEF AllTimers
        <3>. QED
            BY <2>1, <2>2, <3>1
    <2>3. CASE a.name[1] \notin Channels /\ ~notgens
        <3>1. TgenTimers(S) \subseteq all
            BY <2>3 DEF AllTimers
        <3>. QED
            BY <2>1, <2>3, <3>1
    <2>4. CASE a.name[1] \notin Channels /\ notgens
        <3>1. PICK t \in TgenTimers(S) : StartedBy(a, t)
            BY <2>1, <2>4
        <3>2. a.at[1] \in TgenTypes
            BY <3>1, TimerOwners, ReadTgens DEF StartedBy
        <3>3. \A u \in all : (\E ch \in Channels : u \in TimersOf(S, ch)) \/ u = Opening
            BY <2>4 DEF AllTimers
        <3>4. \A u \in all : u.to[1] \in Channels \/ u.to[1] = "shared"
            BY <3>3, TimerOwners
        <3>5. Channels \cap TgenTypes = {} /\ "shared" \notin TgenTypes
            BY DEF Channels, TgenTypes
        <3>. QED
            BY <2>4, <3>2, <3>4, <3>5
    <2>. QED
        BY <2>2, <2>3, <2>4
<1>7. ASSUME NEW j \in DOMAIN timers, NEW k \in DOMAIN timers,
             timers[j].to[1] \in Channels, timers[j].to[3] = timers[k].to[3], timers[j].to[4] = "UmAddr",
             timers[k].to[1] = timers[j].to[1], k # j
      PROVE  timers[j].plus > timers[k].plus
    <2>1. timers[j] # timers[k]
        BY <1>1, <1>7 DEF IsInjective
    <2>2. ASSUME NEW t \in all, t.to[1] \in Channels
          PROVE  \E i, role : t = ClientTimer(t.to[1], i, role) /\ t.to = OfClient(t.to[1], i, role)
                              /\ t.to[3] = i /\ t.to[4] = role /\ t.plus = IF role = "UmAddr" THEN 10 ELSE 0
        <3>1. \/ \E ch \in Channels : t \in TimersOf(S, ch)
              \/ t \in TgenTimers(S)
              \/ t = Opening
            BY DEF AllTimers
        <3>2. Channels \cap TgenTypes = {} /\ "shared" \notin Channels
            BY DEF Channels, TgenTypes
        <3>3. t \notin TgenTimers(S) /\ t # Opening
            BY <2>2, <3>2, TimerOwners, ReadTgens
        <3>4. PICK ch \in Channels : t \in TimersOf(S, ch)
            BY <3>1, <3>3
        <3>5. t.to[1] = ch
            BY <3>4, TimerOwners
        <3>6. PICK i \in Range(ClientIds(S, ch)) : \E role \in TimerRoles(ch) : t = ClientTimer(ch, i, role)
            BY <3>4 DEF TimersOf
        <3>7. PICK role \in TimerRoles(ch) : t = ClientTimer(ch, i, role)
            BY <3>6
        <3>8. t.to = OfClient(ch, i, role) /\ t.plus = IF role = "UmAddr" THEN 10 ELSE 0
            BY <3>7 DEF ClientTimer, Timer
        <3>. QED
            BY <3>5, <3>7, <3>8, AddressFields
    <2>. DEFINE t == timers[j]
                u == timers[k]
                ch == t.to[1]
    <2>. t \in all /\ u \in all /\ ch \in Channels /\ u.to[1] = ch
        BY <1>2, <1>7
    <2>. HIDE DEF timers, all
    <2>3. PICK i, role : t = ClientTimer(ch, i, role) /\ t.to[3] = i /\ t.to[4] = role /\ t.plus = IF role = "UmAddr" THEN 10 ELSE 0
        BY <2>2
    <2>4. PICK h, other : u = ClientTimer(ch, h, other) /\ u.to[3] = h /\ u.to[4] = other /\ u.plus = IF other = "UmAddr" THEN 10 ELSE 0
        BY <2>2
    <2>5. role = "UmAddr" /\ i = h
        BY <1>7, <2>3, <2>4
    <2>6. other # "UmAddr"
        BY <2>1, <2>3, <2>4, <2>5
    <2>7. t.plus = 10 /\ u.plus = 0
        BY <2>3, <2>4, <2>5, <2>6
    <2>. QED
        BY <2>7
<1>. HIDE DEF timers, all, at, out, notgens
<1>8. ASSUME NEW a \in UserModels(out)
      PROVE  /\ Cardinality(To(a.at)) = IF Started(a) THEN 1 ELSE 0
             /\ \A k \in To(a.at) : timers[k].msg = "burstDelayTO" <=> a.model \in out.map
    <2>1. CASE Started(a)
        <3>1. PICK t \in all : StartedBy(a, t)
            BY <1>6, <2>1
        <3>2. PICK k \in DOMAIN timers : timers[k] = t
            BY <1>1, <3>1 DEF Range
        <3>3. t.to = a.at /\ (t.msg = "burstDelayTO" <=> a.model \in out.map)
            BY <1>5, <3>1 DEF StartedBy
        <3>4. \A l \in DOMAIN timers : timers[l].to = a.at => timers[l] = t
            BY <1>2, <1>3, <3>3
        <3>5. \A l \in DOMAIN timers : timers[l].to = a.at => l = k
            BY <1>1, <3>2, <3>4 DEF IsInjective
        <3>6. To(a.at) = {k}
            BY <3>2, <3>3, <3>5
        <3>. HIDE DEF To, Started
        <3>7. Cardinality(To(a.at)) = 1
            BY <3>6, FS_Singleton
        <3>. QED
            BY <2>1, <3>2, <3>3, <3>6, <3>7
    <2>2. CASE ~Started(a)
        <3>1. To(a.at) = {}
            BY <1>2, <1>6, <2>2
        <3>2. Cardinality({}) = 0
            BY FS_EmptySet
        <3>. HIDE DEF To, Started
        <3>. QED
            BY <2>2, <3>1, <3>2
    <2>. QED
        BY <2>1, <2>2
<1>9. \A k \in DOMAIN timers : timers[k].to \in at \/ timers[k].base = "window"
    BY <1>2, <1>4
<1>10. UsersStart(out)
    BY <1>7, <1>8, <1>9 DEF UsersStart, timers, at, notgens
<1>. QED
    BY <1>10 DEF out

-----------------------------------------------------------------------------
(* How many there are: of generators with each network, of clients in each channel. *)

\* Equal numbers have equal sums.
LEMMA SameSums ==
    ASSUME NEW m \in Nat, NEW f \in [1 .. m -> Int], NEW l \in Nat, NEW g \in [1 .. l -> Int],
           NEW n \in Nat, n <= m, n <= l, \A k \in 1 .. n : f[k] = g[k]
    PROVE  SumTo(f, n) = SumTo(g, n)
<1>. DEFINE A == {k \in Nat : k <= n => SumTo(f, k) = SumTo(g, k)}
<1>1. 0 \in A
    BY SumFacts
<1>2. ASSUME NEW k \in Nat, k \in A PROVE k + 1 \in A
    <2>. SUFFICES ASSUME k + 1 <= n PROVE SumTo(f, k + 1) = SumTo(g, k + 1)
        OBVIOUS
    <2>1. k \in 0 .. m /\ k # m /\ k \in 0 .. l /\ k # l /\ k + 1 \in 1 .. n /\ k <= n
        OBVIOUS
    <2>2. SumTo(f, k + 1) = SumTo(f, k) + f[k + 1] /\ SumTo(g, k + 1) = SumTo(g, k) + g[k + 1]
        BY <2>1, SumFacts
    <2>3. SumTo(f, k) = SumTo(g, k) /\ f[k + 1] = g[k + 1]
        BY <1>2, <2>1
    <2>. QED
        BY <2>2, <2>3
<1>. HIDE DEF A
<1>3. Nat \subseteq A
    BY <1>1, <1>2, Induction
<1>. QED
    BY <1>3 DEF A

\* What FlattenSeq puts together is as long as its sequences are together.
LEMMA FlattenLength ==
    ASSUME NEW V, NEW seqs \in Seq(Seq(V))
    PROVE  Len(FlattenSeq(seqs)) = SumTo([k \in 1 .. Len(seqs) |-> Len(seqs[k])], Len(seqs))
<1>. DEFINE n == Len(seqs)
            lens == [k \in 1 .. n |-> Len(seqs[k])]
<1>1. n \in Nat /\ DOMAIN seqs = 1 .. n /\ \A k \in 1 .. n : seqs[k] \in Seq(V) /\ Len(seqs[k]) \in Nat
    BY LenProperties, ElementOfSeq
<1>2. lens \in [1 .. n -> Int] /\ \A k \in 1 .. n : lens[k] = Len(seqs[k])
    BY <1>1
<1>. HIDE DEF lens
<1>3. CASE seqs = <<>>
    <2>1. n = 0 /\ FlattenSeq(seqs) = <<>>
        BY <1>3 DEF FlattenSeq
    <2>. HIDE DEF n
    <2>2. SumTo(lens, 0) = 0
        BY <1>1, <1>2, SumFacts
    <2>3. Len(FlattenSeq(seqs)) = 0
        BY <2>1
    <2>. QED
        BY <2>1, <2>2, <2>3 DEF lens, n
<1>4. CASE seqs # <<>>
    <2>1. n # 0
        BY <1>1, <1>4
    <2>2. PICK f \in Flattenings(seqs, n, V) : FlattenSeq(seqs) = f[n]
        BY <1>4, FlattenIsLast
    <2>3. /\ f \in [1 .. n -> Seq(V)]
          /\ \A i \in 1 .. n : f[i] = IF i = 1 THEN seqs[i] ELSE f[i - 1] \o seqs[i]
        BY <2>2 DEF Flattenings
    <2>. HIDE DEF n
    <2>. DEFINE A == {k \in 1 .. n : Len(f[k]) = SumTo(lens, k)}
    <2>4. 1 \in A
        <3>1. f[1] = seqs[1] /\ 1 \in 1 .. n /\ 0 \in 0 .. n /\ 0 # n /\ 0 + 1 = 1
            BY <1>1, <2>1, <2>3
        <3>2. SumTo(lens, 0) = 0 /\ SumTo(lens, 0 + 1) = SumTo(lens, 0) + lens[0 + 1]
            BY <1>1, <1>2, <3>1, SumFacts
        <3>3. SumTo(lens, 1) = lens[1] /\ lens[1] \in Int
            BY <1>2, <3>1, <3>2
        <3>. QED
            BY <1>2, <3>1, <3>3
    <2>5. ASSUME NEW k \in 1 .. n, k \in A, k # n PROVE k + 1 \in A
        <3>1. k \in Nat /\ k \in 0 .. n /\ k + 1 \in 1 .. n /\ k + 1 # 1 /\ (k + 1) - 1 = k
            BY <1>1, <2>5
        <3>2. f[k + 1] = f[k] \o seqs[k + 1] /\ f[k] \in Seq(V) /\ seqs[k + 1] \in Seq(V)
            BY <1>1, <2>3, <3>1
        <3>3. Len(f[k + 1]) = Len(f[k]) + Len(seqs[k + 1])
            BY <3>2
        <3>4. SumTo(lens, k + 1) = SumTo(lens, k) + lens[k + 1]
            BY <1>1, <1>2, <2>5, <3>1, SumFacts
        <3>. QED
            BY <1>2, <2>5, <3>1, <3>3, <3>4
    <2>6. \A k \in 1 .. n : k \in A
        <3>. HIDE DEF A
        <3>. QED
            BY <1>1, <2>1, <2>4, <2>5, InductionTo
    <2>7. n \in 1 .. n
        BY <1>1, <2>1
    <2>8. Len(f[n]) = SumTo(lens, n)
        BY <2>6, <2>7
    <2>. QED
        BY <2>2, <2>8 DEF n, lens
<1>. QED
    BY <1>3, <1>4

\* A sequence without repetitions has as many elements as it is long.
LEMMA ListCounted ==
    ASSUME NEW T, NEW seq \in Seq(T), IsInjective(seq)
    PROVE  IsFiniteSet(Range(seq)) /\ Cardinality(Range(seq)) = Len(seq)
<1>. DEFINE n == Len(seq)
            all == Range(seq)
<1>1. n \in Nat /\ DOMAIN seq = 1 .. n /\ seq = [i \in 1 .. n |-> seq[i]]
    BY LenProperties
<1>2. (\A i \in 1 .. n : seq[i] \in all) /\ (\A v \in all : \E i \in 1 .. n : seq[i] = v)
      /\ \A i, j \in 1 .. n : seq[i] = seq[j] => i = j
    <2>. HIDE DEF n
    <2>. QED
        BY <1>1 DEF Range, IsInjective
<1>. HIDE DEF n, all
<1>3. seq \in [1 .. n -> all]
    BY <1>1, <1>2
<1>4. seq \in Bijection(1 .. n, all)
    BY <1>1, <1>2, <1>3 DEF Bijection, Injection, Surjection, IsInjective
<1>5. IsFiniteSet(1 .. n) /\ Cardinality(1 .. n) = n
    BY <1>1, NumbersUpTo
<1>6. IsFiniteSet(all) /\ Cardinality(all) = Cardinality(1 .. n)
    BY <1>4, <1>5, FS_Bijection DEF ExistsBijection
<1>. QED
    BY <1>5, <1>6 DEF n, all

\* There are profiles, and none is to be given to fewer than none.
SharesFit(t) == t.profs # <<>> /\ \A k \in DOMAIN t.profs : ProfileCount(t.qty, t.profs, k) >= 0

\* Then as many are given out as there are.
LEMMA AllGiven ==
    ASSUME NEW t, t.qty \in Int, t.profs \in Seq(Range(t.profs)), \A p \in Range(t.profs) : p.share \in Int, SharesFit(t)
    PROVE  Len(distribute_profiles(t.qty, t.profs)) = t.qty
<1>. DEFINE profs == t.profs
            qty == t.qty
            names == {p.name : p \in Range(profs)}
            n == Len(profs)
            C(k) == ProfileCount(qty, profs, k)
            seqs == [k \in DOMAIN profs |-> [l \in 1 .. C(k) |-> profs[k].name]]
            share == [l \in DOMAIN profs |-> RoundHalfEven(qty * profs[l].share, 100)]
            lens == [k \in 1 .. n |-> Len(seqs[k])]
<1>1. n \in Nat /\ DOMAIN profs = 1 .. n /\ n # 0
    BY DEF SharesFit
<1>2. \A k \in DOMAIN profs : profs[k].name \in names /\ profs[k].share \in Int
    BY DEF Range
<1>3. \A k \in DOMAIN profs : C(k) \in Int /\ C(k) >= 0
    BY CountInt DEF SharesFit
<1>4. ASSUME NEW k \in DOMAIN profs PROVE seqs[k] \in Seq(names) /\ Len(seqs[k]) = C(k)
    <2>. DEFINE count == C(k)
                f == [l \in 1 .. count |-> profs[k].name]
    <2>1. count \in Int /\ ~(count < 0)
        BY <1>3
    <2>2. seqs[k] = [l \in 1 .. count |-> f[l]] /\ \A l \in 1 .. count : f[l] \in names
        BY <1>2
    <2>. HIDE DEF count, f, names, seqs
    <2>3. [l \in 1 .. count |-> f[l]] \in Seq(names) /\ Len([l \in 1 .. count |-> f[l]]) = count
        BY <2>1, <2>2, RepeatedSeq
    <2>. QED
        BY <2>2, <2>3 DEF count
<1>5. distribute_profiles(qty, profs) = FlattenSeq(seqs)
    BY DEF distribute_profiles
<1>6. seqs = [k \in 1 .. n |-> seqs[k]]
    BY <1>1
<1>7. share \in [1 .. n -> Int]
    <2>1. \A v \in Int : RoundHalfEven(v, 100) \in Int
        BY DEF RoundHalfEven
    <2>2. \A l \in DOMAIN profs : qty * profs[l].share \in Int
        BY <1>2
    <2>3. \A l \in DOMAIN profs : RoundHalfEven(qty * profs[l].share, 100) \in Int
        BY <2>1, <2>2
    <2>. QED
        BY <1>1, <2>3
<1>8. \A k \in DOMAIN profs : C(k) = IF k < n THEN share[k] ELSE qty - SumTo(share, n - 1)
    BY DEF ProfileCount
<1>. HIDE DEF names, n, seqs, C, share
<1>9. seqs \in [1 .. n -> Seq(names)]
    BY <1>1, <1>4, <1>6
<1>10. seqs \in Seq(Seq(names)) /\ Len(seqs) = n
    BY <1>1, <1>9, SeqOfFunction
<1>11. Len(FlattenSeq(seqs)) = SumTo(lens, n)
    BY <1>10, FlattenLength
<1>12. lens \in [1 .. n -> Int] /\ \A k \in 1 .. n : lens[k] = C(k)
    BY <1>1, <1>3, <1>4
<1>. HIDE DEF lens
<1>13. n - 1 \in Nat /\ n - 1 \in 0 .. n /\ n - 1 # n /\ (n - 1) + 1 = n /\ n \in 1 .. n
    BY <1>1
<1>14. SumTo(lens, n) = SumTo(lens, n - 1) + lens[n]
    BY <1>1, <1>12, <1>13, SumFacts
<1>15. SumTo(lens, n - 1) = SumTo(share, n - 1) /\ SumTo(share, n - 1) \in Int
    <2>1. \A k \in 1 .. n - 1 : k \in DOMAIN profs /\ k < n /\ k \in 1 .. n
        BY <1>1
    <2>2. \A k \in 1 .. n - 1 : lens[k] = share[k]
        BY <1>8, <1>12, <2>1
    <2>3. n - 1 <= n
        BY <1>1
    <2>4. SumTo(lens, n - 1) = SumTo(share, n - 1)
        BY <1>1, <1>7, <1>12, <1>13, <2>2, <2>3, SameSums
    <2>. QED
        BY <1>1, <1>7, <1>13, <2>4, SumFacts
<1>16. lens[n] = qty - SumTo(share, n - 1)
    <2>1. n \in DOMAIN profs /\ ~(n < n)
        BY <1>1, <1>13
    <2>. QED
        BY <1>8, <1>12, <1>13, <2>1
<1>17. SumTo(lens, n) = qty
    BY <1>14, <1>15, <1>16
<1>. QED
    BY <1>5, <1>11, <1>17

\* Hence each entry has as many generators as it says.
LEMMA EntryCounted ==
    ASSUME scenario \in Scenarios, NEW k \in DOMAIN S.tgens, SharesFit(S.tgens[k])
    PROVE  Cardinality({t \in Tgens(S) : t.type = S.tgens[k].type /\ t.net = S.tgens[k].net}) = S.tgens[k].qty
<1>. DEFINE e == S.tgens[k]
            own == {t \in Tgens(S) : t.type = e.type /\ t.net = e.net}
<1>1. e \in Range(S.tgens)
    BY DEF Range
<1>2. EntryTgens(e) \in Seq(Range(EntryTgens(e))) /\ IsInjective(EntryTgens(e))
      /\ Len(EntryTgens(e)) = Len(distribute_profiles(e.qty, e.profs))
    BY <1>1, EntryNumbered, EntryFacts
<1>3. Len(distribute_profiles(e.qty, e.profs)) = e.qty
    <2>1. e.qty \in Int /\ e.profs \in Seq(Range(e.profs)) /\ \A p \in Range(e.profs) : p.share \in Int
        BY <1>1, ScenariosAssumption DEF S
    <2>. QED
        BY <2>1, AllGiven
<1>4. own = Range(EntryTgens(e))
    <2>1. Tgens(S) = UNION {Range(EntryTgens(S.tgens[j])) : j \in DOMAIN S.tgens}
        BY TgensFacts
    <2>2. \A j \in DOMAIN S.tgens : \A t \in Range(EntryTgens(S.tgens[j])) : t.type = S.tgens[j].type /\ t.net = S.tgens[j].net
        BY EntryNumbered DEF Range
    <2>3. \A j \in DOMAIN S.tgens : <<S.tgens[j].type, S.tgens[j].net>> = <<e.type, e.net>> => j = k
        BY ScenariosAssumption DEF S
    <2>4. \A j \in DOMAIN S.tgens : S.tgens[j].type = e.type /\ S.tgens[j].net = e.net => j = k
        BY <2>3
    <2>. QED
        BY <2>1, <2>2, <2>4
<1>5. Cardinality(Range(EntryTgens(e))) = Len(EntryTgens(e))
    BY <1>2, ListCounted
<1>. QED
    BY <1>2, <1>3, <1>4, <1>5

\* The quantities of a channel's entries.
ChannelQtys(s, ch) == [k \in DOMAIN s.nodes |-> IF s.nodes[k].channel = ch THEN s.nodes[k].qty ELSE 0]

\* A channel has as many clients as its entries say together.
LEMMA ClientsCounted ==
    ASSUME scenario \in Scenarios, \A n \in Range(S.nodes) : n.qty > 0, NEW ch
    PROVE  /\ IsFiniteSet(Range(ClientIds(S, ch)))
           /\ Cardinality(Range(ClientIds(S, ch))) = SumTo(ChannelQtys(S, ch), Len(S.nodes))
<1>. DEFINE nodes == S.nodes
            n == Len(nodes)
            seqs == [k \in DOMAIN nodes |-> EntryIds(S, ch, k)]
            qtys == ChannelQtys(S, ch)
            lens == [k \in 1 .. n |-> Len(seqs[k])]
<1>1. n \in Nat /\ DOMAIN nodes = 1 .. n /\ \A k \in DOMAIN nodes : nodes[k].qty \in Nat
    BY FirstClients
<1>2. ClientIds(S, ch) = FlattenSeq(seqs)
    BY DEF ClientIds, EntryIds
<1>3. DOMAIN seqs = 1 .. n /\ seqs = [k \in 1 .. n |-> seqs[k]] /\ \A k \in 1 .. n : seqs[k] = EntryIds(S, ch, k)
    BY <1>1
<1>4. qtys = [k \in 1 .. n |-> IF nodes[k].channel = ch THEN nodes[k].qty ELSE 0]
    BY <1>1 DEF ChannelQtys
<1>. HIDE DEF seqs, n, qtys
<1>5. \A k \in 1 .. n : seqs[k] \in Seq(Int) /\ Len(seqs[k]) = IF nodes[k].channel = ch THEN nodes[k].qty ELSE 0
    BY <1>1, <1>3, EntryIdsFacts
<1>6. seqs \in [1 .. n -> Seq(Int)]
    BY <1>3, <1>5
<1>7. seqs \in Seq(Seq(Int)) /\ Len(seqs) = n
    BY <1>1, <1>6, SeqOfFunction
<1>8. Len(FlattenSeq(seqs)) = SumTo(lens, n)
    BY <1>7, FlattenLength
<1>9. lens = qtys
    BY <1>4, <1>5
<1>10. IsFiniteSet(Range(ClientIds(S, ch))) /\ Cardinality(Range(ClientIds(S, ch))) = Len(ClientIds(S, ch))
    <2>1. ClientIds(S, ch) \in Seq(Int) /\ IsInjective(ClientIds(S, ch))
        BY ClientsApart
    <2>. QED
        BY <2>1, ListCounted
<1>. QED
    BY <1>2, <1>8, <1>9, <1>10 DEF n, qtys

-----------------------------------------------------------------------------
(* No two actors have the same address. *)

\* The address tells who it is.
Apart(actors) == \A a, b \in actors : a.at = b.at => a = b

\* Actors of a client, or shared ones, each with one of these roles as its address.
RolesFilled(actors, ch, i, roles) ==
    /\ \A a \in actors : \E role \in roles : a.at = OfClient(ch, i, role)
    /\ \A role \in roles : \E a \in actors : a.at = OfClient(ch, i, role)
    /\ Apart(actors)

\* An address of a client has one role.
LEMMA OneRole ==
    ASSUME NEW ch, NEW i, NEW role, NEW other, OfClient(ch, i, role) = OfClient(ch, i, other)
    PROVE  role = other
BY AddressFields

\* Actors of other roles beside them.
LEMMA RolesUnion ==
    ASSUME NEW ch, NEW i, NEW A, NEW R, RolesFilled(A, ch, i, R), NEW B, NEW Q, RolesFilled(B, ch, i, Q), R \cap Q = {}
    PROVE  RolesFilled(A \cup B, ch, i, R \cup Q)
<1>1. \A a \in A, b \in B : a.at # b.at
    BY OneRole DEF RolesFilled
<1>. QED
    BY <1>1 DEF RolesFilled, Apart

\* The roles that a client's actors have.
SideRoles == {"IrcAddr", "UmAddr", "IfaceAddr", "SrvIfaceAddr"}
PlacedRoles(ch) == ChannelRoles[ch] \ (IF ch = "iodine" THEN {"NetServerAddr"} ELSE {})

\* The addresses they are given, and their action models.
GivenServers == {Irc, S3Srv, Mastodon, PublicDns} \cup {Shared(r.dns) : r \in Resolvers}
Given(ch, i) == {OfClient(ch, i, role) : role \in PlacedRoles(ch)} \cup GivenServers
ClientGiven(a, ch, i, p) ==
    /\ a.refs \subseteq Given(ch, i)
    /\ \/ a.model = NoModel \/ a.model = <<"irc", p>>
       \/ ch \in {"skyhook", "mastodon"} /\ a.model \in {<<ch, "client">>, <<ch, "server">>}

\* The shared ones among them.
LEMMA GivenShared ==
    \A ch, i : {Irc, S3Srv, Mastodon, Shared("publicDnsAddr"), Shared("corpMasDnsAddr"), Shared("corpRtDnsAddr"),
                Shared("corpIodDnsAddr"), Shared("corpObfsDnsAddr"), Shared("corpSkyDnsAddr"), Shared("servDnsAddr")}
                  \subseteq Given(ch, i)
<1>1. \A d \in {"corpMasDnsAddr", "corpRtDnsAddr", "corpIodDnsAddr", "corpObfsDnsAddr", "corpSkyDnsAddr", "servDnsAddr"} :
         \E r \in Resolvers : r.dns = d
    BY DEF Resolvers
<1>. QED
    BY <1>1 DEF Given, GivenServers, PublicDns

\* The actors that every channel has.
LEMMA IrcSideFilled ==
    ASSUME NEW ch, NEW i, NEW p, NEW down, NEW up
    PROVE  RolesFilled(IrcSide(ch, i, p, down, up), ch, i, SideRoles)
<1>. DEFINE R(role) == OfClient(ch, i, role)
            a1 == Actor(R("Irc"), R("IrcAddr"), {R("IfaceAddr")}, NoModel)
            a2 == Actor(R("Um"), R("UmAddr"), {R("IrcAddr"), Irc, R("SrvIfaceAddr")}, <<"irc", p>>)
            a3 == Actor(R("Iface"), R("IfaceAddr"), {R("IrcAddr"), R(down)}, NoModel)
            a4 == Actor(R("SrvIface"), R("SrvIfaceAddr"), {Irc, R(up)}, NoModel)
<1>1. IrcSide(ch, i, p, down, up) = {a1, a2, a3, a4}
    BY DEF IrcSide
<1>2. a1.at = R("IrcAddr") /\ a2.at = R("UmAddr") /\ a3.at = R("IfaceAddr") /\ a4.at = R("SrvIfaceAddr")
    BY ActorFields
<1>3. \A role, other : R(role) = R(other) => role = other
    BY OneRole
<1>. HIDE DEF R, a1, a2, a3, a4
<1>4. Apart({a1, a2, a3, a4})
    BY <1>2, <1>3 DEF Apart
<1>. QED
    BY <1>1, <1>2, <1>4 DEF RolesFilled, R, SideRoles

\* What they are given.
LEMMA IrcSideGiven ==
    ASSUME NEW ch, NEW i, NEW p, NEW down, NEW up, SideRoles \cup {down, up} \subseteq PlacedRoles(ch)
    PROVE  \A a \in IrcSide(ch, i, p, down, up) : ClientGiven(a, ch, i, p)
<1>. DEFINE R(role) == OfClient(ch, i, role)
            a1 == Actor(R("Irc"), R("IrcAddr"), {R("IfaceAddr")}, NoModel)
            a2 == Actor(R("Um"), R("UmAddr"), {R("IrcAddr"), Irc, R("SrvIfaceAddr")}, <<"irc", p>>)
            a3 == Actor(R("Iface"), R("IfaceAddr"), {R("IrcAddr"), R(down)}, NoModel)
            a4 == Actor(R("SrvIface"), R("SrvIfaceAddr"), {Irc, R(up)}, NoModel)
<1>1. IrcSide(ch, i, p, down, up) = {a1, a2, a3, a4}
    BY DEF IrcSide
<1>2. /\ a1.refs = {R("IfaceAddr")} /\ a2.refs = {R("IrcAddr"), Irc, R("SrvIfaceAddr")}
      /\ a3.refs = {R("IrcAddr"), R(down)} /\ a4.refs = {Irc, R(up)}
      /\ a1.model = NoModel /\ a2.model = <<"irc", p>> /\ a3.model = NoModel /\ a4.model = NoModel
    BY ActorFields
<1>3. \A role \in SideRoles \cup {down, up} : R(role) \in Given(ch, i)
    BY DEF Given
<1>4. Irc \in Given(ch, i)
    BY GivenShared
<1>. HIDE DEF R, a1, a2, a3, a4
<1>5. \A a \in {a1, a2, a3, a4} : ClientGiven(a, ch, i, p)
    BY <1>2, <1>3, <1>4 DEF ClientGiven, SideRoles
<1>. QED
    BY <1>1, <1>5

\* The actors of a WebTunnel client.
LEMMA WebtunnelFilled ==
    ASSUME NEW i, NEW p
    PROVE  /\ RolesFilled(WebtunnelClient(i, p), "webtunnel", i, PlacedRoles("webtunnel"))
           /\ \A a \in WebtunnelClient(i, p) : ClientGiven(a, "webtunnel", i, p)
<1>. DEFINE R(role) == OfClient("webtunnel", i, role)
            side == IrcSide("webtunnel", i, p, "ClientAddr", "ProxyAddr")
            a1 == Actor(R("Client"), R("ClientAddr"), {R("ProxyAddr"), Irc, R("IfaceAddr")}, NoModel)
            a2 == Actor(R("Proxy"), R("ProxyAddr"), {R("SrvIfaceAddr")}, NoModel)
            a3 == NetClient(R("NetClient"), R("NetClientAddr"), R("ProxyAddr"), R("ClientAddr"), {Shared("corpRtDnsAddr")})
            a4 == Actor(R("NetServer"), R("NetServerAddr"), {R("ProxyAddr")}, NoModel)
            Q == {"ClientAddr", "ProxyAddr", "NetClientAddr", "NetServerAddr"}
            more == {a1, a2, a3, a4}
<1>1. WebtunnelClient(i, p) = side \cup more
    BY DEF WebtunnelClient
<1>2. /\ a1.at = R("ClientAddr") /\ a2.at = R("ProxyAddr") /\ a3.at = R("NetClientAddr") /\ a4.at = R("NetServerAddr")
    BY ActorFields, NetClientFields
<1>3. RolesFilled(side, "webtunnel", i, SideRoles)
    BY IrcSideFilled
<1>4. \A role, other : R(role) = R(other) => role = other
    BY OneRole
<1>5. SideRoles \cap Q = {} /\ SideRoles \cup Q = PlacedRoles("webtunnel")
    BY DEF SideRoles, PlacedRoles, ChannelRoles
<1>6. /\ a1.refs = {R("ProxyAddr"), Irc, R("IfaceAddr")}
      /\ a2.refs = {R("SrvIfaceAddr")}
      /\ a3.refs = {R("ProxyAddr"), R("ClientAddr")} \cup {Shared("corpRtDnsAddr")}
      /\ a4.refs = {R("ProxyAddr")}
    BY ActorFields, NetClientFields
<1>7. /\ a1.model = NoModel /\ a2.model = NoModel /\ a3.model = NoModel /\ a4.model = NoModel
    BY ActorFields, NetClientFields
<1>8. \A role \in SideRoles \cup Q : R(role) \in Given("webtunnel", i)
    BY <1>5 DEF Given
<1>9. {"ClientAddr", "ProxyAddr"} \subseteq PlacedRoles("webtunnel")
    BY <1>5
<1>10. \A a \in side : ClientGiven(a, "webtunnel", i, p)
    BY <1>5, <1>9, IrcSideGiven
<1>. HIDE DEF side, R, a1, a2, a3, a4
<1>11. \A role \in Q : \E a \in more : a.at = R(role)
    BY <1>2
<1>12. RolesFilled(more, "webtunnel", i, Q)
    <2>1. Apart(more)
        BY <1>2, <1>4 DEF Apart
    <2>2. \A a \in more : \E role \in Q : a.at = R(role)
        BY <1>2
    <2>. QED
        BY <1>11, <2>1, <2>2 DEF RolesFilled, R
<1>13. \A a \in more : ClientGiven(a, "webtunnel", i, p)
    <2>. DEFINE G == Given("webtunnel", i)
    <2>1. /\ {Irc, Shared("corpRtDnsAddr")} \subseteq G
          /\ \A role \in SideRoles \cup Q : R(role) \in G
        BY <1>8, GivenShared
    <2>. HIDE DEF G
    <2>2. /\ a1.refs \subseteq G /\ a2.refs \subseteq G /\ a3.refs \subseteq G /\ a4.refs \subseteq G
        BY <1>6, <2>1 DEF SideRoles
    <2>3. \A a \in more : a.refs \subseteq G
        BY <2>2
    <2>4. \A a \in more : a.model = NoModel
        BY <1>7
    <2>. QED
        BY <2>3, <2>4 DEF ClientGiven, G
<1>. HIDE DEF more, Q
<1>14. RolesFilled(side \cup more, "webtunnel", i, SideRoles \cup Q)
    BY <1>3, <1>5, <1>12, RolesUnion
<1>. QED
    BY <1>1, <1>5, <1>10, <1>13, <1>14

\* The actors of a Skyhook client.
LEMMA SkyhookFilled ==
    ASSUME NEW i, NEW p
    PROVE  /\ RolesFilled(SkyhookClient(i, p), "skyhook", i, PlacedRoles("skyhook"))
           /\ \A a \in SkyhookClient(i, p) : ClientGiven(a, "skyhook", i, p)
<1>. DEFINE R(role) == OfClient("skyhook", i, role)
            side == IrcSide("skyhook", i, p, "CmacAddr", "CmasAddr")
            a1 == Actor(R("UmacAct"), R("UmacAddr"), {R("CmacAddr")}, <<"skyhook", "client">>)
            a2 == Actor(R("CmacAct"), R("CmacAddr"), {R("IfaceAddr"), R("PuaAddr")}, NoModel)
            a3 == Actor(R("PuaAct"), R("PuaAddr"), {R("CmacAddr"), R("SdkacAddr")}, NoModel)
            a4 == Actor(R("SdkacAct"), R("SdkacAddr"), {S3Srv}, NoModel)
            a5 == Actor(R("UmasAct"), R("UmasAddr"), {R("CmasAddr")}, <<"skyhook", "server">>)
            a6 == Actor(R("CmasAct"), R("CmasAddr"), {R("SrvIfaceAddr"), R("AhaAddr")}, NoModel)
            a7 == Actor(R("AhaAct"), R("AhaAddr"), {R("CmasAddr"), R("SdkasAddr")}, NoModel)
            a8 == Actor(R("SdkasAct"), R("SdkasAddr"), {S3Srv}, NoModel)
            a9 == NetClient(R("ClNet"), R("ClNetAddr"), S3Srv, R("SdkacAddr"), {Shared("corpSkyDnsAddr")})
            a10 == Actor(R("NetSrv"), R("NetSrvAddr"), {S3Srv}, NoModel)
            a11 == NetClient(R("SrvNetCl"), R("SrvNetClAddr"), S3Srv, R("SdkasAddr"), {Shared("servDnsAddr")})
            Q == {"UmacAddr", "CmacAddr", "PuaAddr", "SdkacAddr", "UmasAddr", "CmasAddr", "AhaAddr", "SdkasAddr",
                  "ClNetAddr", "NetSrvAddr", "SrvNetClAddr"}
            more == {a1, a2, a3, a4, a5, a6, a7, a8, a9, a10, a11}
<1>1. SkyhookClient(i, p) = side \cup more
    BY DEF SkyhookClient
<1>2. /\ a1.at = R("UmacAddr") /\ a2.at = R("CmacAddr") /\ a3.at = R("PuaAddr") /\ a4.at = R("SdkacAddr")
      /\ a5.at = R("UmasAddr") /\ a6.at = R("CmasAddr") /\ a7.at = R("AhaAddr") /\ a8.at = R("SdkasAddr")
      /\ a9.at = R("ClNetAddr") /\ a10.at = R("NetSrvAddr") /\ a11.at = R("SrvNetClAddr")
    BY ActorFields, NetClientFields
<1>3. RolesFilled(side, "skyhook", i, SideRoles)
    BY IrcSideFilled
<1>4. \A role, other : R(role) = R(other) => role = other
    BY OneRole
<1>5. SideRoles \cap Q = {} /\ SideRoles \cup Q = PlacedRoles("skyhook")
    BY DEF SideRoles, PlacedRoles, ChannelRoles
<1>6. /\ a1.refs = {R("CmacAddr")}
      /\ a2.refs = {R("IfaceAddr"), R("PuaAddr")}
      /\ a3.refs = {R("CmacAddr"), R("SdkacAddr")}
      /\ a4.refs = {S3Srv}
      /\ a5.refs = {R("CmasAddr")}
      /\ a6.refs = {R("SrvIfaceAddr"), R("AhaAddr")}
      /\ a7.refs = {R("CmasAddr"), R("SdkasAddr")}
      /\ a8.refs = {S3Srv}
      /\ a9.refs = {S3Srv, R("SdkacAddr")} \cup {Shared("corpSkyDnsAddr")}
      /\ a10.refs = {S3Srv}
      /\ a11.refs = {S3Srv, R("SdkasAddr")} \cup {Shared("servDnsAddr")}
    BY ActorFields, NetClientFields
<1>7. /\ a1.model = <<"skyhook", "client">> /\ a2.model = NoModel /\ a3.model = NoModel /\ a4.model = NoModel
      /\ a5.model = <<"skyhook", "server">> /\ a6.model = NoModel /\ a7.model = NoModel /\ a8.model = NoModel
      /\ a9.model = NoModel /\ a10.model = NoModel /\ a11.model = NoModel
    BY ActorFields, NetClientFields
<1>8. \A role \in SideRoles \cup Q : R(role) \in Given("skyhook", i)
    BY <1>5 DEF Given
<1>9. {"CmacAddr", "CmasAddr"} \subseteq PlacedRoles("skyhook")
    BY <1>5
<1>10. \A a \in side : ClientGiven(a, "skyhook", i, p)
    BY <1>5, <1>9, IrcSideGiven
<1>. HIDE DEF side, R, a1, a2, a3, a4, a5, a6, a7, a8, a9, a10, a11
<1>11. \A role \in Q : \E a \in more : a.at = R(role)
    BY <1>2
<1>12. RolesFilled(more, "skyhook", i, Q)
    <2>1. Apart(more)
        BY <1>2, <1>4 DEF Apart
    <2>2. \A a \in more : \E role \in Q : a.at = R(role)
        BY <1>2
    <2>. QED
        BY <1>11, <2>1, <2>2 DEF RolesFilled, R
<1>13. \A a \in more : ClientGiven(a, "skyhook", i, p)
    <2>. DEFINE G == Given("skyhook", i)
    <2>1. /\ {S3Srv, Shared("corpSkyDnsAddr"), Shared("servDnsAddr")} \subseteq G
          /\ \A role \in SideRoles \cup Q : R(role) \in G
        BY <1>8, GivenShared
    <2>. HIDE DEF G
    <2>2. /\ a1.refs \subseteq G /\ a2.refs \subseteq G /\ a3.refs \subseteq G /\ a4.refs \subseteq G
          /\ a5.refs \subseteq G /\ a6.refs \subseteq G /\ a7.refs \subseteq G /\ a8.refs \subseteq G
          /\ a9.refs \subseteq G /\ a10.refs \subseteq G /\ a11.refs \subseteq G
        BY <1>6, <2>1 DEF SideRoles
    <2>3. \A a \in more : a.refs \subseteq G
        BY <2>2
    <2>4. \A a \in more : a.model = NoModel \/ a.model \in {<<"skyhook", "client">>, <<"skyhook", "server">>}
        BY <1>7
    <2>. QED
        BY <2>3, <2>4 DEF ClientGiven, G
<1>. HIDE DEF more, Q
<1>14. RolesFilled(side \cup more, "skyhook", i, SideRoles \cup Q)
    BY <1>3, <1>5, <1>12, RolesUnion
<1>. QED
    BY <1>1, <1>5, <1>10, <1>13, <1>14

\* The actors of a obfs4 client.
LEMMA Obfs4Filled ==
    ASSUME NEW i, NEW p
    PROVE  /\ RolesFilled(Obfs4Client(i, p), "obfs4", i, PlacedRoles("obfs4"))
           /\ \A a \in Obfs4Client(i, p) : ClientGiven(a, "obfs4", i, p)
<1>. DEFINE R(role) == OfClient("obfs4", i, role)
            side == IrcSide("obfs4", i, p, "ClientAddr", "ServerAddr")
            a1 == Actor(R("Cl"), R("ClientAddr"), {R("IfaceAddr"), R("ServerAddr")}, NoModel)
            a2 == Actor(R("Srv"), R("ServerAddr"), {R("SrvIfaceAddr"), R("ClientAddr")}, NoModel)
            a3 == NetClient(R("NetCl"), R("NetClientAddr"), R("ServerAddr"), R("ClientAddr"), {Shared("corpObfsDnsAddr")})
            a4 == Actor(R("NetSrv"), R("NetServerAddr"), {R("ServerAddr")}, NoModel)
            Q == {"ClientAddr", "ServerAddr", "NetClientAddr", "NetServerAddr"}
            more == {a1, a2, a3, a4}
<1>1. Obfs4Client(i, p) = side \cup more
    BY DEF Obfs4Client
<1>2. /\ a1.at = R("ClientAddr") /\ a2.at = R("ServerAddr") /\ a3.at = R("NetClientAddr") /\ a4.at = R("NetServerAddr")
    BY ActorFields, NetClientFields
<1>3. RolesFilled(side, "obfs4", i, SideRoles)
    BY IrcSideFilled
<1>4. \A role, other : R(role) = R(other) => role = other
    BY OneRole
<1>5. SideRoles \cap Q = {} /\ SideRoles \cup Q = PlacedRoles("obfs4")
    BY DEF SideRoles, PlacedRoles, ChannelRoles
<1>6. /\ a1.refs = {R("IfaceAddr"), R("ServerAddr")}
      /\ a2.refs = {R("SrvIfaceAddr"), R("ClientAddr")}
      /\ a3.refs = {R("ServerAddr"), R("ClientAddr")} \cup {Shared("corpObfsDnsAddr")}
      /\ a4.refs = {R("ServerAddr")}
    BY ActorFields, NetClientFields
<1>7. /\ a1.model = NoModel /\ a2.model = NoModel /\ a3.model = NoModel /\ a4.model = NoModel
    BY ActorFields, NetClientFields
<1>8. \A role \in SideRoles \cup Q : R(role) \in Given("obfs4", i)
    BY <1>5 DEF Given
<1>9. {"ClientAddr", "ServerAddr"} \subseteq PlacedRoles("obfs4")
    BY <1>5
<1>10. \A a \in side : ClientGiven(a, "obfs4", i, p)
    BY <1>5, <1>9, IrcSideGiven
<1>. HIDE DEF side, R, a1, a2, a3, a4
<1>11. \A role \in Q : \E a \in more : a.at = R(role)
    BY <1>2
<1>12. RolesFilled(more, "obfs4", i, Q)
    <2>1. Apart(more)
        BY <1>2, <1>4 DEF Apart
    <2>2. \A a \in more : \E role \in Q : a.at = R(role)
        BY <1>2
    <2>. QED
        BY <1>11, <2>1, <2>2 DEF RolesFilled, R
<1>13. \A a \in more : ClientGiven(a, "obfs4", i, p)
    <2>. DEFINE G == Given("obfs4", i)
    <2>1. /\ {Shared("corpObfsDnsAddr")} \subseteq G
          /\ \A role \in SideRoles \cup Q : R(role) \in G
        BY <1>8, GivenShared
    <2>. HIDE DEF G
    <2>2. /\ a1.refs \subseteq G /\ a2.refs \subseteq G /\ a3.refs \subseteq G /\ a4.refs \subseteq G
        BY <1>6, <2>1 DEF SideRoles
    <2>3. \A a \in more : a.refs \subseteq G
        BY <2>2
    <2>4. \A a \in more : a.model = NoModel
        BY <1>7
    <2>. QED
        BY <2>3, <2>4 DEF ClientGiven, G
<1>. HIDE DEF more, Q
<1>14. RolesFilled(side \cup more, "obfs4", i, SideRoles \cup Q)
    BY <1>3, <1>5, <1>12, RolesUnion
<1>. QED
    BY <1>1, <1>5, <1>10, <1>13, <1>14

\* The actors of a Iodine client.
LEMMA IodineFilled ==
    ASSUME NEW i, NEW p
    PROVE  /\ RolesFilled(IodineClient(i, p), "iodine", i, PlacedRoles("iodine"))
           /\ \A a \in IodineClient(i, p) : ClientGiven(a, "iodine", i, p)
<1>. DEFINE R(role) == OfClient("iodine", i, role)
            side == IrcSide("iodine", i, p, "SendAppAddr", "RcvAppAddr")
            a1 == Actor(R("SendApp"), R("SendAppAddr"), {R("RcvAppAddr"), R("IfaceAddr"), R("ClientAddr")}, NoModel)
            a2 == Actor(R("RcvApp"), R("RcvAppAddr"), {R("SendAppAddr"), R("SrvIfaceAddr"), R("ServerAddr")}, NoModel)
            a3 == Actor(R("Cl"), R("ClientAddr"), {Shared("corpIodDnsAddr")}, NoModel)
            a4 == Actor(R("Srv"), R("ServerAddr"), {}, NoModel)
            a5 == Actor(R("SrvNetSrv"), R("SrvNetSrvAddr"), {R("ServerAddr")}, NoModel)
            a6 == Actor(R("SrvNetCl"), R("SrvNetClAddr"), {R("SrvNetSrvAddr"), R("ServerAddr"), Shared("publicDnsAddr")}, NoModel)
            Q == {"SendAppAddr", "RcvAppAddr", "ClientAddr", "ServerAddr", "SrvNetSrvAddr", "SrvNetClAddr"}
            more == {a1, a2, a3, a4, a5, a6}
<1>1. IodineClient(i, p) = side \cup more
    BY DEF IodineClient
<1>2. /\ a1.at = R("SendAppAddr") /\ a2.at = R("RcvAppAddr") /\ a3.at = R("ClientAddr") /\ a4.at = R("ServerAddr")
      /\ a5.at = R("SrvNetSrvAddr") /\ a6.at = R("SrvNetClAddr")
    BY ActorFields, NetClientFields
<1>3. RolesFilled(side, "iodine", i, SideRoles)
    BY IrcSideFilled
<1>4. \A role, other : R(role) = R(other) => role = other
    BY OneRole
<1>5. SideRoles \cap Q = {} /\ SideRoles \cup Q = PlacedRoles("iodine")
    BY DEF SideRoles, PlacedRoles, ChannelRoles
<1>6. /\ a1.refs = {R("RcvAppAddr"), R("IfaceAddr"), R("ClientAddr")}
      /\ a2.refs = {R("SendAppAddr"), R("SrvIfaceAddr"), R("ServerAddr")}
      /\ a3.refs = {Shared("corpIodDnsAddr")}
      /\ a4.refs = {}
      /\ a5.refs = {R("ServerAddr")}
      /\ a6.refs = {R("SrvNetSrvAddr"), R("ServerAddr"), Shared("publicDnsAddr")}
    BY ActorFields, NetClientFields
<1>7. /\ a1.model = NoModel /\ a2.model = NoModel /\ a3.model = NoModel /\ a4.model = NoModel
      /\ a5.model = NoModel /\ a6.model = NoModel
    BY ActorFields, NetClientFields
<1>8. \A role \in SideRoles \cup Q : R(role) \in Given("iodine", i)
    BY <1>5 DEF Given
<1>9. {"SendAppAddr", "RcvAppAddr"} \subseteq PlacedRoles("iodine")
    BY <1>5
<1>10. \A a \in side : ClientGiven(a, "iodine", i, p)
    BY <1>5, <1>9, IrcSideGiven
<1>. HIDE DEF side, R, a1, a2, a3, a4, a5, a6
<1>11. \A role \in Q : \E a \in more : a.at = R(role)
    BY <1>2
<1>12. RolesFilled(more, "iodine", i, Q)
    <2>1. Apart(more)
        BY <1>2, <1>4 DEF Apart
    <2>2. \A a \in more : \E role \in Q : a.at = R(role)
        BY <1>2
    <2>. QED
        BY <1>11, <2>1, <2>2 DEF RolesFilled, R
<1>13. \A a \in more : ClientGiven(a, "iodine", i, p)
    <2>. DEFINE G == Given("iodine", i)
    <2>1. /\ {Shared("corpIodDnsAddr"), Shared("publicDnsAddr")} \subseteq G
          /\ \A role \in SideRoles \cup Q : R(role) \in G
        BY <1>8, GivenShared
    <2>. HIDE DEF G
    <2>2. /\ a1.refs \subseteq G /\ a2.refs \subseteq G /\ a3.refs \subseteq G /\ a4.refs \subseteq G
          /\ a5.refs \subseteq G /\ a6.refs \subseteq G
        BY <1>6, <2>1 DEF SideRoles
    <2>3. \A a \in more : a.refs \subseteq G
        BY <2>2
    <2>4. \A a \in more : a.model = NoModel
        BY <1>7
    <2>. QED
        BY <2>3, <2>4 DEF ClientGiven, G
<1>. HIDE DEF more, Q
<1>14. RolesFilled(side \cup more, "iodine", i, SideRoles \cup Q)
    BY <1>3, <1>5, <1>12, RolesUnion
<1>. QED
    BY <1>1, <1>5, <1>10, <1>13, <1>14

\* The actors of a Mastodon client.
LEMMA MastodonFilled ==
    ASSUME NEW i, NEW p
    PROVE  /\ RolesFilled(MastodonClient(i, p), "mastodon", i, PlacedRoles("mastodon"))
           /\ \A a \in MastodonClient(i, p) : ClientGiven(a, "mastodon", i, p)
<1>. DEFINE R(role) == OfClient("mastodon", i, role)
            side == IrcSide("mastodon", i, p, "CmacAddr", "CmasAddr")
            a1 == Actor(R("UmacAct"), R("UmacAddr"), {R("CmacAddr")}, <<"mastodon", "client">>)
            a2 == Actor(R("CmacAct"), R("CmacAddr"), {R("EdacAddr"), R("McacAddr"), R("IfaceAddr")}, NoModel)
            a3 == Actor(R("McacAct"), R("McacAddr"), {Mastodon, R("CmacAddr")}, NoModel)
            a4 == Actor(R("EdacAct"), R("EdacAddr"), {}, NoModel)
            a5 == Actor(R("UmasAct"), R("UmasAddr"), {R("CmasAddr")}, <<"mastodon", "server">>)
            a6 == Actor(R("CmasAct"), R("CmasAddr"), {R("EdasAddr"), R("McasAddr"), R("SrvIfaceAddr")}, NoModel)
            a7 == Actor(R("McasAct"), R("McasAddr"), {Mastodon, R("CmasAddr")}, NoModel)
            a8 == Actor(R("EdasAct"), R("EdasAddr"), {}, NoModel)
            a9 == NetClient(R("ClNet"), R("ClNetAddr"), Mastodon, R("McacAddr"), {Shared("corpMasDnsAddr")})
            a10 == NetClient(R("SrvNetCl"), R("SrvNetClAddr"), Mastodon, R("McasAddr"), {Shared("servDnsAddr")})
            Q == {"UmacAddr", "CmacAddr", "McacAddr", "EdacAddr", "UmasAddr", "CmasAddr", "McasAddr", "EdasAddr",
                  "ClNetAddr", "SrvNetClAddr"}
            more == {a1, a2, a3, a4, a5, a6, a7, a8, a9, a10}
<1>1. MastodonClient(i, p) = side \cup more
    BY DEF MastodonClient
<1>2. /\ a1.at = R("UmacAddr") /\ a2.at = R("CmacAddr") /\ a3.at = R("McacAddr") /\ a4.at = R("EdacAddr")
      /\ a5.at = R("UmasAddr") /\ a6.at = R("CmasAddr") /\ a7.at = R("McasAddr") /\ a8.at = R("EdasAddr")
      /\ a9.at = R("ClNetAddr") /\ a10.at = R("SrvNetClAddr")
    BY ActorFields, NetClientFields
<1>3. RolesFilled(side, "mastodon", i, SideRoles)
    BY IrcSideFilled
<1>4. \A role, other : R(role) = R(other) => role = other
    BY OneRole
<1>5. SideRoles \cap Q = {} /\ SideRoles \cup Q = PlacedRoles("mastodon")
    BY DEF SideRoles, PlacedRoles, ChannelRoles
<1>6. /\ a1.refs = {R("CmacAddr")}
      /\ a2.refs = {R("EdacAddr"), R("McacAddr"), R("IfaceAddr")}
      /\ a3.refs = {Mastodon, R("CmacAddr")}
      /\ a4.refs = {}
      /\ a5.refs = {R("CmasAddr")}
      /\ a6.refs = {R("EdasAddr"), R("McasAddr"), R("SrvIfaceAddr")}
      /\ a7.refs = {Mastodon, R("CmasAddr")}
      /\ a8.refs = {}
      /\ a9.refs = {Mastodon, R("McacAddr")} \cup {Shared("corpMasDnsAddr")}
      /\ a10.refs = {Mastodon, R("McasAddr")} \cup {Shared("servDnsAddr")}
    BY ActorFields, NetClientFields
<1>7. /\ a1.model = <<"mastodon", "client">> /\ a2.model = NoModel /\ a3.model = NoModel /\ a4.model = NoModel
      /\ a5.model = <<"mastodon", "server">> /\ a6.model = NoModel /\ a7.model = NoModel /\ a8.model = NoModel
      /\ a9.model = NoModel /\ a10.model = NoModel
    BY ActorFields, NetClientFields
<1>8. \A role \in SideRoles \cup Q : R(role) \in Given("mastodon", i)
    BY <1>5 DEF Given
<1>9. {"CmacAddr", "CmasAddr"} \subseteq PlacedRoles("mastodon")
    BY <1>5
<1>10. \A a \in side : ClientGiven(a, "mastodon", i, p)
    BY <1>5, <1>9, IrcSideGiven
<1>. HIDE DEF side, R, a1, a2, a3, a4, a5, a6, a7, a8, a9, a10
<1>11. \A role \in Q : \E a \in more : a.at = R(role)
    BY <1>2
<1>12. RolesFilled(more, "mastodon", i, Q)
    <2>1. Apart(more)
        BY <1>2, <1>4 DEF Apart
    <2>2. \A a \in more : \E role \in Q : a.at = R(role)
        BY <1>2
    <2>. QED
        BY <1>11, <2>1, <2>2 DEF RolesFilled, R
<1>13. \A a \in more : ClientGiven(a, "mastodon", i, p)
    <2>. DEFINE G == Given("mastodon", i)
    <2>1. /\ {Mastodon, Shared("corpMasDnsAddr"), Shared("servDnsAddr")} \subseteq G
          /\ \A role \in SideRoles \cup Q : R(role) \in G
        BY <1>8, GivenShared
    <2>. HIDE DEF G
    <2>2. /\ a1.refs \subseteq G /\ a2.refs \subseteq G /\ a3.refs \subseteq G /\ a4.refs \subseteq G
          /\ a5.refs \subseteq G /\ a6.refs \subseteq G /\ a7.refs \subseteq G /\ a8.refs \subseteq G
          /\ a9.refs \subseteq G /\ a10.refs \subseteq G
        BY <1>6, <2>1 DEF SideRoles
    <2>3. \A a \in more : a.refs \subseteq G
        BY <2>2
    <2>4. \A a \in more : a.model = NoModel \/ a.model \in {<<"mastodon", "client">>, <<"mastodon", "server">>}
        BY <1>7
    <2>. QED
        BY <2>3, <2>4 DEF ClientGiven, G
<1>. HIDE DEF more, Q
<1>14. RolesFilled(side \cup more, "mastodon", i, SideRoles \cup Q)
    BY <1>3, <1>5, <1>12, RolesUnion
<1>. QED
    BY <1>1, <1>5, <1>10, <1>13, <1>14

\* Whatever its channel.
LEMMA ClientFilled ==
    ASSUME NEW ch \in Channels, NEW i, NEW p
    PROVE  /\ RolesFilled(ClientActors(ch, i, p), ch, i, PlacedRoles(ch))
           /\ \A a \in ClientActors(ch, i, p) : ClientGiven(a, ch, i, p)
<1>1. CASE ch = "webtunnel"
    <2>1. ClientActors(ch, i, p) = WebtunnelClient(i, p)
        BY <1>1 DEF ClientActors
    <2>. QED
        BY <1>1, <2>1, WebtunnelFilled
<1>2. CASE ch = "skyhook"
    <2>1. ClientActors(ch, i, p) = SkyhookClient(i, p)
        BY <1>2 DEF ClientActors
    <2>. QED
        BY <1>2, <2>1, SkyhookFilled
<1>3. CASE ch = "obfs4"
    <2>1. ClientActors(ch, i, p) = Obfs4Client(i, p)
        BY <1>3 DEF ClientActors
    <2>. QED
        BY <1>3, <2>1, Obfs4Filled
<1>4. CASE ch = "iodine"
    <2>1. ClientActors(ch, i, p) = IodineClient(i, p)
        BY <1>4 DEF ClientActors
    <2>. QED
        BY <1>4, <2>1, IodineFilled
<1>5. CASE ch = "mastodon"
    <2>1. ClientActors(ch, i, p) = MastodonClient(i, p)
        BY <1>5 DEF ClientActors
    <2>. QED
        BY <1>5, <2>1, MastodonFilled
<1>. QED
    BY <1>1, <1>2, <1>3, <1>4, <1>5 DEF Channels

\* The shared actors, and their roles.
ResolverRoles == {r.dns : r \in Resolvers} \cup {r.cl : r \in Resolvers}
BaseRoles == {"ircServerAddr", "s3SrvAddr", "masSrvAddr", "masNetSrvAddr", "advAddr"}
ZoneRoles == {"publicDnsAddr", "rootDnsAddr", "tldDnsAddr", "authDnsAddr"}
TgenServerRoles == {"ftpSrvAddr", "ftpNetSrvAddr", "gorillaSrvAddr", "gorillaNetSrvAddr", "ircTgenSrvNetAddr"}

\* A shared address is that of a role.
LEMMA SharedIs ==
    \A role : Shared(role) = OfClient("shared", 0, role)
BY DEF Shared, OfClient

\* The servers.
LEMMA BaseFilled ==
    /\ RolesFilled(BaseActors, "shared", 0, BaseRoles)
    /\ \A a \in BaseActors : a.refs \subseteq {Mastodon} /\ a.model = NoModel
<1>. DEFINE R(role) == Shared(role)
            a1 == Actor(Shared("ircServer"), Irc, {}, NoModel)
            a2 == Actor(Shared("s3SrvAct"), S3Srv, {}, NoModel)
            a3 == Actor(Shared("masSrvAct"), Mastodon, {}, NoModel)
            a4 == Actor(Shared("masNetSrv"), Shared("masNetSrvAddr"), {Mastodon}, NoModel)
            a5 == Actor(Shared("advActor"), Shared("advAddr"), {}, NoModel)
<1>1. BaseActors = {a1, a2, a3, a4, a5}
    BY DEF BaseActors
<1>2. a1.at = R("ircServerAddr") /\ a2.at = R("s3SrvAddr") /\ a3.at = R("masSrvAddr") /\ a4.at = R("masNetSrvAddr")
      /\ a5.at = R("advAddr")
    BY ActorFields DEF Irc, S3Srv, Mastodon
<1>3. \A role, other : R(role) = R(other) => role = other
    BY SharedNames
<1>4. /\ a1.refs = {} /\ a2.refs = {} /\ a3.refs = {} /\ a4.refs = {Mastodon} /\ a5.refs = {}
      /\ a1.model = NoModel /\ a2.model = NoModel /\ a3.model = NoModel /\ a4.model = NoModel /\ a5.model = NoModel
    BY ActorFields
<1>5. \A role : R(role) = OfClient("shared", 0, role)
    BY SharedIs
<1>. HIDE DEF R, a1, a2, a3, a4, a5
<1>6. Apart({a1, a2, a3, a4, a5})
    BY <1>2, <1>3 DEF Apart
<1>7. RolesFilled({a1, a2, a3, a4, a5}, "shared", 0, BaseRoles)
    BY <1>2, <1>5, <1>6 DEF RolesFilled, BaseRoles
<1>8. \A a \in {a1, a2, a3, a4, a5} : a.refs \subseteq {Mastodon} /\ a.model = NoModel
    BY <1>4
<1>. QED
    BY <1>1, <1>7, <1>8

\* The script's monitor beside them.
LEMMA ScriptBaseFilled ==
    /\ RolesFilled(ScriptBase, "shared", 0, BaseRoles \cup {"iodineMonitorAddr"})
    /\ \A a \in ScriptBase : a.refs \subseteq {Mastodon} /\ a.model = NoModel
<1>. DEFINE m == Actor(Shared("iodineMonitor"), Shared("iodineMonitorAddr"), {}, NoModel)
<1>1. ScriptBase = BaseActors \cup {m}
    BY DEF ScriptBase
<1>2. m.at = OfClient("shared", 0, "iodineMonitorAddr") /\ m.refs = {} /\ m.model = NoModel
    BY ActorFields, SharedIs
<1>. HIDE DEF m
<1>3. RolesFilled({m}, "shared", 0, {"iodineMonitorAddr"})
    BY <1>2 DEF RolesFilled, Apart
<1>4. BaseRoles \cap {"iodineMonitorAddr"} = {}
    BY DEF BaseRoles
<1>5. RolesFilled(BaseActors \cup {m}, "shared", 0, BaseRoles \cup {"iodineMonitorAddr"})
    BY <1>3, <1>4, BaseFilled, RolesUnion
<1>. QED
    BY <1>1, <1>2, <1>5, BaseFilled

\* One shared actor for each member of a set.
LEMMA EachFilled ==
    ASSUME NEW T, NEW f, NEW g, \A x \in T : f[x].at = OfClient("shared", 0, g[x]), \A x, y \in T : g[x] = g[y] => x = y,
           NEW A, \A a \in A : \E x \in T : a = f[x], \A x \in T : f[x] \in A,
           NEW R, \A role \in R : \E x \in T : role = g[x], \A x \in T : g[x] \in R
    PROVE  RolesFilled(A, "shared", 0, R)
<1>1. \A x, y \in T : f[x].at = f[y].at => f[x] = f[y]
    BY OneRole
<1>2. Apart(A)
    BY <1>1 DEF Apart
<1>. QED
    BY <1>2 DEF RolesFilled

\* What the resolvers, zones and servers are given.
SharedGiven(s) ==
    {Irc, Mastodon, PublicDns, PublicNetSrv, Shared("ftpSrvAddr"), Shared("gorillaSrvAddr")}
      \cup {Shared(role) : role \in ResolverRoles} \cup {OfTgen(t, "TgAddr") : t \in TgensOf(s, {"gorTgen"})}

\* The resolvers, their network clients, and the zones.
LEMMA DnsFilled ==
    ASSUME NEW s
    PROVE  /\ RolesFilled(DnsActors, "shared", 0, ResolverRoles \cup ZoneRoles \cup {"publicResolverNetSrvAddr"})
           /\ \A a \in DnsActors : a.refs \subseteq SharedGiven(s) /\ a.model = NoModel
<1>. DEFINE Dns(r) == Actor(Shared(r.dns), Shared(r.dns), {Shared(r.cl)}, NoModel)
            Cl(r) == Actor(Shared(r.cl), Shared(r.cl), {Shared("publicResolverNetSrvAddr"),
                           Shared("publicDnsAddr"), Shared(r.dns)}, NoModel)
            Zone(z) == Actor(Shared(z), Shared(z), {}, NoModel)
            srv == Actor(Shared("publicResolverNetSrvAddr"), Shared("publicResolverNetSrvAddr"), {Shared("publicDnsAddr")}, NoModel)
            D1 == {Dns(r) : r \in Resolvers}
            D2 == {Cl(r) : r \in Resolvers}
            D3 == {Zone(z) : z \in ZoneRoles}
            R(role) == OfClient("shared", 0, role)
<1>1. DnsActors = D1 \cup D2 \cup D3 \cup {srv}
    BY DEF DnsActors, ZoneRoles
<1>2. /\ \A r : Dns(r).at = R(r.dns) /\ Dns(r).refs = {Shared(r.cl)} /\ Dns(r).model = NoModel
      /\ \A r : Cl(r).at = R(r.cl) /\ Cl(r).model = NoModel
                /\ Cl(r).refs = {Shared("publicResolverNetSrvAddr"), Shared("publicDnsAddr"), Shared(r.dns)}
      /\ \A z : Zone(z).at = R(z) /\ Zone(z).refs = {} /\ Zone(z).model = NoModel
      /\ srv.at = R("publicResolverNetSrvAddr") /\ srv.refs = {Shared("publicDnsAddr")} /\ srv.model = NoModel
    BY ActorFields, SharedIs
<1>3. \A role, other : R(role) = R(other) => role = other
    BY OneRole
<1>4. \A r, q \in Resolvers : (r.dns = q.dns => r = q) /\ (r.cl = q.cl => r = q) /\ r.dns # q.cl
    BY DEF Resolvers
<1>5. /\ {r.dns : r \in Resolvers} \cap {r.cl : r \in Resolvers} = {} /\ ResolverRoles \cap ZoneRoles = {}
      /\ (ResolverRoles \cup ZoneRoles) \cap {"publicResolverNetSrvAddr"} = {}
    BY DEF Resolvers, ResolverRoles, ZoneRoles
<1>. HIDE DEF Dns, Cl, Zone, srv
<1>6. RolesFilled(D1, "shared", 0, {r.dns : r \in Resolvers})
    <2>. DEFINE f == [r \in Resolvers |-> Dns(r)]
                g == [r \in Resolvers |-> r.dns]
    <2>1. /\ \A a \in D1 : \E x \in Resolvers : a = f[x]
          /\ \A x \in Resolvers : f[x] \in D1
          /\ \A role \in {r.dns : r \in Resolvers} : \E x \in Resolvers : role = g[x]
          /\ \A x \in Resolvers : g[x] \in {r.dns : r \in Resolvers}
        OBVIOUS
    <2>2. \A r \in Resolvers : f[r].at = OfClient("shared", 0, g[r])
        BY <1>2
    <2>3. \A x, y \in Resolvers : g[x] = g[y] => x = y
        BY <1>4
    <2>. HIDE DEF f, g, D1
    <2>. QED
        BY <2>1, <2>2, <2>3, EachFilled
<1>7. RolesFilled(D2, "shared", 0, {r.cl : r \in Resolvers})
    <2>. DEFINE f == [r \in Resolvers |-> Cl(r)]
                g == [r \in Resolvers |-> r.cl]
    <2>1. /\ \A a \in D2 : \E x \in Resolvers : a = f[x]
          /\ \A x \in Resolvers : f[x] \in D2
          /\ \A role \in {r.cl : r \in Resolvers} : \E x \in Resolvers : role = g[x]
          /\ \A x \in Resolvers : g[x] \in {r.cl : r \in Resolvers}
        OBVIOUS
    <2>2. \A r \in Resolvers : f[r].at = OfClient("shared", 0, g[r])
        BY <1>2
    <2>3. \A x, y \in Resolvers : g[x] = g[y] => x = y
        BY <1>4
    <2>. HIDE DEF f, g, D2
    <2>. QED
        BY <2>1, <2>2, <2>3, EachFilled
<1>8. RolesFilled(D3, "shared", 0, ZoneRoles)
    <2>. DEFINE f == [z \in ZoneRoles |-> Zone(z)]
                g == [z \in ZoneRoles |-> z]
    <2>1. /\ \A a \in D3 : \E x \in ZoneRoles : a = f[x]
          /\ \A x \in ZoneRoles : f[x] \in D3
          /\ \A role \in ZoneRoles : \E x \in ZoneRoles : role = g[x]
          /\ \A x \in ZoneRoles : g[x] \in ZoneRoles
        OBVIOUS
    <2>2. \A z \in ZoneRoles : f[z].at = OfClient("shared", 0, g[z])
        BY <1>2
    <2>3. \A x, y \in ZoneRoles : g[x] = g[y] => x = y
        BY <1>4
    <2>. HIDE DEF f, g, D3
    <2>. QED
        BY <2>1, <2>2, <2>3, EachFilled
<1>9. RolesFilled({srv}, "shared", 0, {"publicResolverNetSrvAddr"})
    BY <1>2 DEF RolesFilled, Apart
<1>10. \A r \in Resolvers : {Shared(r.cl), Shared(r.dns)} \subseteq SharedGiven(s)
    BY DEF SharedGiven, ResolverRoles
<1>11. {Shared("publicResolverNetSrvAddr"), Shared("publicDnsAddr")} \subseteq SharedGiven(s)
    BY DEF SharedGiven, PublicDns, PublicNetSrv
<1>12. \A a \in D1 \cup D2 \cup D3 \cup {srv} : a.refs \subseteq SharedGiven(s) /\ a.model = NoModel
    <2>1. /\ \A r \in Resolvers : Dns(r).refs \subseteq SharedGiven(s) /\ Cl(r).refs \subseteq SharedGiven(s)
          /\ \A z \in ZoneRoles : Zone(z).refs \subseteq SharedGiven(s)
          /\ srv.refs \subseteq SharedGiven(s)
        BY <1>2, <1>10, <1>11
    <2>. QED
        BY <1>2, <2>1
<1>. HIDE DEF D1, D2, D3
<1>13. RolesFilled(D1 \cup D2, "shared", 0, ResolverRoles)
    BY <1>5, <1>6, <1>7, RolesUnion DEF ResolverRoles
<1>14. RolesFilled(D1 \cup D2 \cup D3, "shared", 0, ResolverRoles \cup ZoneRoles)
    BY <1>5, <1>8, <1>13, RolesUnion
<1>15. RolesFilled(D1 \cup D2 \cup D3 \cup {srv}, "shared", 0, ResolverRoles \cup ZoneRoles \cup {"publicResolverNetSrvAddr"})
    BY <1>5, <1>9, <1>14, RolesUnion
<1>. QED
    BY <1>1, <1>12, <1>15

\* The servers of the generators.
LEMMA TgenServersFilled ==
    ASSUME NEW s
    PROVE  /\ RolesFilled(TgenServerActors(s), "shared", 0, TgenServerRoles)
           /\ \A a \in TgenServerActors(s) : a.refs \subseteq SharedGiven(s) /\ a.model = NoModel
<1>. DEFINE R(role) == Shared(role)
            own == {OfTgen(t, "TgAddr") : t \in TgensOf(s, {"gorTgen"})}
            a1 == Actor(Shared("ftpSrvAct"), Shared("ftpSrvAddr"), {}, NoModel)
            a2 == Actor(Shared("ftpNetSrvAct"), Shared("ftpNetSrvAddr"), {Shared("ftpSrvAddr")}, NoModel)
            a3 == Actor(Shared("gorillaSrvAct"), Shared("gorillaSrvAddr"), own, NoModel)
            a4 == Actor(Shared("gorillaNetSrvAct"), Shared("gorillaNetSrvAddr"), {Shared("gorillaSrvAddr")}, NoModel)
            a5 == Actor(Shared("ircTgenSrvNet"), Shared("ircTgenSrvNetAddr"), {Irc}, NoModel)
<1>1. TgenServerActors(s) = {a1, a2, a3, a4, a5}
    BY DEF TgenServerActors
<1>2. a1.at = R("ftpSrvAddr") /\ a2.at = R("ftpNetSrvAddr") /\ a3.at = R("gorillaSrvAddr") /\ a4.at = R("gorillaNetSrvAddr")
      /\ a5.at = R("ircTgenSrvNetAddr")
    BY ActorFields
<1>3. \A role, other : R(role) = R(other) => role = other
    BY SharedNames
<1>4. /\ a1.refs = {} /\ a2.refs = {Shared("ftpSrvAddr")} /\ a3.refs = own /\ a4.refs = {Shared("gorillaSrvAddr")} /\ a5.refs = {Irc}
      /\ a1.model = NoModel /\ a2.model = NoModel /\ a3.model = NoModel /\ a4.model = NoModel /\ a5.model = NoModel
    BY ActorFields
<1>5. \A role : R(role) = OfClient("shared", 0, role)
    BY SharedIs
<1>6. {Shared("ftpSrvAddr"), Shared("gorillaSrvAddr"), Irc} \cup own \subseteq SharedGiven(s)
    BY DEF SharedGiven
<1>. HIDE DEF R, a1, a2, a3, a4, a5, own
<1>7. Apart({a1, a2, a3, a4, a5})
    BY <1>2, <1>3 DEF Apart
<1>8. RolesFilled({a1, a2, a3, a4, a5}, "shared", 0, TgenServerRoles)
    BY <1>2, <1>5, <1>7 DEF RolesFilled, TgenServerRoles
<1>9. \A a \in {a1, a2, a3, a4, a5} : a.refs \subseteq SharedGiven(s) /\ a.model = NoModel
    BY <1>4, <1>6
<1>. QED
    BY <1>1, <1>8, <1>9

\* All shared actors of either tool.
SharedActorsOf(s) == ScriptBase \cup DnsActors \cup TgenServerActors(s)
SharedPlacedRoles ==
    BaseRoles \cup {"iodineMonitorAddr"} \cup (ResolverRoles \cup ZoneRoles \cup {"publicResolverNetSrvAddr"}) \cup TgenServerRoles

\* They fill their roles, too.
LEMMA SharedFilled ==
    ASSUME NEW s
    PROVE  /\ RolesFilled(SharedActorsOf(s), "shared", 0, SharedPlacedRoles)
           /\ \A a \in SharedActorsOf(s) : a.refs \subseteq SharedGiven(s) /\ a.model = NoModel
<1>. DEFINE B == BaseRoles \cup {"iodineMonitorAddr"}
            D == ResolverRoles \cup ZoneRoles \cup {"publicResolverNetSrvAddr"}
<1>1. B \cap D = {} /\ (B \cup D) \cap TgenServerRoles = {}
    BY DEF BaseRoles, ResolverRoles, Resolvers, ZoneRoles, TgenServerRoles
<1>2. SharedPlacedRoles = B \cup D \cup TgenServerRoles
    BY DEF SharedPlacedRoles
<1>3. RolesFilled(ScriptBase, "shared", 0, B) /\ RolesFilled(DnsActors, "shared", 0, D)
    BY ScriptBaseFilled, DnsFilled
<1>. HIDE DEF B, D
<1>4. RolesFilled(ScriptBase \cup DnsActors, "shared", 0, B \cup D)
    BY <1>1, <1>3, RolesUnion
<1>5. RolesFilled(ScriptBase \cup DnsActors \cup TgenServerActors(s), "shared", 0, B \cup D \cup TgenServerRoles)
    BY <1>1, <1>4, TgenServersFilled, RolesUnion
<1>6. Mastodon \in SharedGiven(s)
    BY DEF SharedGiven
<1>7. \A a \in SharedActorsOf(s) : a.refs \subseteq SharedGiven(s) /\ a.model = NoModel
    BY <1>6, ScriptBaseFilled, DnsFilled, TgenServersFilled DEF SharedActorsOf
<1>. QED
    BY <1>2, <1>5, <1>7 DEF SharedActorsOf

\* The addresses that the actors of a generator are given.
TgenGiven(t) ==
    {OfTgen(t, role) : role \in TgenRoles[t.type]}
      \cup {Irc, S3Srv, Mastodon, PublicDns, Shared("ftpSrvAddr"), Shared("gorillaSrvAddr")} \cup TgenDns(t)

\* The actors of a generator, each with another role as its address.
TgenFits(actors, t) ==
    /\ \A a \in actors : \E role \in TgenRoles[t.type] : a.at = OfTgen(t, role)
    /\ Apart(actors)
    /\ \A a \in actors : a.refs \subseteq TgenGiven(t) /\ a.model \in {NoModel, TgenModel(t)}

\* The fields of each of them.
LEMMA TgenParts ==
    ASSUME NEW t
    PROVE  /\ \A refs : /\ TgenUm(t, refs).at = OfTgen(t, "UmAddr") /\ TgenUm(t, refs).refs = {OfTgen(t, "TgAddr")} \cup refs
                        /\ TgenUm(t, refs).model = TgenModel(t)
           /\ \A refs, model : /\ TgenTg(t, refs, model).at = OfTgen(t, "TgAddr") /\ TgenTg(t, refs, model).refs = refs
                               /\ TgenTg(t, refs, model).model = model
           /\ \A server, client, resolver :
                 /\ TgenNet(t, server, client, resolver).at = OfTgen(t, "NetClAddr")
                 /\ TgenNet(t, server, client, resolver).refs = {server, OfTgen(t, client)} \cup resolver
                 /\ TgenNet(t, server, client, resolver).model = NoModel
BY ActorFields, NetClientFields DEF TgenUm, TgenTg, TgenNet

\* An address of a generator has one role.
LEMMA OneTgenRole ==
    ASSUME NEW t, NEW role, NEW other, OfTgen(t, role) = OfTgen(t, other)
    PROVE  role = other
BY AddressFields

\* The actors of a generator of each type.
LEMMA TgenFilled ==
    ASSUME NEW t, t.type \in TgenTypes
    PROVE  TgenFits(TgenActors(t), t)
<1>. DEFINE R(role) == OfTgen(t, role)
            G == TgenGiven(t)
<1>1. \A role, other : R(role) = R(other) => role = other
    BY OneTgenRole
<1>2. /\ \A role \in TgenRoles[t.type] : R(role) \in G
      /\ {Irc, S3Srv, Mastodon, Shared("publicDnsAddr"), Shared("ftpSrvAddr"), Shared("gorillaSrvAddr")} \subseteq G
      /\ TgenDns(t) \subseteq G
    BY DEF TgenGiven, PublicDns
<1>3. ASSUME NEW A, \A a \in A : \E role \in TgenRoles[t.type] : a.at = R(role), Apart(A),
             \A a \in A : a.refs \subseteq G /\ a.model \in {NoModel, TgenModel(t)}, A = TgenActors(t)
      PROVE  TgenFits(TgenActors(t), t)
    BY <1>3 DEF TgenFits
<1>4. CASE t.type = "ftpTgen"
    <2>. DEFINE a1 == TgenTg(t, {Shared("ftpSrvAddr")}, TgenModel(t))
                a2 == TgenUm(t, {})
                a3 == TgenNet(t, Shared("ftpSrvAddr"), "TgAddr", TgenDns(t))
    <2>1. TgenActors(t) = {a1, a2, a3}
        BY <1>4, TgenSets
    <2>2. a1.at = R("TgAddr") /\ a2.at = R("UmAddr") /\ a3.at = R("NetClAddr")
        BY TgenParts, ActorFields
    <2>3. /\ a1.refs = {Shared("ftpSrvAddr")}
          /\ a2.refs = {OfTgen(t, "TgAddr")} \cup {}
          /\ a3.refs = {Shared("ftpSrvAddr"), OfTgen(t, "TgAddr")} \cup TgenDns(t)
          /\ a1.model = TgenModel(t) /\ a2.model = TgenModel(t) /\ a3.model = NoModel
        BY TgenParts, ActorFields
    <2>4. {"TgAddr", "UmAddr", "NetClAddr"} = TgenRoles[t.type]
        BY <1>4 DEF TgenRoles
    <2>5. R("TgAddr") \in G /\ R("UmAddr") \in G /\ R("NetClAddr") \in G
        BY <1>2, <2>4
    <2>. HIDE DEF R, G, a1, a2, a3
    <2>6. Apart({a1, a2, a3})
        BY <1>1, <2>2 DEF Apart
    <2>7. \A a \in {a1, a2, a3} : \E role \in TgenRoles[t.type] : a.at = R(role)
        BY <2>2, <2>4
    <2>8. a1.refs \subseteq G /\ a2.refs \subseteq G /\ a3.refs \subseteq G
        BY <1>2, <2>3, <2>5 DEF R
    <2>9. \A a \in {a1, a2, a3} : a.refs \subseteq G /\ a.model \in {NoModel, TgenModel(t)}
        BY <2>3, <2>8
    <2>. QED
        BY <1>3, <2>1, <2>6, <2>7, <2>9
<1>5. CASE t.type = "gorTgen"
    <2>. DEFINE a1 == TgenTg(t, {Shared("gorillaSrvAddr")}, NoModel)
                a2 == TgenUm(t, {})
                a3 == TgenNet(t, Shared("gorillaSrvAddr"), "TgAddr", TgenDns(t))
    <2>1. TgenActors(t) = {a1, a2, a3}
        BY <1>5, TgenSets
    <2>2. a1.at = R("TgAddr") /\ a2.at = R("UmAddr") /\ a3.at = R("NetClAddr")
        BY TgenParts, ActorFields
    <2>3. /\ a1.refs = {Shared("gorillaSrvAddr")}
          /\ a2.refs = {OfTgen(t, "TgAddr")} \cup {}
          /\ a3.refs = {Shared("gorillaSrvAddr"), OfTgen(t, "TgAddr")} \cup TgenDns(t)
          /\ a1.model = NoModel /\ a2.model = TgenModel(t) /\ a3.model = NoModel
        BY TgenParts, ActorFields
    <2>4. {"TgAddr", "UmAddr", "NetClAddr"} = TgenRoles[t.type]
        BY <1>5 DEF TgenRoles
    <2>5. R("TgAddr") \in G /\ R("UmAddr") \in G /\ R("NetClAddr") \in G
        BY <1>2, <2>4
    <2>. HIDE DEF R, G, a1, a2, a3
    <2>6. Apart({a1, a2, a3})
        BY <1>1, <2>2 DEF Apart
    <2>7. \A a \in {a1, a2, a3} : \E role \in TgenRoles[t.type] : a.at = R(role)
        BY <2>2, <2>4
    <2>8. a1.refs \subseteq G /\ a2.refs \subseteq G /\ a3.refs \subseteq G
        BY <1>2, <2>3, <2>5 DEF R
    <2>9. \A a \in {a1, a2, a3} : a.refs \subseteq G /\ a.model \in {NoModel, TgenModel(t)}
        BY <2>3, <2>8
    <2>. QED
        BY <1>3, <2>1, <2>6, <2>7, <2>9
<1>6. CASE t.type = "minTgen"
    <2>. DEFINE a1 == TgenTg(t, {OfTgen(t, "S3ClAddr")}, NoModel)
                a2 == TgenUm(t, {})
                a3 == TgenNet(t, S3Srv, "S3ClAddr", TgenDns(t))
                a4 == Actor(OfTgen(t, "S3ClAct"), OfTgen(t, "S3ClAddr"), {S3Srv}, NoModel)
    <2>1. TgenActors(t) = {a1, a2, a3, a4}
        BY <1>6, TgenSets
    <2>2. a1.at = R("TgAddr") /\ a2.at = R("UmAddr") /\ a3.at = R("NetClAddr") /\ a4.at = R("S3ClAddr")
        BY TgenParts, ActorFields
    <2>3. /\ a1.refs = {OfTgen(t, "S3ClAddr")}
          /\ a2.refs = {OfTgen(t, "TgAddr")} \cup {}
          /\ a3.refs = {S3Srv, OfTgen(t, "S3ClAddr")} \cup TgenDns(t)
          /\ a4.refs = {S3Srv}
          /\ a1.model = NoModel /\ a2.model = TgenModel(t) /\ a3.model = NoModel /\ a4.model = NoModel
        BY TgenParts, ActorFields
    <2>4. {"TgAddr", "UmAddr", "NetClAddr", "S3ClAddr"} = TgenRoles[t.type]
        BY <1>6 DEF TgenRoles
    <2>5. R("TgAddr") \in G /\ R("UmAddr") \in G /\ R("NetClAddr") \in G /\ R("S3ClAddr") \in G
        BY <1>2, <2>4
    <2>. HIDE DEF R, G, a1, a2, a3, a4
    <2>6. Apart({a1, a2, a3, a4})
        BY <1>1, <2>2 DEF Apart
    <2>7. \A a \in {a1, a2, a3, a4} : \E role \in TgenRoles[t.type] : a.at = R(role)
        BY <2>2, <2>4
    <2>8. a1.refs \subseteq G /\ a2.refs \subseteq G /\ a3.refs \subseteq G /\ a4.refs \subseteq G
        BY <1>2, <2>3, <2>5 DEF R
    <2>9. \A a \in {a1, a2, a3, a4} : a.refs \subseteq G /\ a.model \in {NoModel, TgenModel(t)}
        BY <2>3, <2>8
    <2>. QED
        BY <1>3, <2>1, <2>6, <2>7, <2>9
<1>7. CASE t.type = "dnsTgen"
    <2>. DEFINE first == IF TgenDns(t) = {} THEN {Shared("publicDnsAddr")} ELSE TgenDns(t)
                a1 == TgenTg(t, first, NoModel)
                a2 == TgenUm(t, {})
    <2>1. TgenActors(t) = {a1, a2}
        BY <1>7, TgenSets
    <2>. HIDE DEF first
    <2>2. a1.at = R("TgAddr") /\ a2.at = R("UmAddr")
        BY TgenParts, ActorFields
    <2>3. /\ a1.refs = first
          /\ a2.refs = {OfTgen(t, "TgAddr")} \cup {}
          /\ a1.model = NoModel /\ a2.model = TgenModel(t)
        BY TgenParts, ActorFields
    <2>4. {"TgAddr", "UmAddr"} = TgenRoles[t.type]
        BY <1>7 DEF TgenRoles
    <2>5. R("TgAddr") \in G /\ R("UmAddr") \in G
        BY <1>2, <2>4
    <2>. HIDE DEF R, G, a1, a2
    <2>6. Apart({a1, a2})
        BY <1>1, <2>2 DEF Apart
    <2>7. \A a \in {a1, a2} : \E role \in TgenRoles[t.type] : a.at = R(role)
        BY <2>2, <2>4
    <2>8. first \subseteq G
        BY <1>2 DEF first
    <2>9. a1.refs \subseteq G /\ a2.refs \subseteq G
        BY <1>2, <2>3, <2>5, <2>8 DEF R
    <2>10. \A a \in {a1, a2} : a.refs \subseteq G /\ a.model \in {NoModel, TgenModel(t)}
        BY <2>3, <2>9
    <2>. QED
        BY <1>3, <2>1, <2>6, <2>7, <2>10
<1>8. CASE t.type = "masTgen"
    <2>. DEFINE a1 == TgenTg(t, {OfTgen(t, "McAddr")}, TgenModel(t))
                a2 == TgenUm(t, {})
                a3 == TgenNet(t, Mastodon, "McAddr", TgenDns(t))
                a4 == Actor(OfTgen(t, "McAct"), OfTgen(t, "McAddr"), {Mastodon, OfTgen(t, "TgAddr")}, NoModel)
    <2>1. TgenActors(t) = {a1, a2, a3, a4}
        BY <1>8, TgenSets
    <2>2. a1.at = R("TgAddr") /\ a2.at = R("UmAddr") /\ a3.at = R("NetClAddr") /\ a4.at = R("McAddr")
        BY TgenParts, ActorFields
    <2>3. /\ a1.refs = {OfTgen(t, "McAddr")}
          /\ a2.refs = {OfTgen(t, "TgAddr")} \cup {}
          /\ a3.refs = {Mastodon, OfTgen(t, "McAddr")} \cup TgenDns(t)
          /\ a4.refs = {Mastodon, OfTgen(t, "TgAddr")}
          /\ a1.model = TgenModel(t) /\ a2.model = TgenModel(t) /\ a3.model = NoModel /\ a4.model = NoModel
        BY TgenParts, ActorFields
    <2>4. {"TgAddr", "UmAddr", "NetClAddr", "McAddr"} = TgenRoles[t.type]
        BY <1>8 DEF TgenRoles
    <2>5. R("TgAddr") \in G /\ R("UmAddr") \in G /\ R("NetClAddr") \in G /\ R("McAddr") \in G
        BY <1>2, <2>4
    <2>. HIDE DEF R, G, a1, a2, a3, a4
    <2>6. Apart({a1, a2, a3, a4})
        BY <1>1, <2>2 DEF Apart
    <2>7. \A a \in {a1, a2, a3, a4} : \E role \in TgenRoles[t.type] : a.at = R(role)
        BY <2>2, <2>4
    <2>8. a1.refs \subseteq G /\ a2.refs \subseteq G /\ a3.refs \subseteq G /\ a4.refs \subseteq G
        BY <1>2, <2>3, <2>5 DEF R
    <2>9. \A a \in {a1, a2, a3, a4} : a.refs \subseteq G /\ a.model \in {NoModel, TgenModel(t)}
        BY <2>3, <2>8
    <2>. QED
        BY <1>3, <2>1, <2>6, <2>7, <2>9
<1>9. CASE t.type = "ircTgen"
    <2>. DEFINE a1 == TgenTg(t, {Irc}, NoModel)
                a2 == TgenUm(t, {Irc})
                a3 == TgenNet(t, Irc, "TgAddr", {})
    <2>1. TgenActors(t) = {a1, a2, a3}
        BY <1>9, TgenSets
    <2>2. a1.at = R("TgAddr") /\ a2.at = R("UmAddr") /\ a3.at = R("NetClAddr")
        BY TgenParts, ActorFields
    <2>3. /\ a1.refs = {Irc}
          /\ a2.refs = {OfTgen(t, "TgAddr")} \cup {Irc}
          /\ a3.refs = {Irc, OfTgen(t, "TgAddr")} \cup {}
          /\ a1.model = NoModel /\ a2.model = TgenModel(t) /\ a3.model = NoModel
        BY TgenParts, ActorFields
    <2>4. {"TgAddr", "UmAddr", "NetClAddr"} = TgenRoles[t.type]
        BY <1>9 DEF TgenRoles
    <2>5. R("TgAddr") \in G /\ R("UmAddr") \in G /\ R("NetClAddr") \in G
        BY <1>2, <2>4
    <2>. HIDE DEF R, G, a1, a2, a3
    <2>6. Apart({a1, a2, a3})
        BY <1>1, <2>2 DEF Apart
    <2>7. \A a \in {a1, a2, a3} : \E role \in TgenRoles[t.type] : a.at = R(role)
        BY <2>2, <2>4
    <2>8. a1.refs \subseteq G /\ a2.refs \subseteq G /\ a3.refs \subseteq G
        BY <1>2, <2>3, <2>5 DEF R
    <2>9. \A a \in {a1, a2, a3} : a.refs \subseteq G /\ a.model \in {NoModel, TgenModel(t)}
        BY <2>3, <2>8
    <2>. QED
        BY <1>3, <2>1, <2>6, <2>7, <2>9
<1>. QED
    BY <1>4, <1>5, <1>6, <1>7, <1>8, <1>9 DEF TgenTypes

-----------------------------------------------------------------------------
(* All actors of either tool. *)

\* Those of the script, who defines one more.
AllActors(s) ==
    SharedActorsOf(s) \cup (UNION {ChannelActors(s, ch) : ch \in Channels}) \cup (UNION {TgenActors(t) : t \in Tgens(s)})

\* What either tool defines.
LEMMA BothDefine ==
    ASSUME NEW s, NEW tool
    PROVE  /\ DefinedActors(s) \subseteq Output(tool, s).defined /\ Output(tool, s).defined \subseteq AllActors(s)
           /\ initState(s) \subseteq Output(tool, s).names
<1>. DEFINE chs == UNION {ChannelActors(s, ch) : ch \in Channels}
            tgs == UNION {TgenActors(t) : t \in Tgens(s)}
<1>1. CASE tool = "generate"
    <2>1. Output(tool, s).defined = DefinedActors(s) /\ Output(tool, s).names = initState(s)
        BY <1>1 DEF Output, GenOutput
    <2>2. DefinedActors(s) = BaseActors \cup DnsActors \cup TgenServerActors(s) \cup chs \cup tgs
        BY DEF DefinedActors
    <2>3. AllActors(s) = (BaseActors \cup {Actor(Shared("iodineMonitor"), Shared("iodineMonitorAddr"), {}, NoModel)})
                          \cup DnsActors \cup TgenServerActors(s) \cup chs \cup tgs
        BY DEF AllActors, SharedActorsOf, ScriptBase
    <2>. HIDE DEF chs, tgs
    <2>. QED
        BY <2>1, <2>2, <2>3
<1>2. CASE tool # "generate"
    <2>1. /\ Output(tool, s).defined = ScriptClients(s) \cup ScriptBase \cup ScriptDns \cup ScriptTgens(s)
          /\ Output(tool, s).names = ScriptInitState(s)
        BY <1>2 DEF Output, ScriptOutput
    <2>2. ScriptClients(s) = chs /\ ScriptDns = DnsActors /\ ScriptTgens(s) = TgenServerActors(s) \cup tgs
          /\ ScriptInitState(s) = initState(s) \cup {Shared("iodineMonitor")}
        BY DEF ScriptClients, ScriptDns, ScriptTgens, ScriptInitState
    <2>3. DefinedActors(s) = BaseActors \cup DnsActors \cup TgenServerActors(s) \cup chs \cup tgs
        BY DEF DefinedActors
    <2>4. AllActors(s) = ScriptBase \cup DnsActors \cup TgenServerActors(s) \cup chs \cup tgs
        BY DEF AllActors, SharedActorsOf
    <2>5. BaseActors \subseteq ScriptBase
        BY DEF ScriptBase
    <2>. HIDE DEF chs, tgs
    <2>. QED
        BY <2>1, <2>2, <2>3, <2>4, <2>5
<1>. QED
    BY <1>1, <1>2

\* Whose an actor is.
OfAClient(s, a, ch, i) ==
    ch \in Channels /\ i \in Range(ClientIds(s, ch)) /\ a \in ClientActors(ch, i, ClientProfile(s, ch, i))

\* Every actor is shared, a client's or a generator's.
LEMMA Owners ==
    ASSUME NEW s, NEW a \in AllActors(s)
    PROVE  \/ a \in SharedActorsOf(s)
           \/ \E ch, i : OfAClient(s, a, ch, i)
           \/ \E t \in Tgens(s) : a \in TgenActors(t)
<1>1. CASE \E ch \in Channels : a \in ChannelActors(s, ch)
    <2>1. PICK ch \in Channels : a \in ChannelActors(s, ch)
        BY <1>1
    <2>2. a \in UNION {ClientActors(ch, i, ClientProfile(s, ch, i)) : i \in Range(ClientIds(s, ch))}
        BY <2>1, ClientsHere
    <2>. QED
        BY <2>1, <2>2 DEF OfAClient
<1>. QED
    BY <1>1 DEF AllActors

\* The address tells.
LEMMA OwnerAddresses ==
    ASSUME NEW s
    PROVE  /\ \A a \in SharedActorsOf(s) : a.at[1] = "shared"
           /\ \A a, ch, i : OfAClient(s, a, ch, i) => a.at[1] = ch /\ a.at[3] = i
           /\ \A t \in Tgens(s) : t.type \in TgenTypes =>
                 \A a \in TgenActors(t) : a.at[1] = t.type /\ \E role \in TgenRoles[t.type] : a.at = OfTgen(t, role)
<1>1. \A a \in SharedActorsOf(s) : a.at[1] = "shared"
    BY SharedFilled, AddressFields DEF RolesFilled
<1>2. ASSUME NEW a, NEW ch, NEW i, OfAClient(s, a, ch, i)
      PROVE  a.at[1] = ch /\ a.at[3] = i
    <2>1. RolesFilled(ClientActors(ch, i, ClientProfile(s, ch, i)), ch, i, PlacedRoles(ch))
        BY <1>2, ClientFilled DEF OfAClient
    <2>2. PICK role : a.at = OfClient(ch, i, role)
        BY <1>2, <2>1 DEF RolesFilled, OfAClient
    <2>. QED
        BY <2>2, AddressFields
<1>3. ASSUME NEW t \in Tgens(s), t.type \in TgenTypes, NEW a \in TgenActors(t)
      PROVE  a.at[1] = t.type /\ \E role \in TgenRoles[t.type] : a.at = OfTgen(t, role)
    <2>1. PICK role \in TgenRoles[t.type] : a.at = OfTgen(t, role)
        BY <1>3, TgenFilled DEF TgenFits
    <2>. QED
        BY <2>1, AddressFields
<1>. QED
    BY <1>1, <1>2, <1>3

\* No two actors of a scenario have the same address.
LEMMA AllApart ==
    ASSUME scenario \in Scenarios, ScenarioRead
    PROVE  Apart(AllActors(S))
<1>. SUFFICES ASSUME NEW a \in AllActors(S), NEW b \in AllActors(S), a.at = b.at
              PROVE  a = b
    BY DEF Apart
<1>1. \A t \in Tgens(S) : t.type \in TgenTypes
    BY ReadTgens
<1>2. "shared" \notin Channels \cup TgenTypes /\ Channels \cap TgenTypes = {}
    BY DEF Channels, TgenTypes
<1>3. \A x, ch, i : OfAClient(S, x, ch, i) => ch \in Channels
    BY DEF OfAClient
<1>4. CASE a \in SharedActorsOf(S)
    <2>1. b \in SharedActorsOf(S)
        BY <1>1, <1>2, <1>3, <1>4, Owners, OwnerAddresses
    <2>. QED
        BY <1>4, <2>1, SharedFilled DEF RolesFilled, Apart
<1>5. ASSUME NEW ch, NEW i, OfAClient(S, a, ch, i)
      PROVE  a = b
    <2>1. OfAClient(S, b, ch, i)
        BY <1>1, <1>2, <1>3, <1>5, Owners, OwnerAddresses
    <2>2. RolesFilled(ClientActors(ch, i, ClientProfile(S, ch, i)), ch, i, PlacedRoles(ch))
        BY <1>5, ClientFilled DEF OfAClient
    <2>. QED
        BY <1>5, <2>1, <2>2 DEF OfAClient, RolesFilled, Apart
<1>6. ASSUME NEW t \in Tgens(S), a \in TgenActors(t)
      PROVE  a = b
    <2>1. PICK u \in Tgens(S) : b \in TgenActors(u)
        BY <1>1, <1>2, <1>3, <1>6, Owners, OwnerAddresses
    <2>2. PICK role, other : a.at = OfTgen(t, role) /\ b.at = OfTgen(u, other)
        BY <1>1, <1>6, <2>1, OwnerAddresses
    <2>3. t = u
        BY <2>2, TgenAddresses
    <2>. QED
        BY <1>1, <1>6, <2>1, <2>3, TgenFilled DEF TgenFits, Apart
<1>. QED
    BY <1>4, <1>5, <1>6, Owners

\* A finite number of roles gives a finite number of actors.
LEMMA RolesFinite ==
    ASSUME NEW ch, NEW i, NEW A, NEW R, RolesFilled(A, ch, i, R), IsFiniteSet(R)
    PROVE  IsFiniteSet(A)
<1>. DEFINE f == [a \in A |-> a.at[4]]
<1>1. \A a \in A : \E role \in R : a.at = OfClient(ch, i, role) /\ f[a] = role
    BY AddressFields DEF RolesFilled
<1>2. \A a \in A : f[a] \in R /\ a.at = OfClient(ch, i, f[a])
    BY <1>1
<1>3. \A a, b \in A : f[a] = f[b] => a = b
    BY <1>2 DEF RolesFilled, Apart
<1>4. f \in [A -> R]
    <2>1. f = [a \in A |-> f[a]]
        OBVIOUS
    <2>. HIDE DEF f
    <2>. QED
        BY <1>2, <2>1
<1>. HIDE DEF f
<1>5. f \in Injection(A, R)
    BY <1>3, <1>4 DEF Injection, IsInjective
<1>. QED
    BY <1>5, FS_Injection

\* There are finitely many roles.
LEMMA FewRoles ==
    /\ \A ch \in Channels : IsFiniteSet(PlacedRoles(ch))
    /\ IsFiniteSet(SharedPlacedRoles)
    /\ IsFiniteSet(Channels) /\ \A type \in TgenTypes : IsFiniteSet(TgenRoles[type])
<1>1. \A A, B : IsFiniteSet(A) /\ IsFiniteSet(B) => IsFiniteSet(A \cup B)
    BY FS_Union
<1>2. \A A, B : IsFiniteSet(A) => IsFiniteSet(A \ B)
    BY FS_Difference
<1>3. IsFiniteSet(ChannelRoles["webtunnel"])
    <2>1. ChannelRoles["webtunnel"] = {"IrcAddr", "UmAddr", "IfaceAddr", "SrvIfaceAddr", "ClientAddr"}
                                        \cup {"ProxyAddr", "NetClientAddr", "NetServerAddr", "NetServerAddr", "NetServerAddr"}
        BY DEF ChannelRoles
    <2>2. /\ IsFiniteSet({"IrcAddr", "UmAddr", "IfaceAddr", "SrvIfaceAddr", "ClientAddr"})
          /\ IsFiniteSet({"ProxyAddr", "NetClientAddr", "NetServerAddr", "NetServerAddr", "NetServerAddr"})
        BY FiniteFew
    <2>. QED
        BY <1>1, <2>1, <2>2
<1>4. IsFiniteSet(ChannelRoles["skyhook"])
    <2>. DEFINE A == {"IrcAddr", "UmAddr", "IfaceAddr", "SrvIfaceAddr", "UmacAddr"}
                B == {"CmacAddr", "PuaAddr", "SdkacAddr", "UmasAddr", "CmasAddr"}
                C == {"AhaAddr", "SdkasAddr", "ClNetAddr", "SrvNetClAddr", "NetSrvAddr"}
    <2>1. ChannelRoles["skyhook"] = (A \cup B) \cup C
        BY DEF ChannelRoles
    <2>2. IsFiniteSet(A) /\ IsFiniteSet(B) /\ IsFiniteSet(C)
        BY FiniteFew
    <2>. HIDE DEF A, B, C
    <2>3. IsFiniteSet(A \cup B)
        BY <1>1, <2>2
    <2>. QED
        BY <1>1, <2>1, <2>2, <2>3
<1>5. IsFiniteSet(ChannelRoles["obfs4"])
    <2>1. ChannelRoles["obfs4"] = {"IrcAddr", "UmAddr", "IfaceAddr", "SrvIfaceAddr", "ClientAddr"}
                                    \cup {"ServerAddr", "NetClientAddr", "NetServerAddr", "NetServerAddr", "NetServerAddr"}
        BY DEF ChannelRoles
    <2>2. /\ IsFiniteSet({"IrcAddr", "UmAddr", "IfaceAddr", "SrvIfaceAddr", "ClientAddr"})
          /\ IsFiniteSet({"ServerAddr", "NetClientAddr", "NetServerAddr", "NetServerAddr", "NetServerAddr"})
        BY FiniteFew
    <2>. QED
        BY <1>1, <2>1, <2>2
<1>6. IsFiniteSet(ChannelRoles["iodine"])
    <2>. DEFINE A == {"IrcAddr", "UmAddr", "IfaceAddr", "SrvIfaceAddr", "SendAppAddr"}
                B == {"RcvAppAddr", "ClientAddr", "ServerAddr", "NetServerAddr", "SrvNetClAddr"}
                C == {"SrvNetSrvAddr", "SrvNetSrvAddr"}
    <2>1. ChannelRoles["iodine"] = (A \cup B) \cup C
        BY DEF ChannelRoles
    <2>2. IsFiniteSet(A) /\ IsFiniteSet(B) /\ IsFiniteSet(C)
        BY FiniteFew
    <2>. HIDE DEF A, B, C
    <2>3. IsFiniteSet(A \cup B)
        BY <1>1, <2>2
    <2>. QED
        BY <1>1, <2>1, <2>2, <2>3
<1>7. IsFiniteSet(ChannelRoles["mastodon"])
    <2>. DEFINE A == {"IrcAddr", "UmAddr", "IfaceAddr", "SrvIfaceAddr", "UmacAddr"}
                B == {"CmacAddr", "McacAddr", "EdacAddr", "UmasAddr", "CmasAddr"}
                C == {"McasAddr", "EdasAddr", "ClNetAddr", "SrvNetClAddr", "SrvNetClAddr"}
    <2>1. ChannelRoles["mastodon"] = (A \cup B) \cup C
        BY DEF ChannelRoles
    <2>2. IsFiniteSet(A) /\ IsFiniteSet(B) /\ IsFiniteSet(C)
        BY FiniteFew
    <2>. HIDE DEF A, B, C
    <2>3. IsFiniteSet(A \cup B)
        BY <1>1, <2>2
    <2>. QED
        BY <1>1, <2>1, <2>2, <2>3
<1>8. \A ch \in Channels : IsFiniteSet(PlacedRoles(ch))
    BY <1>2, <1>3, <1>4, <1>5, <1>6, <1>7 DEF Channels, PlacedRoles
<1>9. IsFiniteSet(SharedPlacedRoles)
    <2>1. IsFiniteSet(BaseRoles) /\ IsFiniteSet(TgenServerRoles) /\ IsFiniteSet({"iodineMonitorAddr"})
          /\ IsFiniteSet({"publicResolverNetSrvAddr"})
        BY FiniteFew, FS_Singleton DEF BaseRoles, TgenServerRoles
    <2>2. IsFiniteSet(ZoneRoles)
        <3>1. ZoneRoles = {"publicDnsAddr", "rootDnsAddr"} \cup {"tldDnsAddr", "authDnsAddr"}
            BY DEF ZoneRoles
        <3>. QED
            BY <1>1, <3>1, FiniteFew
    <2>3. IsFiniteSet(ResolverRoles)
        <3>1. ResolverRoles = ({"corpMasDnsAddr", "corpRtDnsAddr", "corpIodDnsAddr", "corpObfsDnsAddr", "corpSkyDnsAddr"}
                                \cup {"corpMasNetClAddr", "corpRtNetClAddr", "corpIodNetClAddr", "corpObfsNetClAddr", "corpSkyNetClAddr"})
                                \cup {"servDnsAddr", "servNetClAddr"}
            BY DEF ResolverRoles, Resolvers
        <3>. QED
            BY <1>1, <3>1, FiniteFew
    <2>. QED
        BY <1>1, <2>1, <2>2, <2>3 DEF SharedPlacedRoles
<1>10. IsFiniteSet(Channels)
    BY FiniteFew DEF Channels
<1>11. \A type \in TgenTypes : IsFiniteSet(TgenRoles[type])
    <2>1. /\ TgenRoles["masTgen"] = {"UmAddr", "TgAddr", "McAddr", "NetClAddr", "NetClAddr"}
          /\ TgenRoles["ftpTgen"] = {"UmAddr", "TgAddr", "NetClAddr", "NetClAddr", "NetClAddr"}
          /\ TgenRoles["dnsTgen"] = {"UmAddr", "TgAddr"}
          /\ TgenRoles["minTgen"] = {"UmAddr", "TgAddr", "S3ClAddr", "NetClAddr", "NetClAddr"}
          /\ TgenRoles["gorTgen"] = {"UmAddr", "TgAddr", "NetClAddr", "NetClAddr", "NetClAddr"}
          /\ TgenRoles["ircTgen"] = {"UmAddr", "TgAddr", "NetClAddr", "NetClAddr", "NetClAddr"}
        BY DEF TgenRoles
    <2>2. /\ IsFiniteSet({"UmAddr", "TgAddr", "McAddr", "NetClAddr", "NetClAddr"})
          /\ IsFiniteSet({"UmAddr", "TgAddr", "NetClAddr", "NetClAddr", "NetClAddr"})
          /\ IsFiniteSet({"UmAddr", "TgAddr"})
          /\ IsFiniteSet({"UmAddr", "TgAddr", "S3ClAddr", "NetClAddr", "NetClAddr"})
        BY FiniteFew
    <2>. QED
        BY <2>1, <2>2 DEF TgenTypes
<1>. QED
    BY <1>8, <1>9, <1>10, <1>11

\* A generator has finitely many actors.
LEMMA TgenFinite ==
    ASSUME NEW t, t.type \in TgenTypes
    PROVE  IsFiniteSet(TgenActors(t))
<1>. DEFINE A == TgenActors(t)
            f == [a \in A |-> a.at[4]]
            R == TgenRoles[t.type]
<1>1. TgenFits(A, t)
    BY TgenFilled
<1>. HIDE DEF A
<1>2. \A a \in A : \E role \in R : a.at = OfTgen(t, role) /\ f[a] = role
    BY <1>1, AddressFields DEF TgenFits
<1>3. \A a \in A : f[a] \in R /\ a.at = OfTgen(t, f[a])
    BY <1>2
<1>4. \A a, b \in A : f[a] = f[b] => a = b
    BY <1>1, <1>3 DEF TgenFits, Apart
<1>5. f \in [A -> R]
    <2>1. f = [a \in A |-> f[a]]
        OBVIOUS
    <2>. HIDE DEF f
    <2>. QED
        BY <1>3, <2>1
<1>6. IsFiniteSet(R)
    BY FewRoles
<1>. HIDE DEF f, R
<1>7. f \in Injection(A, R)
    BY <1>4, <1>5 DEF Injection, IsInjective
<1>. QED
    BY <1>6, <1>7, FS_Injection DEF A

\* There are finitely many actors.
LEMMA ActorsFinite ==
    ASSUME scenario \in Scenarios, ScenarioRead
    PROVE  IsFiniteSet(AllActors(S))
<1>1. IsFiniteSet(SharedActorsOf(S))
    BY FewRoles, SharedFilled, RolesFinite
<1>2. ASSUME NEW ch \in Channels
      PROVE  IsFiniteSet(ChannelActors(S, ch))
    <2>. DEFINE f == [i \in Range(ClientIds(S, ch)) |-> ClientActors(ch, i, ClientProfile(S, ch, i))]
    <2>1. \A i \in Range(ClientIds(S, ch)) : IsFiniteSet(f[i])
        <3>1. \A i, p : IsFiniteSet(ClientActors(ch, i, p))
            BY ClientFilled, FewRoles, RolesFinite
        <3>. QED
            BY <3>1
    <2>2. IsFiniteSet(Range(ClientIds(S, ch)))
        BY ClientsApart, FiniteRange DEF ScenarioRead, ScenarioAccepted
    <2>3. ChannelActors(S, ch) = UNION {f[i] : i \in Range(ClientIds(S, ch))}
        BY ClientsHere
    <2>. HIDE DEF f
    <2>4. IsFiniteSet(UNION {f[i] : i \in Range(ClientIds(S, ch))})
        BY <2>1, <2>2, FiniteUnion
    <2>. QED
        BY <2>3, <2>4
<1>3. IsFiniteSet(UNION {ChannelActors(S, ch) : ch \in Channels})
    <2>. DEFINE f == [ch \in Channels |-> ChannelActors(S, ch)]
    <2>1. \A ch \in Channels : IsFiniteSet(f[ch])
        BY <1>2
    <2>2. UNION {ChannelActors(S, ch) : ch \in Channels} = UNION {f[ch] : ch \in Channels}
        OBVIOUS
    <2>. HIDE DEF f
    <2>3. IsFiniteSet(UNION {f[ch] : ch \in Channels})
        BY <2>1, FewRoles, FiniteUnion
    <2>. QED
        BY <2>2, <2>3
<1>4. IsFiniteSet(UNION {TgenActors(t) : t \in Tgens(S)})
    <2>. DEFINE f == [t \in Tgens(S) |-> TgenActors(t)]
    <2>1. \A t \in Tgens(S) : IsFiniteSet(f[t])
        BY ReadTgens, TgenFinite
    <2>2. UNION {TgenActors(t) : t \in Tgens(S)} = UNION {f[t] : t \in Tgens(S)}
        OBVIOUS
    <2>. HIDE DEF f
    <2>3. IsFiniteSet(UNION {f[t] : t \in Tgens(S)})
        BY <2>1, TgensFacts, FiniteUnion
    <2>. QED
        BY <2>2, <2>3
<1>. QED
    BY <1>1, <1>3, <1>4, FS_Union DEF AllActors

\* There are as many addresses as actors there.
LEMMA AddressesCounted ==
    ASSUME scenario \in Scenarios, ScenarioRead, NEW P \in SUBSET AllActors(S)
    PROVE  Cardinality({a.at : a \in P}) = Cardinality(P)
<1>. DEFINE f == [a \in P |-> a.at]
            T == {a.at : a \in P}
<1>1. f \in [P -> T] /\ (\A x \in T : \E a \in P : f[a] = x) /\ \A a \in P : f[a] = a.at
    OBVIOUS
<1>2. \A a, b \in P : a.at = b.at => a = b
    BY AllApart DEF Apart
<1>. HIDE DEF f, T
<1>3. f \in Bijection(P, T)
    BY <1>1, <1>2 DEF Bijection, Injection, Surjection, IsInjective
<1>4. ExistsBijection(P, T)
    BY <1>3 DEF ExistsBijection
<1>5. IsFiniteSet(P)
    BY ActorsFinite, FS_Subset
<1>6. Cardinality(T) = Cardinality(P)
    BY <1>4, <1>5, FS_Bijection
<1>. QED
    BY <1>6 DEF T

\* Somebody is at every role of a client.
LEMMA ClientRolesAt ==
    ASSUME NEW s, NEW ch \in Channels, NEW i \in Range(ClientIds(s, ch)), NEW role \in PlacedRoles(ch)
    PROVE  At(s, OfClient(ch, i, role))
<1>. DEFINE p == ClientProfile(s, ch, i)
            actors == ClientActors(ch, i, p)
<1>1. PICK a \in actors : a.at = OfClient(ch, i, role)
    BY ClientFilled DEF RolesFilled
<1>2. a \in DefinedActors(s)
    BY ClientsDefined
<1>3. RoleOf(a, ch, i, PlacedNames[ch])
    BY <1>1, ClientNamed2 DEF Named
<1>4. a.name \in initState(s)
    BY <1>3, PlacedHere DEF RoleOf
<1>. QED
    BY <1>1, <1>2, <1>4 DEF At

\* And at every role of a generator.
LEMMA TgenRolesAt ==
    ASSUME NEW s, NEW t \in Tgens(s), t.type \in TgenTypes, NEW role \in TgenRoles[t.type]
    PROVE  At(s, OfTgen(t, role))
<1>1. \E name \in PlacedNames[t.type] : TgenAddrRole(name) = role
    <2>1. /\ TgenAddrRole("UmAct") = "UmAddr" /\ TgenAddrRole("Act") = "TgAddr" /\ TgenAddrRole("NetClAct") = "NetClAddr"
          /\ TgenAddrRole("McAct") = "McAddr" /\ TgenAddrRole("S3ClAct") = "S3ClAddr"
        BY DEF TgenAddrRole
    <2>2. /\ PlacedNames["masTgen"] = {"UmAct", "Act", "McAct", "NetClAct"} /\ PlacedNames["ftpTgen"] = {"UmAct", "Act", "NetClAct"}
          /\ PlacedNames["dnsTgen"] = {"UmAct", "Act"} /\ PlacedNames["minTgen"] = {"UmAct", "Act", "S3ClAct", "NetClAct"}
          /\ PlacedNames["gorTgen"] = {"UmAct", "Act", "NetClAct"} /\ PlacedNames["ircTgen"] = {"UmAct", "Act", "NetClAct"}
        BY DEF PlacedNames
    <2>3. /\ TgenRoles["masTgen"] = {"UmAddr", "TgAddr", "McAddr", "NetClAddr"} /\ TgenRoles["ftpTgen"] = {"UmAddr", "TgAddr", "NetClAddr"}
          /\ TgenRoles["dnsTgen"] = {"UmAddr", "TgAddr"} /\ TgenRoles["minTgen"] = {"UmAddr", "TgAddr", "S3ClAddr", "NetClAddr"}
          /\ TgenRoles["gorTgen"] = {"UmAddr", "TgAddr", "NetClAddr"} /\ TgenRoles["ircTgen"] = {"UmAddr", "TgAddr", "NetClAddr"}
        BY DEF TgenRoles
    <2>. QED
        BY <2>1, <2>2, <2>3 DEF TgenTypes
<1>. QED
    BY <1>1, TgenAt

\* Whatever address an actor is given, somebody is there.
LEMMA GivenAt ==
    ASSUME scenario \in Scenarios, ScenarioRead, NEW a \in AllActors(S), NEW addr \in a.refs
    PROVE  At(S, addr)
<1>1. \A x \in GivenServers : At(S, x)
    BY SharedAt DEF GivenServers
<1>2. \A t \in Tgens(S) : t.type \in TgenTypes
    BY ReadTgens
<1>3. CASE a \in SharedActorsOf(S)
    <2>1. addr \in SharedGiven(S)
        BY <1>3, SharedFilled
    <2>2. \A t \in Tgens(S) : At(S, OfTgen(t, "TgAddr"))
        BY <1>2, TgenEndAt
    <2>3. \A role \in ResolverRoles : At(S, Shared(role))
        BY SharedAt DEF ResolverRoles
    <2>. QED
        BY <2>1, <2>2, <2>3, SharedAt DEF SharedGiven, TgensOf
<1>4. ASSUME NEW ch, NEW i, OfAClient(S, a, ch, i) PROVE At(S, addr)
    <2>1. ch \in Channels /\ i \in Range(ClientIds(S, ch)) /\ addr \in Given(ch, i)
        BY <1>4, ClientFilled DEF OfAClient, ClientGiven
    <2>2. \A role \in PlacedRoles(ch) : At(S, OfClient(ch, i, role))
        BY <2>1, ClientRolesAt
    <2>. QED
        BY <1>1, <2>1, <2>2 DEF Given
<1>5. ASSUME NEW t \in Tgens(S), a \in TgenActors(t) PROVE At(S, addr)
    <2>1. addr \in TgenGiven(t)
        BY <1>2, <1>5, TgenFilled DEF TgenFits
    <2>2. \A role \in TgenRoles[t.type] : At(S, OfTgen(t, role))
        BY <1>2, TgenRolesAt
    <2>3. \A x \in TgenDns(t) : At(S, x)
        BY SharedAt DEF TgenDns, ResolverOf
    <2>. QED
        BY <2>1, <2>2, <2>3, SharedAt DEF TgenGiven
<1>. QED
    BY <1>3, <1>4, <1>5, Owners

\* And wherever a name resolves to.
LEMMA ResolvedAt ==
    ASSUME NEW s, NEW tool, NEW addr \in Output(tool, s).resolved
    PROVE  At(s, addr)
<1>1. Output(tool, s).resolved = ResolvedAddrs(s) \/ Output(tool, s).resolved = ScriptResolvedAddrs(s)
    BY DEF Output, GenOutput, ScriptOutput
<1>2. \/ addr = Shared("masSrvAddr") \/ addr \in {Shared(z) : z \in {"rootDnsAddr", "tldDnsAddr", "authDnsAddr"}}
      \/ addr \in {Shared(r.dns) : r \in Resolvers}
      \/ addr \in {OfClient("iodine", i, "SrvNetClAddr") : i \in Range(ClientIds(s, "iodine"))}
    BY <1>1 DEF ResolvedAddrs, ScriptResolvedAddrs
<1>3. \A z \in {"rootDnsAddr", "tldDnsAddr", "authDnsAddr"} : At(s, Shared(z))
    <2>. SUFFICES ASSUME NEW z \in {"rootDnsAddr", "tldDnsAddr", "authDnsAddr"} PROVE At(s, Shared(z))
        OBVIOUS
    <2>. DEFINE a == Actor(Shared(z), Shared(z), {}, NoModel)
    <2>1. a \in DnsActors
        BY DEF DnsActors
    <2>2. a \in DefinedActors(s)
        BY <2>1, DefinedHere
    <2>3. z \in SharedPlaced
        BY DEF SharedPlaced
    <2>4. a.name = Shared(z) /\ a.at = Shared(z)
        BY ActorFields
    <2>5. a.name \in initState(s)
        BY <2>3, <2>4, PlacedHere
    <2>. QED
        BY <2>2, <2>4, <2>5 DEF At
<1>4. "iodine" \in Channels /\ "SrvNetClAddr" \in PlacedRoles("iodine")
    BY DEF Channels, PlacedRoles, ChannelRoles
<1>. QED
    BY <1>2, <1>3, <1>4, SharedAt, ClientRolesAt DEF Mastodon

\* Who is defined is placed, but for the Mastodon server's network actor where there is
\* no Mastodon client; and who is placed is defined.
LEMMA NamesFit ==
    ASSUME scenario \in Scenarios, ScenarioRead
    PROVE  /\ \A a \in DefinedActors(S) : a.name \in initState(S) \/ a.name = Shared("masNetSrv")
           /\ \A name \in initState(S) : \E a \in DefinedActors(S) : a.name = name
<1>1. \A t \in Tgens(S) : t.type \in TgenTypes
    BY ReadTgens
<1>. DEFINE zones == {"publicDnsAddr", "rootDnsAddr", "tldDnsAddr", "authDnsAddr"}
            N == {a.name : a \in DefinedActors(S)}
<1>2. /\ \A a \in BaseActors : a.name \in {Shared("ircServer"), Shared("s3SrvAct"), Shared("masSrvAct"), Shared("masNetSrv"), Shared("advActor")}
      /\ \A name \in {"ircServer", "s3SrvAct", "masSrvAct", "masNetSrv", "advActor"} : \E a \in BaseActors : a.name = Shared(name)
    BY ActorFields DEF BaseActors
<1>3. /\ \A a \in DnsActors : \/ \E r \in Resolvers : a.name \in {Shared(r.dns), Shared(r.cl)}
                              \/ \E z \in zones \cup {"publicResolverNetSrvAddr"} : a.name = Shared(z)
      /\ \A r \in Resolvers : (\E a \in DnsActors : a.name = Shared(r.dns)) /\ (\E a \in DnsActors : a.name = Shared(r.cl))
      /\ \A z \in zones \cup {"publicResolverNetSrvAddr"} : \E a \in DnsActors : a.name = Shared(z)
    <2>. DEFINE Dns(r) == Actor(Shared(r.dns), Shared(r.dns), {Shared(r.cl)}, NoModel)
                Cl(r) == Actor(Shared(r.cl), Shared(r.cl), {Shared("publicResolverNetSrvAddr"),
                               Shared("publicDnsAddr"), Shared(r.dns)}, NoModel)
                Zone(z) == Actor(Shared(z), Shared(z), {}, NoModel)
                srv == Actor(Shared("publicResolverNetSrvAddr"), Shared("publicResolverNetSrvAddr"), {Shared("publicDnsAddr")}, NoModel)
    <2>1. DnsActors = {Dns(r) : r \in Resolvers} \cup {Cl(r) : r \in Resolvers} \cup {Zone(z) : z \in zones} \cup {srv}
        BY DEF DnsActors
    <2>2. /\ \A r : Dns(r).name = Shared(r.dns) /\ Cl(r).name = Shared(r.cl)
          /\ \A z : Zone(z).name = Shared(z)
          /\ srv.name = Shared("publicResolverNetSrvAddr")
        BY ActorFields
    <2>. HIDE DEF Dns, Cl, Zone, srv, zones
    <2>3. /\ \A r \in Resolvers : Dns(r) \in DnsActors /\ Cl(r) \in DnsActors
          /\ \A z \in zones : Zone(z) \in DnsActors
          /\ srv \in DnsActors
        BY <2>1
    <2>4. \A a \in DnsActors : (\E r \in Resolvers : a = Dns(r) \/ a = Cl(r)) \/ (\E z \in zones : a = Zone(z)) \/ a = srv
        BY <2>1
    <2>. QED
        BY <2>2, <2>3, <2>4
<1>4. /\ \A a \in TgenServerActors(S) : a.name \in {Shared("ftpSrvAct"), Shared("ftpNetSrvAct"), Shared("gorillaSrvAct"),
                                                    Shared("gorillaNetSrvAct"), Shared("ircTgenSrvNet")}
      /\ \A name \in {"ftpSrvAct", "ftpNetSrvAct", "gorillaSrvAct", "gorillaNetSrvAct", "ircTgenSrvNet"} :
            \E a \in TgenServerActors(S) : a.name = Shared(name)
    BY ActorFields DEF TgenServerActors
<1>5. \A ch \in Channels : \A i \in Range(ClientIds(S, ch)) :
         Named(ClientActors(ch, i, ClientProfile(S, ch, i)), ch, i, PlacedNames[ch])
    BY ClientNamed2
<1>6. \A t \in Tgens(S) : TgenNamed(TgenActors(t), t, PlacedNames[t.type])
    BY <1>1, TgensNamed
<1>7. ASSUME NEW a \in DefinedActors(S)
      PROVE  a.name \in initState(S) \/ a.name = Shared("masNetSrv")
    <2>1. CASE a \in BaseActors
        <3>1. {"ircServer", "s3SrvAct", "masSrvAct", "advActor"} \subseteq SharedPlaced
            BY DEF SharedPlaced
        <3>. QED
            BY <1>2, <2>1, <3>1, PlacedHere
    <2>2. CASE a \in DnsActors
        <3>1. zones \cup {"publicResolverNetSrvAddr"} \subseteq SharedPlaced /\ \A r \in Resolvers : {r.dns, r.cl} \subseteq SharedPlaced
            BY DEF SharedPlaced
        <3>. QED
            BY <1>3, <2>2, <3>1, PlacedHere
    <2>3. CASE a \in TgenServerActors(S)
        <3>1. {"ftpSrvAct", "ftpNetSrvAct", "gorillaSrvAct", "gorillaNetSrvAct", "ircTgenSrvNet"} \subseteq SharedPlaced
            BY DEF SharedPlaced
        <3>. QED
            BY <1>4, <2>3, <3>1, PlacedHere
    <2>4. CASE \E ch \in Channels : a \in ChannelActors(S, ch)
        <3>1. PICK ch \in Channels : a \in ChannelActors(S, ch)
            BY <2>4
        <3>2. a \in UNION {ClientActors(ch, i, ClientProfile(S, ch, i)) : i \in Range(ClientIds(S, ch))}
            BY <3>1, ClientsHere
        <3>3. PICK i \in Range(ClientIds(S, ch)) : a \in ClientActors(ch, i, ClientProfile(S, ch, i))
            BY <3>2
        <3>4. RoleOf(a, ch, i, PlacedNames[ch])
            BY <1>5, <3>3 DEF Named
        <3>. QED
            BY <3>4, PlacedHere DEF RoleOf
    <2>5. CASE \E t \in Tgens(S) : a \in TgenActors(t)
        BY <1>6, <2>5, PlacedHere DEF TgenNamed, TgenIs
    <2>. QED
        BY <2>1, <2>2, <2>3, <2>4, <2>5 DEF DefinedActors
<1>8. ASSUME NEW name \in initState(S)
      PROVE  \E a \in DefinedActors(S) : a.name = name
    <2>1. CASE \E role \in SharedPlaced \cup {"masNetSrv"} : name = Shared(role)
        <3>1. PICK role \in SharedPlaced \cup {"masNetSrv"} : name = Shared(role)
            BY <2>1
        <3>2. \/ role \in {"ircServer", "s3SrvAct", "masSrvAct", "masNetSrv", "advActor"}
              \/ role \in zones \cup {"publicResolverNetSrvAddr"}
              \/ role \in {"ftpSrvAct", "ftpNetSrvAct", "gorillaSrvAct", "gorillaNetSrvAct", "ircTgenSrvNet"}
              \/ \E r \in Resolvers : role = r.dns \/ role = r.cl
            BY DEF SharedPlaced
        <3>3. \E a \in BaseActors \cup DnsActors \cup TgenServerActors(S) : a.name = Shared(role)
            BY <1>2, <1>3, <1>4, <3>2
        <3>. QED
            BY <3>1, <3>3, DefinedHere
    <2>2. ASSUME NEW ch \in Channels, NEW role \in PlacedNames[ch], NEW i \in Range(ClientIds(S, ch)), name = OfClient(ch, i, role)
          PROVE  \E a \in DefinedActors(S) : a.name = name
        <3>1. PICK a \in ClientActors(ch, i, ClientProfile(S, ch, i)) : a.name = OfClient(ch, i, role)
            BY <1>5 DEF Named
        <3>. QED
            BY <2>2, <3>1, ClientsDefined
    <2>3. ASSUME NEW t \in Tgens(S), NEW role \in PlacedNames[t.type], name = OfTgen(t, role)
          PROVE  \E a \in DefinedActors(S) : a.name = name
        <3>1. PICK a \in TgenActors(t) : a.name = OfTgen(t, role)
            BY <1>6 DEF TgenNamed, TgenIs
        <3>. QED
            BY <2>3, <3>1 DEF DefinedActors
    <2>4. \/ \E role \in SharedPlaced \cup {"masNetSrv"} : name = Shared(role)
          \/ \E ch \in Channels : \E role \in PlacedNames[ch], i \in Range(ClientIds(S, ch)) : name = OfClient(ch, i, role)
          \/ \E t \in Tgens(S) : \E role \in PlacedNames[t.type] : name = OfTgen(t, role)
        BY DEF initState
    <2>. QED
        BY <2>1, <2>2, <2>3, <2>4
<1>. QED
    BY <1>7, <1>8

\* The same of what either tool writes.
LEMMA NamesMade ==
    ASSUME scenario \in Scenarios, ScenarioRead, NEW tool
    PROVE  LET out == Output(tool, S)
               defined == {a.name : a \in out.defined}
           IN defined \ {Shared("masNetSrv")} \subseteq out.names /\ out.names \subseteq defined
<1>1. CASE tool = "generate"
    <2>1. Output(tool, S).defined = DefinedActors(S) /\ Output(tool, S).names = initState(S)
        BY <1>1 DEF Output, GenOutput
    <2>. QED
        BY <2>1, NamesFit
<1>2. CASE tool # "generate"
    <2>. DEFINE m == Actor(Shared("iodineMonitor"), Shared("iodineMonitorAddr"), {}, NoModel)
    <2>1. /\ Output(tool, S).defined = ScriptClients(S) \cup ScriptBase \cup ScriptDns \cup ScriptTgens(S)
          /\ Output(tool, S).names = initState(S) \cup {Shared("iodineMonitor")}
        BY <1>2 DEF Output, ScriptOutput, ScriptInitState
    <2>2. Output(tool, S).defined = DefinedActors(S) \cup {m}
        BY <2>1 DEF ScriptClients, ScriptBase, ScriptDns, ScriptTgens, DefinedActors
    <2>3. m.name = Shared("iodineMonitor")
        BY ActorFields
    <2>. HIDE DEF m
    <2>. QED
        BY <2>1, <2>2, <2>3, NamesFit
<1>. QED
    BY <1>1, <1>2

\* A channel with a client has an entry that has it.
LEMMA ClientEntry ==
    ASSUME scenario \in Scenarios, \A n \in Range(S.nodes) : n.qty > 0, NEW ch, NEW i \in Range(ClientIds(S, ch))
    PROVE  \E k \in DOMAIN S.nodes : S.nodes[k].channel = ch /\ i \in Range(EntryIds(S, ch, k))
<1>. DEFINE seqs == [k \in DOMAIN S.nodes |-> EntryIds(S, ch, k)]
<1>1. ClientIds(S, ch) = FlattenSeq(seqs)
    BY DEF ClientIds, EntryIds
<1>2. DOMAIN S.nodes = 1 .. Len(S.nodes) /\ Len(S.nodes) \in Nat
    BY ScenariosAssumption DEF S
<1>3. DOMAIN seqs = 1 .. Len(S.nodes) /\ seqs = [k \in 1 .. Len(S.nodes) |-> seqs[k]]
      /\ \A k \in DOMAIN S.nodes : seqs[k] = EntryIds(S, ch, k)
    BY <1>2
<1>. HIDE DEF seqs
<1>4. \A k \in DOMAIN S.nodes : seqs[k] \in Seq(Int)
    BY <1>3, EntryIdsFacts
<1>5. seqs \in [1 .. Len(S.nodes) -> Seq(Int)]
    BY <1>2, <1>3, <1>4
<1>6. seqs \in Seq(Seq(Int))
    BY <1>2, <1>5, SeqOfFunction
<1>7. i \in UNION {Range(seqs[k]) : k \in DOMAIN seqs}
    BY <1>1, <1>6, FlattenFacts
<1>8. PICK k \in DOMAIN S.nodes : i \in Range(seqs[k])
    BY <1>2, <1>3, <1>7
<1>9. S.nodes[k].channel = ch
    <2>1. CASE S.nodes[k].channel # ch
        <3>1. seqs[k] = <<>>
            BY <1>3, <2>1 DEF EntryIds
        <3>. QED
            BY <1>8, <3>1 DEF Range
    <2>. QED
        BY <2>1
<1>. QED
    BY <1>3, <1>8, <1>9

-----------------------------------------------------------------------------
(* The action models. *)

\* The scenario gives the channels that have action models of their own theirs.
ModelsGiven(s) ==
    \A n \in Range(s.nodes) : n.channel \in {"skyhook", "mastodon"} => n.channel \in hcs_channel_models(s)

\* Then the main file loads whatever model an actor has.
LEMMA ModelsLoaded ==
    ASSUME scenario \in Scenarios, ScenarioRead, ProfilesReach(S), ModelsGiven(S), NEW a \in AllActors(S)
    PROVE  a.model = NoModel \/ a.model \in ModelFiles(S)
<1>1. \A t \in Tgens(S) : t.type \in TgenTypes
    BY ReadTgens
<1>2. CASE a \in SharedActorsOf(S)
    BY <1>2, SharedFilled
<1>3. ASSUME NEW ch, NEW i, OfAClient(S, a, ch, i) PROVE a.model = NoModel \/ a.model \in ModelFiles(S)
    <2>1. ch \in Channels /\ i \in Range(ClientIds(S, ch)) /\ ClientGiven(a, ch, i, ClientProfile(S, ch, i))
        BY <1>3, ClientFilled DEF OfAClient
    <2>2. <<"irc", ClientProfile(S, ch, i)>> \in ModelFiles(S)
        BY <2>1, ProfileGiven
    <2>3. CASE ch \in {"skyhook", "mastodon"}
        <3>1. \E k \in DOMAIN S.nodes : S.nodes[k].channel = ch
            BY <2>1, ClientEntry DEF ScenarioRead, ScenarioAccepted
        <3>2. ch \in hcs_channel_models(S)
            BY <2>3, <3>1 DEF ModelsGiven, Range
        <3>3. {<<ch, "client">>, <<ch, "server">>} \subseteq ModelFiles(S)
            BY <2>3, <3>2 DEF ModelFiles
        <3>. QED
            BY <2>1, <2>2, <3>3 DEF ClientGiven
    <2>. QED
        BY <2>1, <2>2, <2>3 DEF ClientGiven
<1>4. ASSUME NEW t \in Tgens(S), a \in TgenActors(t) PROVE a.model = NoModel \/ a.model \in ModelFiles(S)
    <2>1. a.model \in {NoModel, TgenModel(t)}
        BY <1>1, <1>4, TgenFilled DEF TgenFits
    <2>2. TgenModel(t) \in ModelFiles(S)
        BY DEF ModelFiles
    <2>. QED
        BY <2>1, <2>2
<1>. QED
    BY <1>2, <1>3, <1>4, Owners

\* There are finitely many models.
LEMMA ModelsFinite ==
    ASSUME scenario \in Scenarios, ScenarioRead
    PROVE  IsFiniteSet(ModelFiles(S))
<1>. DEFINE P == UNION {Range(LastNode(S, n.channel).profs) : n \in Range(S.nodes)}
            A == {<<"irc", p.name>> : p \in P}
            B == {TgenModel(t) : t \in Tgens(S)}
            C == (hcs_channel_models(S) \cap {"skyhook", "mastodon"}) \X {"client", "server"}
<1>1. ModelFiles(S) = A \cup B \cup C
    BY DEF ModelFiles
<1>2. IsFiniteSet(P)
    <2>. DEFINE f == [n \in Range(S.nodes) |-> Range(LastNode(S, n.channel).profs)]
    <2>1. ASSUME NEW n \in Range(S.nodes) PROVE IsFiniteSet(f[n])
        <3>1. LastNode(S, n.channel) \in Range(S.nodes)
            BY LastEntry DEF Range
        <3>2. \A m \in Range(S.nodes) : m.profs \in Seq(Range(m.profs))
            BY ScenariosAssumption DEF S
        <3>3. \A m \in Range(S.nodes) : IsFiniteSet(Range(m.profs))
            BY <3>2, FiniteRange
        <3>. QED
            BY <3>1, <3>3
    <2>2. IsFiniteSet(Range(S.nodes))
        <3>1. S.nodes \in Seq(Range(S.nodes))
            BY ScenariosAssumption DEF S
        <3>. QED
            BY <3>1, FiniteRange
    <2>3. P = UNION {f[n] : n \in Range(S.nodes)}
        OBVIOUS
    <2>. HIDE DEF f, P
    <2>4. IsFiniteSet(UNION {f[n] : n \in Range(S.nodes)})
        BY <2>1, <2>2, FiniteUnion
    <2>. QED
        BY <2>3, <2>4
<1>3. IsFiniteSet(A)
    <2>. DEFINE f == [p \in P |-> {<<"irc", p.name>>}]
    <2>1. \A p \in P : IsFiniteSet(f[p])
        BY FS_Singleton
    <2>2. A = UNION {f[p] : p \in P}
        OBVIOUS
    <2>. HIDE DEF f, P, A
    <2>3. IsFiniteSet(UNION {f[p] : p \in P})
        BY <1>2, <2>1, FiniteUnion
    <2>. QED
        BY <2>2, <2>3
<1>4. IsFiniteSet(B)
    <2>. DEFINE f == [t \in Tgens(S) |-> {TgenModel(t)}]
    <2>1. \A t \in Tgens(S) : IsFiniteSet(f[t])
        BY FS_Singleton
    <2>2. B = UNION {f[t] : t \in Tgens(S)}
        OBVIOUS
    <2>. HIDE DEF f, B
    <2>3. IsFiniteSet(UNION {f[t] : t \in Tgens(S)})
        BY <2>1, TgensFacts, FiniteUnion
    <2>. QED
        BY <2>2, <2>3
<1>5. IsFiniteSet(C)
    <2>1. IsFiniteSet({"skyhook", "mastodon"}) /\ IsFiniteSet({"client", "server"})
        BY FiniteFew
    <2>2. IsFiniteSet(hcs_channel_models(S) \cap {"skyhook", "mastodon"})
        BY <2>1, FS_Intersection
    <2>. QED
        BY <2>1, <2>2, FS_Product
<1>. HIDE DEF A, B, C
<1>6. IsFiniteSet(A \cup B)
    BY <1>3, <1>4, FS_Union
<1>. QED
    BY <1>1, <1>5, <1>6, FS_Union

\* Two ways to write a set that tell its elements apart write as much.
LEMMA SameSize ==
    ASSUME NEW M, IsFiniteSet(M), NEW f, NEW g, \A m, n \in M : f[m] = f[n] => m = n, \A m, n \in M : g[m] = g[n] => m = n
    PROVE  Cardinality({f[m] : m \in M}) = Cardinality({g[m] : m \in M})
<1>1. ASSUME NEW h, \A m, n \in M : h[m] = h[n] => m = n
      PROVE  Cardinality({h[m] : m \in M}) = Cardinality(M)
    <2>. DEFINE k == [m \in M |-> h[m]]
                T == {h[m] : m \in M}
    <2>1. k \in [M -> T] /\ (\A x \in T : \E m \in M : k[m] = x) /\ \A m \in M : k[m] = h[m]
        OBVIOUS
    <2>. HIDE DEF k, T
    <2>2. k \in Bijection(M, T)
        BY <1>1, <2>1 DEF Bijection, Injection, Surjection, IsInjective
    <2>3. ExistsBijection(M, T)
        BY <2>2 DEF ExistsBijection
    <2>4. Cardinality(T) = Cardinality(M)
        BY <2>3, FS_Bijection
    <2>. QED
        BY <2>4 DEF T
<1>2. Cardinality({f[m] : m \in M}) = Cardinality(M)
    BY <1>1
<1>3. Cardinality({g[m] : m \in M}) = Cardinality(M)
    BY <1>1
<1>. QED
    BY <1>2, <1>3

\* One more in front of a sequence.
LEMMA InFront ==
    ASSUME NEW V, NEW x \in V, NEW s \in Seq(V), s # <<>>
    PROVE  /\ (<<x>> \o s)[1] = x /\ Len(<<x>> \o s) = Len(s) + 1
           /\ (<<x>> \o s)[Len(s) + 1] = s[Len(s)]
<1>1. <<x>> \in Seq(V) /\ Len(<<x>>) = 1 /\ <<x>>[1] = x
    OBVIOUS
<1>2. Len(s) \in Nat /\ Len(s) # 0
    OBVIOUS
<1>. DEFINE a == <<x>>
<1>. HIDE DEF a
<1>3. /\ Len(a \o s) = 1 + Len(s)
      /\ \A i \in 1 .. 1 + Len(s) : (a \o s)[i] = IF i <= 1 THEN a[i] ELSE s[i - 1]
    BY <1>1 DEF a
<1>4. 1 \in 1 .. 1 + Len(s) /\ Len(s) + 1 \in 1 .. 1 + Len(s) /\ ~(Len(s) + 1 <= 1) /\ (Len(s) + 1) - 1 = Len(s) /\ 1 <= 1
      /\ 1 + Len(s) = Len(s) + 1
    BY <1>2
<1>5. (a \o s)[1] = x
    BY <1>1, <1>3, <1>4 DEF a
<1>6. (a \o s)[Len(s) + 1] = s[Len(s)]
    BY <1>3, <1>4
<1>. QED
    BY <1>3, <1>4, <1>5, <1>6 DEF a

\* The kinds of the generators' models.
TgenKinds == {"mastodon-tgen", "ftp-tgen", "dns-tgen", "minio-tgen", "gorilla-tgen", "irc-tgen"}

\* A model is of one of these kinds, or a channel's, at either end, or a user's.
LEMMA ModelKinds ==
    ASSUME scenario \in Scenarios, ScenarioRead, NEW m \in ModelFiles(S)
    PROVE  /\ m = <<m[1], m[2]>> /\ m[1] \in {"irc", "skyhook", "mastodon"} \cup TgenKinds
           /\ m[1] \in {"skyhook", "mastodon"} => m[2] \in {"client", "server"}
<1>1. CASE \E t \in Tgens(S) : m = TgenModel(t)
    <2>1. PICK t \in Tgens(S) : m = TgenModel(t)
        BY <1>1
    <2>2. t.type \in TgenTypes
        BY ReadTgens
    <2>3. m = <<m[1], m[2]>> /\ m[1] \in TgenKinds
        BY <2>1, <2>2 DEF TgenModel, TgenTypes, TgenKinds
    <2>. QED
        BY <2>3 DEF TgenKinds
<1>2. CASE m \in {<<"irc", p.name>> : p \in UNION {Range(LastNode(S, n.channel).profs) : n \in Range(S.nodes)}}
    BY <1>2
<1>3. CASE m \in (hcs_channel_models(S) \cap {"skyhook", "mastodon"}) \X {"client", "server"}
    BY <1>3
<1>. QED
    BY <1>1, <1>2, <1>3 DEF ModelFiles

\* The file of a model, and the generator's name for its module.
LEMMA ModelFileFacts ==
    ASSUME scenario \in Scenarios, ScenarioRead, NEW m \in ModelFiles(S)
    PROVE  /\ \E d \in {"action_models", "user_models", "tgen_user_models"} : ModelFile(m).dir = <<d, m[1]>>
           /\ ModelFile(m).stem = IF m[1] \in {"skyhook", "mastodon"} THEN m ELSE <<m[2]>>
           /\ LET name == ModelModule(S, m).name
              IN name[1] = m[1] /\ name[Len(ModelFile(m).stem) + 1] = m[2]
<1>1. m = <<m[1], m[2]>> /\ m[1] \in {"irc", "skyhook", "mastodon"} \cup TgenKinds
    BY ModelKinds
<1>2. /\ \E d \in {"action_models", "user_models", "tgen_user_models"} : ModelFile(m).dir = <<d, m[1]>>
      /\ ModelFile(m).stem = IF m[1] \in {"skyhook", "mastodon"} THEN m ELSE <<m[2]>>
    <2>1. CASE m[1] \in {"skyhook", "mastodon"}
        BY <2>1 DEF ModelFile, Channels
    <2>2. CASE m[1] = "irc"
        BY <2>2 DEF ModelFile, Channels
    <2>3. CASE m[1] \in TgenKinds
        <3>1. m[1] \notin Channels /\ m[1] # "irc" /\ m[1] \notin {"skyhook", "mastodon"}
            BY <2>3 DEF TgenKinds, Channels
        <3>. QED
            BY <3>1 DEF ModelFile
    <2>. QED
        BY <1>1, <2>1, <2>2, <2>3
<1>. DEFINE stem == ModelFile(m).stem
            V == {m[1], m[2]}
<1>3. stem \in Seq(V) /\ stem # <<>> /\ stem[Len(stem)] = m[2]
    <2>1. CASE m[1] \in {"skyhook", "mastodon"}
        <3>1. stem = <<m[1], m[2]>>
            BY <1>1, <1>2, <2>1
        <3>. QED
            BY <3>1
    <2>2. CASE m[1] \notin {"skyhook", "mastodon"}
        <3>1. stem = <<m[2]>>
            BY <1>2, <2>2
        <3>. QED
            BY <3>1
    <2>. QED
        BY <2>1, <2>2
<1>4. ModelModule(S, m).name = <<m[1]>> \o stem
    BY DEF ModelModule
<1>. HIDE DEF stem
<1>5. (<<m[1]>> \o stem)[1] = m[1] /\ (<<m[1]>> \o stem)[Len(stem) + 1] = m[2]
    BY <1>3, InFront
<1>. QED
    BY <1>2, <1>4, <1>5 DEF stem

\* No two models have the same file or module.
LEMMA ModelsApart ==
    ASSUME scenario \in Scenarios, ScenarioRead, NEW m \in ModelFiles(S), NEW n \in ModelFiles(S)
    PROVE  /\ ModelFile(m) = ModelFile(n) => m = n
           /\ ModelModule(S, m) = ModelModule(S, n) => m = n
<1>1. m = <<m[1], m[2]>> /\ n = <<n[1], n[2]>>
    BY ModelKinds
<1>2. ASSUME m[1] = n[1], ModelFile(m).stem = ModelFile(n).stem PROVE m = n
    <2>1. CASE m[1] \in {"skyhook", "mastodon"}
        BY <1>2, <2>1, ModelFileFacts
    <2>2. CASE m[1] \notin {"skyhook", "mastodon"}
        <3>1. <<m[2]>> = <<n[2]>>
            BY <1>2, <2>2, ModelFileFacts
        <3>2. m[2] = n[2]
            BY <3>1
        <3>. QED
            BY <1>1, <1>2, <3>2
    <2>. QED
        BY <2>1, <2>2
<1>3. ASSUME ModelFile(m) = ModelFile(n) PROVE m = n
    <2>1. (\E d : ModelFile(m).dir = <<d, m[1]>>) /\ \E d : ModelFile(n).dir = <<d, n[1]>>
        BY ModelFileFacts
    <2>2. m[1] = n[1]
        BY <1>3, <2>1
    <2>. QED
        BY <1>2, <1>3, <2>2
<1>4. ASSUME ModelModule(S, m) = ModelModule(S, n) PROVE m = n
    <2>1. m[1] = n[1]
        BY <1>4, ModelFileFacts
    <2>2. Len(ModelFile(m).stem) = Len(ModelFile(n).stem)
        <3>1. CASE m[1] \in {"skyhook", "mastodon"}
            <4>1. ModelFile(m).stem = <<m[1], m[2]>> /\ ModelFile(n).stem = <<n[1], n[2]>>
                BY <1>1, <2>1, <3>1, ModelFileFacts
            <4>. QED
                BY <4>1
        <3>2. CASE m[1] \notin {"skyhook", "mastodon"}
            <4>1. ModelFile(m).stem = <<m[2]>> /\ ModelFile(n).stem = <<n[2]>>
                BY <2>1, <3>2, ModelFileFacts
            <4>. QED
                BY <4>1
        <3>. QED
            BY <3>1, <3>2
    <2>3. m[2] = n[2]
        BY <1>4, <2>2, ModelFileFacts
    <2>. QED
        BY <1>1, <2>1, <2>3
<1>. QED
    BY <1>3, <1>4

\* Nor for the script, whose DNS and Mastodon generators have theirs from the library.
LEMMA ScriptModelsApart ==
    ASSUME scenario \in Scenarios, ScenarioRead, NEW m \in ModelFiles(S), NEW n \in ModelFiles(S)
    PROVE  /\ ScriptModelFile(m) = ScriptModelFile(n) => m = n
           /\ ScriptModule(S, m) = ScriptModule(S, n) => m = n
<1>. DEFINE Lib(x) == x[1] \in {"dns-tgen", "mastodon-tgen"}
            Own(x) == x[1] \in {"skyhook", "mastodon"}
            Short(x) == IF x[1] = "dns-tgen" THEN "dns" ELSE "mastodon"
<1>1. \A x \in {m, n} : /\ x = <<x[1], x[2]>> /\ x[1] \in {"irc", "skyhook", "mastodon"} \cup TgenKinds
                        /\ Own(x) => x[2] \in {"client", "server"}
    BY ModelKinds
<1>2. \A x \in {m, n} : /\ Lib(x) => ScriptModelFile(x) = [dir |-> <<"lib", Short(x)>>, stem |-> <<"config", x[2]>>]
                        /\ ~Lib(x) => ScriptModelFile(x) = ModelFile(x)
    BY DEF ScriptModelFile
<1>3. \A x \in {m, n} : ModelFile(x).dir[1] # "lib"
    <2>. SUFFICES ASSUME NEW x \in {m, n} PROVE ModelFile(x).dir[1] # "lib"
        OBVIOUS
    <2>1. PICK d \in {"action_models", "user_models", "tgen_user_models"} : ModelFile(x).dir = <<d, x[1]>>
        BY ModelFileFacts
    <2>. QED
        BY <2>1
<1>4. \A x \in {m, n} : /\ Own(x) => ScriptModule(S, x) = [name |-> x, version |-> 1]
                        /\ Lib(x) => ScriptModule(S, x) = [name |-> <<Short(x), "config", x[2]>>, version |-> 1]
                        /\ ~Own(x) /\ ~Lib(x) => ScriptModule(S, x) = ModelModule(S, x)
    <2>. SUFFICES ASSUME NEW x \in {m, n}
                  PROVE  /\ Own(x) => ScriptModule(S, x) = [name |-> x, version |-> 1]
                         /\ Lib(x) => ScriptModule(S, x) = [name |-> <<Short(x), "config", x[2]>>, version |-> 1]
                         /\ ~Own(x) /\ ~Lib(x) => ScriptModule(S, x) = ModelModule(S, x)
        OBVIOUS
    <2>1. CASE Own(x)
        BY <2>1 DEF ScriptModule, Channels
    <2>2. CASE Lib(x)
        BY <2>2 DEF ScriptModule, Channels
    <2>3. CASE ~Own(x) /\ ~Lib(x)
        <3>1. x[1] \notin Channels
            BY <1>1, <2>3 DEF Channels, TgenKinds
        <3>. QED
            BY <2>3, <3>1 DEF ScriptModule
    <2>. QED
        BY <2>1, <2>2, <2>3
<1>5. ASSUME ScriptModelFile(m) = ScriptModelFile(n) PROVE m = n
    <2>1. CASE Lib(m) /\ Lib(n)
        <3>1. <<"lib", Short(m)>> = <<"lib", Short(n)>> /\ <<"config", m[2]>> = <<"config", n[2]>>
            BY <1>2, <1>5, <2>1
        <3>2. Short(m) = Short(n) /\ m[2] = n[2]
            BY <3>1
        <3>. QED
            BY <1>1, <2>1, <3>2
    <2>2. CASE ~Lib(m) /\ ~Lib(n)
        BY <1>2, <1>5, <2>2, ModelsApart
    <2>3. CASE Lib(m) # Lib(n)
        <3>1. \A x \in {m, n} : Lib(x) <=> ScriptModelFile(x).dir[1] = "lib"
            BY <1>2, <1>3
        <3>. QED
            BY <1>5, <2>3, <3>1
    <2>. QED
        BY <2>1, <2>2, <2>3
<1>6. ASSUME ScriptModule(S, m) = ScriptModule(S, n) PROVE m = n
    <2>. DEFINE name == ScriptModule(S, m).name
    <2>1. name = ScriptModule(S, n).name
        BY <1>6
    <2>2. \A x \in {m, n} : ModelModule(S, x).name[1] = x[1]
        BY ModelFileFacts
    <2>3. /\ \A x \in {m, n} : Own(x) => ScriptModule(S, x).name[1] = x[1] /\ ScriptModule(S, x).name[2] = x[2]
          /\ \A x \in {m, n} : Lib(x) => ScriptModule(S, x).name[1] = Short(x) /\ ScriptModule(S, x).name[2] = "config"
                                         /\ ScriptModule(S, x).name[3] = x[2]
          /\ \A x \in {m, n} : ~Own(x) /\ ~Lib(x) => ScriptModule(S, x).name[1] = x[1]
        BY <1>4, <2>2
    <2>4. CASE Own(m) /\ Own(n)
        BY <1>1, <2>1, <2>3, <2>4
    <2>5. CASE Lib(m) /\ Lib(n)
        <3>1. Short(m) = Short(n) /\ m[2] = n[2]
            BY <2>1, <2>3, <2>5
        <3>. QED
            BY <1>1, <2>5, <3>1
    <2>6. CASE ~Own(m) /\ ~Lib(m) /\ ~Own(n) /\ ~Lib(n)
        BY <1>4, <1>6, <2>6, ModelsApart
    <2>7. \A x \in {m, n} : ~Own(x) /\ ~Lib(x) => x[1] \notin {"skyhook", "mastodon", "dns"}
        BY <1>1 DEF TgenKinds
    <2>. HIDE DEF name
    <2>8. CASE \E x, y \in {m, n} : Own(x) /\ Lib(y)
        BY <1>1, <1>6, <2>3, <2>8
    <2>9. CASE \E x, y \in {m, n} : (Own(x) \/ Lib(x)) /\ ~Own(y) /\ ~Lib(y)
        BY <1>6, <2>3, <2>7, <2>9
    <2>. QED
        BY <2>4, <2>5, <2>6, <2>8, <2>9
<1>. QED
    BY <1>5, <1>6

\* What actors use is included, and each model is loaded from a file of its own.
LEMMA ModelsIncluded ==
    ASSUME scenario \in Scenarios, ScenarioRead, ProfilesReach(S), ModelsGiven(S), NEW tool
    PROVE  LET out == Output(tool, S)
           IN Range(out.uses) \subseteq out.includes /\ Cardinality(out.loads) = Cardinality(out.includes)
<1>. DEFINE out == Output(tool, S)
            models == {a.model : a \in out.defined} \ {NoModel}
            M == ModelFiles(S)
            file == [m \in M |-> IF tool = "generate" THEN ModelFile(m) ELSE ScriptModelFile(m)]
            module == [m \in M |-> IF tool = "generate" THEN ModelModule(S, m) ELSE ScriptModule(S, m)]
<1>1. models \subseteq M
    BY BothDefine, ModelsLoaded
<1>2. /\ out.loads = {file[m] : m \in M} /\ out.includes = {module[m] : m \in M}
      /\ \A m \in models : out.uses[m] = module[m]
      /\ DOMAIN out.uses = models
    <2>1. CASE tool = "generate"
        <3>1. /\ out.loads = {ModelFile(m) : m \in M} /\ out.includes = {ModelModule(S, m) : m \in M}
              /\ out.defined = DefinedActors(S)
              /\ out.uses = [m \in {a.model : a \in DefinedActors(S)} \ {NoModel} |-> ModelModule(S, m)]
            BY <2>1 DEF Output, GenOutput
        <3>2. out.uses = [m \in models |-> ModelModule(S, m)]
            BY <3>1
        <3>. HIDE DEF M, models, out
        <3>3. \A m \in M : file[m] = ModelFile(m) /\ module[m] = ModelModule(S, m)
            BY <2>1
        <3>. HIDE DEF file, module
        <3>. QED
            BY <1>1, <3>1, <3>2, <3>3
    <2>2. CASE tool # "generate"
        <3>1. /\ out.loads = {ScriptModelFile(m) : m \in M} /\ out.includes = {ScriptModule(S, m) : m \in M}
              /\ out.uses = [m \in models |-> ScriptModule(S, m)]
            BY <2>2 DEF Output, ScriptOutput, ScriptLoads, ScriptIncludes
        <3>. HIDE DEF M, models, out
        <3>3. \A m \in M : file[m] = ScriptModelFile(m) /\ module[m] = ScriptModule(S, m)
            BY <2>2
        <3>. HIDE DEF file, module
        <3>. QED
            BY <1>1, <3>1, <3>3
    <2>. QED
        BY <2>1, <2>2
<1>3. \A m, n \in M : (file[m] = file[n] => m = n) /\ (module[m] = module[n] => m = n)
    <2>. SUFFICES ASSUME NEW m \in M, NEW n \in M PROVE (file[m] = file[n] => m = n) /\ (module[m] = module[n] => m = n)
        OBVIOUS
    <2>1. CASE tool = "generate"
        BY <2>1, ModelsApart
    <2>2. CASE tool # "generate"
        BY <2>2, ScriptModelsApart
    <2>. QED
        BY <2>1, <2>2
<1>4. IsFiniteSet(M)
    BY ModelsFinite
<1>. HIDE DEF file, module, M, models, out
<1>5. Cardinality({file[m] : m \in M}) = Cardinality({module[m] : m \in M})
    BY <1>3, <1>4, SameSize
<1>6. Range(out.uses) \subseteq out.includes
    BY <1>1, <1>2 DEF Range
<1>. QED
    BY <1>2, <1>5, <1>6 DEF out

-----------------------------------------------------------------------------
(* The addresses that are declared. *)

\* What one declaration declares.
SharedAddrs == {Shared(r) : r \in SharedRoles}
EntryAddrs(s, k, l) ==
    {OfClient(s.nodes[k].channel, FirstClient(s, k) + l - 1, r) : r \in ChannelRoles[s.nodes[k].channel]}
TgenAddrs(t) == {OfTgen(t, r) : r \in TgenRoles[t.type]}

\* The declarations of either tool.
LEMMA Declarations ==
    ASSUME scenario \in Scenarios, ScenarioRead, NEW tool
    PROVE  LET declared == Range(Output(tool, S).declared)
           IN /\ SharedAddrs \in declared
              /\ \A k \in DOMAIN S.nodes : \A l \in 1 .. S.nodes[k].qty : EntryAddrs(S, k, l) \in declared
              /\ \A t \in Tgens(S) : TgenAddrs(t) \in declared
              /\ tool # "generate" => {Shared("iodineMonitorAddr")} \in declared
<1>. DEFINE gens == generate_all_tgen_instances(S)
            n == Len(S.nodes)
            Mon == {Shared("iodineMonitorAddr")}
            V == {SharedAddrs, Mon} \cup (UNION {{EntryAddrs(S, k, l) : l \in 1 .. S.nodes[k].qty} : k \in DOMAIN S.nodes})
                   \cup {TgenAddrs(t) : t \in Tgens(S)}
            a == <<SharedAddrs>>
            seqs == [k \in DOMAIN S.nodes |-> [l \in 1 .. S.nodes[k].qty |-> EntryAddrs(S, k, l)]]
            b == FlattenSeq(seqs)
            c == [k \in DOMAIN gens |-> TgenAddrs(gens[k])]
<1>1. gen_addresses_file(S) = (a \o b) \o c
    BY DEF gen_addresses_file, SharedAddrs, EntryAddrs, TgenAddrs
<1>2. DOMAIN S.nodes = 1 .. n /\ n \in Nat /\ \A k \in DOMAIN S.nodes : S.nodes[k].qty \in Nat
    BY FirstClients DEF ScenarioRead, ScenarioAccepted
<1>3. a \in Seq(V) /\ Range(a) = {SharedAddrs}
    BY DEF Range
<1>4. <<Mon>> \in Seq(V) /\ Range(<<Mon>>) = {Mon}
    BY DEF Range
<1>5. \A k \in DOMAIN S.nodes : seqs[k] = [l \in 1 .. S.nodes[k].qty |-> EntryAddrs(S, k, l)]
    OBVIOUS
<1>6. ASSUME NEW k \in DOMAIN S.nodes
      PROVE  seqs[k] \in Seq(V) /\ \A l \in 1 .. S.nodes[k].qty : EntryAddrs(S, k, l) \in Range(seqs[k])
    <2>. DEFINE f == [l \in 1 .. S.nodes[k].qty |-> EntryAddrs(S, k, l)]
    <2>1. \A l \in 1 .. S.nodes[k].qty : EntryAddrs(S, k, l) \in V
        OBVIOUS
    <2>. HIDE DEF V
    <2>2. f \in [1 .. S.nodes[k].qty -> V]
        BY <2>1
    <2>3. f \in Seq(V) /\ DOMAIN f = 1 .. S.nodes[k].qty
        BY <1>2, <2>2, SeqOfFunction
    <2>. QED
        BY <1>5, <2>3 DEF Range
<1>7. seqs \in Seq(Seq(V)) /\ DOMAIN seqs = DOMAIN S.nodes
    <2>. DEFINE W == Seq(V)
    <2>1. seqs \in [1 .. n -> W]
        BY <1>2, <1>6
    <2>. HIDE DEF W, seqs
    <2>2. seqs \in Seq(W)
        BY <1>2, <2>1, SeqOfFunction
    <2>. QED
        BY <1>2, <2>1, <2>2 DEF W
<1>8. c \in Seq(V) /\ \A t \in Tgens(S) : TgenAddrs(t) \in Range(c)
    <2>1. gens \in Seq(Tgens(S)) /\ Range(gens) = Tgens(S)
        BY TgensApart DEF Lists, Tgens
    <2>2. Len(gens) \in Nat /\ DOMAIN gens = 1 .. Len(gens) /\ \A k \in DOMAIN gens : gens[k] \in Tgens(S)
        BY <2>1
    <2>3. \A t \in Tgens(S) : TgenAddrs(t) \in V
        OBVIOUS
    <2>4. DOMAIN c = DOMAIN gens /\ \A k \in DOMAIN gens : c[k] = TgenAddrs(gens[k])
        OBVIOUS
    <2>5. c = [k \in 1 .. Len(gens) |-> c[k]]
        BY <2>2
    <2>. HIDE DEF c, V, gens
    <2>6. c \in [1 .. Len(gens) -> V]
        BY <2>2, <2>3, <2>4, <2>5
    <2>7. c \in Seq(V)
        BY <2>2, <2>6, SeqOfFunction
    <2>8. \A t \in Tgens(S) : \E k \in DOMAIN gens : gens[k] = t
        BY <2>1 DEF Range
    <2>. QED
        BY <2>4, <2>7, <2>8 DEF Range
<1>. HIDE DEF V, a, seqs, c
<1>9. b \in Seq(V) /\ Range(b) = UNION {Range(seqs[k]) : k \in DOMAIN seqs}
    BY <1>7, FlattenFacts
<1>. HIDE DEF b
<1>10. a \o b \in Seq(V)
    BY <1>3, <1>9
<1>. DEFINE ab == a \o b
<1>. HIDE DEF ab
<1>11. ab \in Seq(V) /\ Range(ab) = Range(a) \cup Range(b)
    BY <1>3, <1>9, <1>10, ConcatRange DEF ab
<1>12. ab \o c \in Seq(V)
    BY <1>8, <1>11
<1>. DEFINE file == ab \o c
<1>. HIDE DEF file
<1>13. file \in Seq(V) /\ Range(file) = Range(ab) \cup Range(c)
    BY <1>8, <1>12, <1>11, ConcatRange DEF file
<1>. DEFINE mon == <<Mon>>
<1>14. mon \in Seq(V) /\ Range(mon) = {Mon}
    BY <1>4
<1>. HIDE DEF mon
<1>15. Range(mon \o file) = Range(mon) \cup Range(file)
    BY <1>13, <1>14, ConcatRange
<1>16. \/ Output(tool, S).declared = file
       \/ Output(tool, S).declared = mon \o file
    BY <1>1 DEF Output, GenOutput, ScriptOutput, ScriptAddressesFile, file, ab, mon
<1>17. tool # "generate" => Output(tool, S).declared = mon \o file
    BY <1>1 DEF Output, ScriptOutput, ScriptAddressesFile, file, ab, mon
<1>18. Range(file) = Range(a) \cup Range(b) \cup Range(c)
    BY <1>11, <1>13
<1>19. \A k \in DOMAIN S.nodes : \A l \in 1 .. S.nodes[k].qty : EntryAddrs(S, k, l) \in Range(b)
    BY <1>6, <1>7, <1>9
<1>. HIDE DEF Mon
<1>20. Range(file) \subseteq Range(Output(tool, S).declared) /\ (tool # "generate" => Mon \in Range(Output(tool, S).declared))
    BY <1>14, <1>15, <1>16, <1>17
<1>. QED
    BY <1>3, <1>8, <1>18, <1>19, <1>20 DEF Mon

\* Where an actor is is declared.
LEMMA AllDeclared ==
    ASSUME scenario \in Scenarios, ScenarioRead, NEW tool, NEW a \in Output(tool, S).defined
    PROVE  a.at \in UNION Range(Output(tool, S).declared)
<1>. DEFINE declared == Range(Output(tool, S).declared)
<1>1. a \in AllActors(S)
    BY BothDefine
<1>2. \A n \in Range(S.nodes) : n.qty > 0
    BY DEF ScenarioRead, ScenarioAccepted
<1>3. \A t \in Tgens(S) : t.type \in TgenTypes
    BY ReadTgens
<1>4. BaseRoles \cup (ResolverRoles \cup ZoneRoles \cup {"publicResolverNetSrvAddr"}) \cup TgenServerRoles \subseteq SharedRoles
    BY DEF SharedRoles, BaseRoles, ResolverRoles, ZoneRoles, TgenServerRoles
<1>5. \A role \in SharedRoles : Shared(role) \in UNION declared
    <2>1. SharedAddrs \in declared
        BY Declarations
    <2>2. \A role \in SharedRoles : Shared(role) \in SharedAddrs
        BY DEF SharedAddrs
    <2>. QED
        BY <2>1, <2>2
<1>6. CASE a \in BaseActors \cup DnsActors \cup TgenServerActors(S)
    <2>1. \E role \in SharedRoles : a.at = OfClient("shared", 0, role)
        BY <1>4, <1>6, BaseFilled, DnsFilled, TgenServersFilled DEF RolesFilled
    <2>. QED
        BY <1>5, <2>1, SharedIs
<1>7. CASE a \in ScriptBase /\ a \notin BaseActors
    <2>1. a = Actor(Shared("iodineMonitor"), Shared("iodineMonitorAddr"), {}, NoModel)
        BY <1>7 DEF ScriptBase
    <2>2. a.at = Shared("iodineMonitorAddr") /\ a.at[1] = "shared" /\ a.at[4] = "iodineMonitorAddr"
        BY <2>1, ActorFields, AddressFields
    <2>3. CASE tool # "generate"
        BY <2>2, <2>3, Declarations
    <2>4. CASE tool = "generate"
        <3>1. a \in DefinedActors(S)
            BY <2>4 DEF Output, GenOutput
        <3>2. ASSUME NEW ch \in Channels, a \in ChannelActors(S, ch) PROVE FALSE
            <4>1. a \in UNION {ClientActors(ch, i, ClientProfile(S, ch, i)) : i \in Range(ClientIds(S, ch))}
                BY <3>2, ClientsHere
            <4>2. \E i : OfAClient(S, a, ch, i)
                BY <4>1 DEF OfAClient
            <4>3. a.at[1] = ch
                BY <4>2, OwnerAddresses
            <4>. QED
                BY <2>2, <4>3 DEF Channels
        <3>3. ASSUME NEW t \in Tgens(S), a \in TgenActors(t) PROVE FALSE
            <4>1. a.at[1] = t.type /\ t.type \in TgenTypes
                BY <1>3, <3>3, OwnerAddresses
            <4>. QED
                BY <2>2, <4>1 DEF TgenTypes
        <3>4. a \in BaseActors \cup DnsActors \cup TgenServerActors(S)
            BY <3>1, <3>2, <3>3 DEF DefinedActors
        <3>. QED
            BY <1>6, <3>4
    <2>. QED
        BY <2>3, <2>4
<1>8. ASSUME NEW ch, NEW i, OfAClient(S, a, ch, i) PROVE a.at \in UNION declared
    <2>1. ch \in Channels /\ i \in Range(ClientIds(S, ch))
        BY <1>8 DEF OfAClient
    <2>2. PICK role \in PlacedRoles(ch) : a.at = OfClient(ch, i, role)
        BY <1>8, <2>1, ClientFilled DEF OfAClient, RolesFilled
    <2>3. PICK k \in DOMAIN S.nodes : S.nodes[k].channel = ch /\ i \in Range(EntryIds(S, ch, k))
        BY <1>2, <2>1, ClientEntry
    <2>4. PICK l \in 1 .. S.nodes[k].qty : i = FirstClient(S, k) + l - 1
        BY <2>3 DEF EntryIds, Range
    <2>5. role \in ChannelRoles[ch]
        BY DEF PlacedRoles
    <2>6. a.at \in EntryAddrs(S, k, l)
        BY <2>2, <2>3, <2>4, <2>5 DEF EntryAddrs
    <2>7. EntryAddrs(S, k, l) \in declared
        BY Declarations
    <2>. QED
        BY <2>6, <2>7
<1>9. ASSUME NEW t \in Tgens(S), a \in TgenActors(t) PROVE a.at \in UNION declared
    <2>1. a.at \in TgenAddrs(t)
        BY <1>3, <1>9, OwnerAddresses DEF TgenAddrs
    <2>2. TgenAddrs(t) \in declared
        BY Declarations
    <2>. QED
        BY <2>1, <2>2
<1>. QED
    BY <1>1, <1>6, <1>7, <1>8, <1>9, Owners DEF SharedActorsOf

-----------------------------------------------------------------------------
(* As many user models as clients. *)

\* Names tell shared actors from others.
LEMMA SharedNamed ==
    ASSUME NEW s, NEW a \in SharedActorsOf(s)
    PROVE  a.name[1] = "shared"
<1>1. \A role, at, refs, model : Actor(Shared(role), at, refs, model).name[1] = "shared"
    BY ActorFields, AddressFields
<1>2. CASE a \in ScriptBase
    BY <1>1, <1>2 DEF ScriptBase, BaseActors
<1>3. CASE a \in DnsActors
    <2>1. \/ \E r \in Resolvers : a = Actor(Shared(r.dns), Shared(r.dns), {Shared(r.cl)}, NoModel)
          \/ \E r \in Resolvers : a = Actor(Shared(r.cl), Shared(r.cl), {Shared("publicResolverNetSrvAddr"),
                                          Shared("publicDnsAddr"), Shared(r.dns)}, NoModel)
          \/ \E z : a = Actor(Shared(z), Shared(z), {}, NoModel)
          \/ a = Actor(Shared("publicResolverNetSrvAddr"), Shared("publicResolverNetSrvAddr"),
                       {Shared("publicDnsAddr")}, NoModel)
        BY <1>3 DEF DnsActors
    <2>2. CASE \E r \in Resolvers : a = Actor(Shared(r.dns), Shared(r.dns), {Shared(r.cl)}, NoModel)
        BY <1>1, <2>2
    <2>3. CASE \E r \in Resolvers : a = Actor(Shared(r.cl), Shared(r.cl), {Shared("publicResolverNetSrvAddr"),
                                          Shared("publicDnsAddr"), Shared(r.dns)}, NoModel)
        <3>1. PICK role, at, refs, model : a = Actor(Shared(role), at, refs, model)
            BY <2>3
        <3>. QED
            BY <1>1, <3>1
    <2>4. CASE \E z : a = Actor(Shared(z), Shared(z), {}, NoModel)
        BY <1>1, <2>4
    <2>. QED
        BY <1>1, <2>1, <2>2, <2>3, <2>4
<1>4. CASE a \in TgenServerActors(s)
    BY <1>1, <1>4 DEF TgenServerActors
<1>. QED
    BY <1>2, <1>3, <1>4 DEF SharedActorsOf

\* The user models of a channel.
ChannelUsers(tool, ch) == {a \in PlacedBy(Output(tool, S)) : a.name[1] = ch /\ a.name[4] = "Um"}

\* There is one for each client.
LEMMA UsersCounted ==
    ASSUME scenario \in Scenarios, ScenarioRead, NEW tool, NEW ch \in Channels
    PROVE  Cardinality(ChannelUsers(tool, ch)) = SumTo(ChannelQtys(S, ch), Len(S.nodes))
<1>. DEFINE users == ChannelUsers(tool, ch)
            ids == Range(ClientIds(S, ch))
            f == [a \in users |-> a.at[3]]
<1>1. \A t \in Tgens(S) : t.type \in TgenTypes
    BY ReadTgens
<1>2. "shared" \notin Channels /\ Channels \cap TgenTypes = {}
    BY DEF Channels, TgenTypes
<1>3. ASSUME NEW a \in users
      PROVE  a \in AllActors(S) /\ a.at[3] \in ids /\ a.at = OfClient(ch, a.at[3], AddrRole(ch, "Um"))
    <2>1. a \in AllActors(S) /\ a.name[1] = ch /\ a.name[4] = "Um"
        BY BothDefine DEF ChannelUsers, PlacedBy
    <2>2. a \notin SharedActorsOf(S)
        BY <1>2, <2>1, SharedNamed
    <2>3. ASSUME NEW t \in Tgens(S), a \in TgenActors(t) PROVE FALSE
        <3>1. \E role \in PlacedNames[t.type] : TgenIs(a, t, role)
            BY <1>1, <2>3, TgensNamed DEF TgenNamed
        <3>2. a.name[1] = t.type
            BY <3>1, AddressFields DEF TgenIs
        <3>. QED
            BY <1>1, <1>2, <2>1, <3>2
    <2>4. PICK c, i : OfAClient(S, a, c, i)
        BY <2>1, <2>2, <2>3, Owners
    <2>5. RoleOf(a, c, i, PlacedNames[c])
        BY <2>4, ClientNamed2 DEF OfAClient, Named
    <2>6. PICK role : a.name = OfClient(c, i, role) /\ a.at = OfClient(c, i, AddrRole(c, role))
        BY <2>5 DEF RoleOf
    <2>7. c = ch /\ role = "Um" /\ a.at[3] = i
        BY <2>1, <2>6, AddressFields
    <2>8. i \in ids
        BY <2>4, <2>7 DEF OfAClient
    <2>. QED
        BY <2>1, <2>6, <2>7, <2>8
<1>4. ASSUME NEW i \in ids PROVE \E a \in users : a.at[3] = i
    <2>1. "Um" \in PlacedNames[ch]
        BY DEF PlacedNames, IrcSideNames, Channels
    <2>2. PICK a \in ClientActors(ch, i, ClientProfile(S, ch, i)) : a.name = OfClient(ch, i, "Um")
        BY <2>1, ClientNamed2 DEF Named
    <2>3. RoleOf(a, ch, i, PlacedNames[ch])
        BY <2>2, ClientNamed2 DEF Named
    <2>4. a.at[3] = i
        BY <2>3, AddressFields DEF RoleOf
    <2>5. a \in Output(tool, S).defined
        BY <2>2, ClientsDefined, BothDefine
    <2>6. a.name \in Output(tool, S).names
        BY <2>1, <2>2, PlacedHere, BothDefine
    <2>7. a.name[1] = ch /\ a.name[4] = "Um"
        BY <2>2, AddressFields
    <2>. QED
        BY <2>4, <2>5, <2>6, <2>7 DEF ChannelUsers, PlacedBy
<1>5. f \in [users -> ids] /\ \A a \in users : f[a] = a.at[3]
    BY <1>3
<1>6. ASSUME NEW a \in users, NEW b \in users, a.at[3] = b.at[3] PROVE a = b
    <2>1. a.at = b.at /\ a \in AllActors(S) /\ b \in AllActors(S)
        BY <1>3, <1>6
    <2>. QED
        BY <2>1, AllApart DEF Apart
<1>7. users \subseteq AllActors(S)
    BY <1>3
<1>8. IsFiniteSet(users)
    BY <1>7, ActorsFinite, FS_Subset
<1>. HIDE DEF f, users, ids
<1>9. f \in Bijection(users, ids)
    BY <1>4, <1>5, <1>6 DEF Bijection, Injection, Surjection, IsInjective
<1>10. ExistsBijection(users, ids)
    BY <1>9 DEF ExistsBijection
<1>11. Cardinality(users) = Cardinality(ids)
    BY <1>8, <1>10, FS_Bijection
<1>12. Cardinality(ids) = SumTo(ChannelQtys(S, ch), Len(S.nodes))
    BY ClientsCounted DEF ScenarioRead, ScenarioAccepted, ids
<1>. QED
    BY <1>11, <1>12 DEF users

\* The client and the account holder of the generator begin with the same objects.
LEMMA ObjectsMeet == SkyhookEndsMeet(SkyhookObjects)
<1>1. NextObject(<<"generation", 0>>) = <<"generation", 1>>
    BY DEF NextObject
<1>. QED
    BY <1>1 DEF SkyhookEndsMeet, SkyhookObjects

\* Actors, addresses and modules fit together, whichever tool writes.
LEMMA ActorsMade ==
    ASSUME scenario \in Scenarios, ScenarioRead, ProfilesReach(S), ModelsGiven(S), \A t \in Range(S.tgens) : SharesFit(t)
    PROVE  ActorsFit(Out)
<1>. DEFINE out == Out
            placed == PlacedBy(out)
            at == {a.at : a \in placed}
            defined == {a.name : a \in out.defined}
<1>1. out = Output(job.tool, S)
    BY DEF Out
<1>2. placed \subseteq out.defined /\ out.defined \subseteq AllActors(S)
    BY <1>1, BothDefine DEF PlacedBy
<1>3. \A addr : At(S, addr) => addr \in at
    BY <1>1, AtPlaced
<1>4. \A a \in placed : a.refs \subseteq at
    BY <1>2, <1>3, GivenAt
<1>5. at \subseteq UNION Range(out.declared)
    BY <1>1, <1>2, AllDeclared
<1>6. out.resolved \subseteq at
    BY <1>1, <1>3, ResolvedAt
<1>7. defined \ {Shared("masNetSrv")} \subseteq out.names /\ out.names \subseteq defined
    BY <1>1, NamesMade
<1>8. Cardinality(at) = Cardinality(placed)
    BY <1>2, AddressesCounted
<1>9. Range(out.uses) \subseteq out.includes /\ Cardinality(out.loads) = Cardinality(out.includes)
    BY <1>1, ModelsIncluded
<1>10. job.tool = "generate" => SkyhookEndsMeet(out.objects)
    <2>1. job.tool = "generate" => out.objects = SkyhookObjects
        BY <1>1 DEF Output, GenOutput
    <2>. QED
        BY <2>1, ObjectsMeet
<1>11. ASSUME NEW n \in Range(S.nodes)
       PROVE  Cardinality({a \in placed : a.name[1] = n.channel /\ a.name[4] = "Um"})
                = SumTo([k \in DOMAIN S.nodes |-> IF S.nodes[k].channel = n.channel THEN S.nodes[k].qty ELSE 0], Len(S.nodes))
    <2>1. n.channel \in Channels
        BY ScenariosAssumption DEF S
    <2>2. {a \in placed : a.name[1] = n.channel /\ a.name[4] = "Um"} = ChannelUsers(job.tool, n.channel)
        BY <1>1 DEF ChannelUsers
    <2>3. [k \in DOMAIN S.nodes |-> IF S.nodes[k].channel = n.channel THEN S.nodes[k].qty ELSE 0] = ChannelQtys(S, n.channel)
        BY DEF ChannelQtys
    <2>. QED
        BY <2>1, <2>2, <2>3, UsersCounted
<1>12. ASSUME NEW k \in DOMAIN S.tgens
       PROVE  Cardinality({t \in Tgens(S) : t.type = S.tgens[k].type /\ t.net = S.tgens[k].net}) = S.tgens[k].qty
    <2>1. SharesFit(S.tgens[k])
        BY DEF Range
    <2>. QED
        BY <2>1, EntryCounted
<1>. HIDE DEF out
<1>. QED
    BY <1>4, <1>5, <1>6, <1>7, <1>8, <1>9, <1>10, <1>11, <1>12 DEF ActorsFit, out

-----------------------------------------------------------------------------
(* How far a generator has come with the scenario of its directory: it has read it    *)
(* before it writes addresses or the main file, and given out every profile after;     *)
(* and the main file says whether there are generators.                                *)

Generators == {"generate"} \cup ScriptCallers
BeforeMain == job.tool \in Generators /\ job.step \in {"addresses", "main"}
JustAfterMain == Busy("generate", "quatex") \/ (job.tool \in ScriptCallers /\ job.step = "baseline")

NetworkInv ==
    /\ BeforeMain => ScenarioRead
    /\ JustAfterMain => ScenarioRead /\ MainPossible(S) /\ disk["main"].notgens \in BOOLEAN

\* Before any tool was started nothing was read.
LEMMA InitNetworkInv == Init => NetworkInv
<1>. SUFFICES ASSUME Init PROVE NetworkInv
    OBVIOUS
<1>1. job.tool = "none"
    BY DEF Init, ParallelInit, BaselinesInit, GenInit, Idle
<1>. QED
    BY <1>1 DEF NetworkInv, BeforeMain, JustAfterMain, Generators, ScriptCallers, Busy

\* The scenario is the same after a step.
LEMMA SameRead ==
    ASSUME scenario' = scenario
    PROVE  S' = S /\ ScenarioRead' = ScenarioRead /\ MainPossible(S)' = MainPossible(S)
<1>1. S' = S
    BY DEF S
<1>. QED
    BY <1>1 DEF ScenarioRead

\* A step that does not get there keeps the invariant.
LEMMA NotThere ==
    ASSUME NetworkInv, ~BeforeMain', ~JustAfterMain'
    PROVE  NetworkInv'
BY DEF NetworkInv

\* Steps of the same tool: to others than those before and just after the main file.
LEMMA OtherStep ==
    ASSUME NetworkInv, SameCall, job'.step \notin {"addresses", "main"},
           job'.step = "quatex" => job.tool # "generate", job'.step = "baseline" => job.tool \notin ScriptCallers
    PROVE  NetworkInv'
<1>1. job'.tool = job.tool
    BY DEF SameCall
<1>2. ~BeforeMain' /\ ~JustAfterMain'
    BY <1>1 DEF BeforeMain, JustAfterMain, Busy
<1>. QED
    BY <1>2, NotThere

\* A tool that is started reads first.
LEMMA Started ==
    ASSUME NetworkInv, job'.step \in {"parse", "trials", "done", "failed"}
    PROVE  NetworkInv'
<1>1. ~BeforeMain' /\ ~JustAfterMain'
    BY DEF BeforeMain, JustAfterMain, Busy
<1>. QED
    BY <1>1, NotThere

\* The same step of the same tool keeps it, too.
LEMMA SameStep ==
    ASSUME NetworkInv, scenario' = scenario, job' = job, disk' = disk
    PROVE  NetworkInv'
BY SameRead DEF NetworkInv, BeforeMain, JustAfterMain, Busy

\* A main file says so as the arguments do.
LEMMA MainTells ==
    ASSUME NEW a, {"hcsDelay", "tgenDelay", "perf", "notgens"} \subseteq DOMAIN a \/ a.notgens = FALSE,
           a.notgens \in BOOLEAN, NEW tgen, NEW s, NEW limit, NEW vpts, NEW feats, NEW file,
           file = MainFile(s, IF a.notgens THEN [a EXCEPT !.tgenDelay = tgen] ELSE a, limit, vpts, feats)
    PROVE  file.notgens \in BOOLEAN
<1>. DEFINE b == IF a.notgens THEN [a EXCEPT !.tgenDelay = tgen] ELSE a
<1>1. b.notgens = a.notgens
    OBVIOUS
<1>. HIDE DEF b
<1>2. file = MainFile(s, b, limit, vpts, feats)
    BY DEF b
<1>3. file.notgens = b.notgens
    BY <1>2 DEF MainFile
<1>. QED
    BY <1>1, <1>3

\* The script's arguments, by hand or in a pipeline.
LEMMA ScriptTells ==
    ASSUME Shapes, QueryInv, job.tool \in ScriptCallers
    PROVE  ScriptMainFile(S, job.args).notgens \in BOOLEAN
<1>. DEFINE a == job.args
            file == ScriptMainFile(S, a)
<1>0. file = MainFile(S, IF a.notgens THEN [a EXCEPT !.tgenDelay = 2 * S.duration] ELSE a,
                      S.duration, ComboVantages(S, a.combo), ComboFeatures(a.combo))
    BY Zenon DEF ScriptMainFile
<1>1. CASE job.tool = "script"
    <2>1. job.args \in ScriptArgs
        BY <1>1 DEF QueryInv, ScriptOwn
    <2>2. {"hcsDelay", "tgenDelay", "perf", "notgens"} \subseteq DOMAIN job.args /\ job.args.notgens \in BOOLEAN
        BY <2>1, ArgsAssumption
    <2>3. {"hcsDelay", "tgenDelay", "perf", "notgens"} \subseteq DOMAIN a /\ a.notgens \in BOOLEAN
        BY <2>2
    <2>. HIDE DEF file, a
    <2>4. file.notgens \in BOOLEAN
        BY <1>0, <2>3, MainTells
    <2>. QED
        BY <2>4 DEF file, a
<1>2. CASE job.tool \in {"pipeline", "isolated"}
    <2>1. job.args.notgens = FALSE
        <3>1. CASE job.tool = "pipeline"
            BY <3>1, TrialsAssumption DEF Shapes
        <3>2. CASE job.tool = "isolated"
            BY <3>2 DEF Shapes, IsolatedArgs
        <3>. QED
            BY <1>2, <3>1, <3>2
    <2>2. a.notgens = FALSE
        BY <2>1
    <2>. HIDE DEF file, a
    <2>3. file.notgens \in BOOLEAN
        BY <1>0, <2>2, MainTells
    <2>. QED
        BY <2>3 DEF file, a
<1>. QED
    BY <1>1, <1>2 DEF ScriptCallers

\* The steps of maude-hcs generate.
LEMMA GenerateReads ==
    ASSUME Shapes, QueryInv, NetworkInv, Generate
    PROVE  NetworkInv'
<1>0. scenario' = scenario
    BY DEF Generate
<1>00. \A tool : tool = "generate" => tool \notin ScriptCallers
    BY DEF ScriptCallers
<1>1. CASE StartGenerate
    <2>1. job'.step = "parse"
        BY <1>1 DEF StartGenerate, Start
    <2>. QED
        BY <2>1, Started
<1>2. CASE GenParse
    <2>1. job.tool = "generate" /\ SameCall /\ ((job'.step = "addresses" /\ ScenarioRead) \/ job'.step = "failed")
        BY <1>2, SkipFacts DEF GenParse, Busy, ScenarioRead
    <2>2. CASE job'.step = "failed"
        BY <2>2, Started
    <2>3. CASE job'.step = "addresses" /\ ScenarioRead
        <3>1. ScenarioRead' /\ ~JustAfterMain'
            BY <1>0, <2>3, SameRead DEF JustAfterMain, Busy
        <3>. QED
            BY <3>1 DEF NetworkInv
    <2>. QED
        BY <2>1, <2>2, <2>3
<1>3. CASE GenAddresses
    <2>1. job.tool = "generate" /\ job.step = "addresses" /\ "addresses" \in Files
          /\ Write("addresses", [clients |-> get_client_lst(S)], "main")
        BY <1>3 DEF GenAddresses, Busy, Files
    <2>2. job'.step = "main"
        BY <2>1, WriteFacts
    <2>3. ScenarioRead
        BY <2>1 DEF NetworkInv, BeforeMain, Generators
    <2>4. ScenarioRead' /\ ~JustAfterMain'
        BY <1>0, <2>2, <2>3, SameRead DEF JustAfterMain, Busy
    <2>. QED
        BY <2>4 DEF NetworkInv
<1>4. CASE GenMain
    <2>1. job.tool = "generate" /\ job.step = "main" /\ "main" \in Files
        BY <1>4 DEF GenMain, Busy, Files
    <2>2. CASE Fail
        BY <2>2, SkipFacts, Started
    <2>3. CASE MainPossible(S) /\ \E content : Write("main", content, "quatex")
        <3>1. job'.step = "quatex"
            BY <2>1, <2>3, WriteFacts
        <3>2. ScenarioRead
            BY <2>1 DEF NetworkInv, BeforeMain, Generators
        <3>3. ScenarioRead' /\ MainPossible(S)' /\ ~BeforeMain'
            BY <1>0, <2>3, <3>1, <3>2, SameRead DEF BeforeMain
        <3>4. Write("main", GenMainFile, "quatex")
            BY <1>4, <2>3 DEF GenMain, GenMainFile
        <3>5. disk'["main"] = GenMainFile
            BY <2>1, <3>4, WriteFacts
        <3>6. GenMainFile.notgens \in BOOLEAN
            <4>1. job.args \in GenArgs
                BY <2>1 DEF QueryInv, GenOwn
            <4>2. {"hcsDelay", "tgenDelay", "perf", "notgens"} \subseteq DOMAIN job.args /\ job.args.notgens \in BOOLEAN
                BY <4>1, ArgsAssumption
            <4>. DEFINE a == job.args
                        limit == RunTime + Delay
                        vpts == filter_vpts(S, job.args)
                        feats == filter_feats(job.args)
                        tgen == 2 * RunTime
                        file == GenMainFile
            <4>3. file = MainFile(S, IF a.notgens THEN [a EXCEPT !.tgenDelay = tgen] ELSE a, limit, vpts, feats)
                BY Zenon DEF GenMainFile
            <4>4. {"hcsDelay", "tgenDelay", "perf", "notgens"} \subseteq DOMAIN a /\ a.notgens \in BOOLEAN
                BY <4>2
            <4>. HIDE DEF a, limit, vpts, feats, tgen, file
            <4>5. file.notgens \in BOOLEAN
                BY <4>3, <4>4, MainTells
            <4>. QED
                BY <4>5 DEF file
        <3>7. disk["main"].notgens' \in BOOLEAN
            BY <3>5, <3>6
        <3>. QED
            BY <3>3, <3>7 DEF NetworkInv
    <2>. QED
        BY <1>4, <2>2, <2>3 DEF GenMain
<1>5. CASE GenQuatex
    <2>1. job.tool = "generate" /\ "quatex" \in Files
        BY <1>5 DEF GenQuatex, Busy, Files
    <2>2. SameCall /\ job'.step \in {"failed", "baseline"}
        <3>1. CASE Skip("baseline") \/ Fail
            BY <3>1, SkipFacts
        <3>2. CASE \E content : Write("quatex", content, "baseline")
            BY <2>1, <3>2, WriteFacts
        <3>. QED
            BY <1>5, <3>1, <3>2 DEF GenQuatex
    <2>. QED
        BY <1>00, <2>1, <2>2, OtherStep
<1>6. CASE GenBaseline
    <2>1. job.tool = "generate" /\ "baseline" \in Files
        BY <1>6 DEF GenBaseline, Busy, Files
    <2>2. SameCall /\ job'.step \in {"run", "eqtmp"}
        <3>1. CASE Skip("run")
            BY <3>1, SkipFacts
        <3>2. CASE \E content : Write("baseline", content, "eqtmp")
            BY <2>1, <3>2, WriteFacts
        <3>. QED
            BY <1>6, <3>1, <3>2 DEF GenBaseline
    <2>. QED
        BY <2>1, <2>2, OtherStep
<1>7. CASE GenEqTmp
    <2>1. "eqtmp" \in Files /\ Write("eqtmp", [bl |-> "nil"], "run")
        BY <1>7 DEF GenEqTmp, Files
    <2>2. SameCall /\ job'.step = "run"
        BY <2>1, WriteFacts
    <2>. QED
        BY <2>2, OtherStep
<1>8. CASE GenRun
    <2>1. job' = Ended(TRUE) /\ TRUE \in BOOLEAN
        BY <1>8 DEF GenRun
    <2>2. job'.step = "done"
        BY <2>1, StepFacts DEF Shapes, JobFields
    <2>. QED
        BY <2>2, Started
<1>. QED
    BY <1>1, <1>2, <1>3, <1>4, <1>5, <1>6, <1>7, <1>8 DEF Generate

\* The steps of the script, by hand or for a pipeline.
LEMMA ScriptReads ==
    ASSUME Shapes, QueryInv, NetworkInv, Script
    PROVE  NetworkInv'
<1>0. scenario' = scenario
    BY DEF Script
<1>00. \A tool : tool \in ScriptCallers => tool # "generate" /\ tool \in Generators
    BY DEF ScriptCallers, Generators
<1>1. CASE StartScript
    <2>1. job'.step = "parse"
        BY <1>1 DEF StartScript, Start
    <2>. QED
        BY <2>1, Started
<1>2. CASE ScriptParse
    <2>1. SameCall /\ ((job'.step = "addresses" /\ ScenarioRead) \/ job'.step = "failed")
        BY <1>2, SkipFacts DEF ScriptParse, ScenarioRead
    <2>2. CASE job'.step = "failed"
        BY <2>2, Started
    <2>3. CASE job'.step = "addresses" /\ ScenarioRead
        <3>1. ScenarioRead' /\ ~JustAfterMain'
            BY <1>0, <2>3, SameRead DEF JustAfterMain, Busy
        <3>. QED
            BY <3>1 DEF NetworkInv
    <2>. QED
        BY <2>1, <2>2, <2>3
<1>3. CASE ScriptAddresses
    <2>1. job.tool \in ScriptCallers /\ job.step = "addresses" /\ "addresses" \in Files
          /\ Write("addresses", [clients |-> get_client_lst(S)], "main")
        BY <1>3 DEF ScriptAddresses, Files
    <2>2. job'.step = "main"
        BY <2>1, WriteFacts
    <2>3. ScenarioRead
        BY <1>00, <2>1 DEF NetworkInv, BeforeMain
    <2>4. ScenarioRead' /\ ~JustAfterMain'
        BY <1>0, <2>2, <2>3, SameRead DEF JustAfterMain, Busy
    <2>. QED
        BY <2>4 DEF NetworkInv
<1>4. CASE ScriptMain
    <2>1. job.tool \in ScriptCallers /\ job.step = "main" /\ "main" \in Files
        BY <1>4 DEF ScriptMain, Files
    <2>2. CASE Fail
        BY <2>2, SkipFacts, Started
    <2>3. CASE MainPossible(S) /\ \E content : Write("main", content, "baseline")
        <3>1. job'.step = "baseline"
            BY <2>1, <2>3, WriteFacts
        <3>2. ScenarioRead
            BY <1>00, <2>1 DEF NetworkInv, BeforeMain
        <3>3. ScenarioRead' /\ MainPossible(S)' /\ ~BeforeMain'
            BY <1>0, <2>3, <3>1, <3>2, SameRead DEF BeforeMain
        <3>4. CASE Write("main", ScriptMainFile(S, job.args), "baseline")
            <4>1. disk'["main"] = ScriptMainFile(S, job.args)
                BY <2>1, <3>4, WriteFacts
            <4>2. ScriptMainFile(S, job.args).notgens \in BOOLEAN
                BY <2>1, ScriptTells
            <4>3. disk["main"].notgens' \in BOOLEAN
                BY <4>1, <4>2
            <4>. QED
                BY <3>3, <4>3 DEF NetworkInv
        <3>. QED
            BY <1>4, <2>2, <2>3, <3>4 DEF ScriptMain
    <2>. QED
        BY <1>4, <2>2, <2>3 DEF ScriptMain
<1>5. CASE ScriptBaseline
    <2>1. job.tool \in ScriptCallers /\ "baseline" \in Files
        BY <1>5 DEF ScriptBaseline, Files
    <2>2. PICK content : Write("baseline", content, "quatex")
        BY <1>5 DEF ScriptBaseline
    <2>3. SameCall /\ job'.step = "quatex"
        BY <2>1, <2>2, WriteFacts
    <2>. QED
        BY <1>00, <2>1, <2>3, OtherStep
<1>6. CASE ScriptQuatex
    <2>1. SameCall /\ job'.step = "parallel"
        <3>1. CASE Skip("parallel")
            BY <3>1, SkipFacts
        <3>2. CASE Write("quatex", ScriptQuatexFile(S, job.args), "parallel")
            BY <3>2, WriteFacts DEF Files
        <3>. QED
            BY <1>6, <3>1, <3>2 DEF ScriptQuatex
    <2>. QED
        BY <2>1, OtherStep
<1>7. CASE ScriptParallel
    <2>1. "baselines" \in Files
        BY DEF Files
    <2>2. SameCall /\ job'.step = "eqtmp"
        <3>1. CASE Skip("eqtmp")
            BY <3>1, SkipFacts
        <3>2. CASE \E content : Write("baselines", content, "eqtmp")
            BY <2>1, <3>2, WriteFacts
        <3>. QED
            BY <1>7, <3>1, <3>2 DEF ScriptParallel
    <2>. QED
        BY <2>2, OtherStep
<1>8. CASE ScriptEqTmp
    <2>1. "eqtmp" \in Files /\ Write("eqtmp", [bl |-> "nil"], "run")
        BY <1>8 DEF ScriptEqTmp, Files
    <2>2. SameCall /\ job'.step = "run"
        BY <2>1, WriteFacts
    <2>. QED
        BY <2>2, OtherStep
<1>9. CASE ScriptRun
    <2>0. DOMAIN job = JobFields /\ TRUE \in BOOLEAN
        BY DEF Shapes, JobFields
    <2>1. SameCall /\ job'.step \in {"done", "trials", "list"}
        <3>1. CASE job.tool = "script"
            <4>1. job' = Ended(TRUE)
                BY <1>9, <3>1 DEF ScriptRun
            <4>. QED
                BY <2>0, <4>1, StepFacts
        <3>2. CASE job.tool = "pipeline"
            <4>1. Goto("trials")
                BY <1>9, <3>2 DEF ScriptRun, Goto
            <4>. QED
                BY <2>0, <4>1, StepFacts
        <3>3. CASE job.tool = "isolated"
            <4>1. Goto("list")
                BY <1>9, <3>3 DEF ScriptRun, Goto
            <4>. QED
                BY <2>0, <4>1, StepFacts
        <3>. QED
            BY <1>9, <3>1, <3>2, <3>3 DEF ScriptRun, ScriptCallers
    <2>. QED
        BY <2>1, OtherStep
<1>. QED
    BY <1>1, <1>2, <1>3, <1>4, <1>5, <1>6, <1>7, <1>8, <1>9 DEF Script

\* The other steps of the tools read no scenario.
LEMMA PipelineReads ==
    ASSUME Shapes, NetworkInv,
           \/ Kill \/ StartPipeline \/ SetUpTrials \/ TrialsOver \/ Combine \/ WriteEquation \/ WriteJson
           \/ \E i \in Trials : StartTrial(i) \/ FinishTrial(i)
    PROVE  NetworkInv'
<1>0. DOMAIN job = JobFields /\ {TRUE, FALSE} \subseteq BOOLEAN
    BY DEF Shapes, JobFields
<1>1. ASSUME NEW ok \in BOOLEAN, job' = Ended(ok) PROVE NetworkInv'
    <2>1. job'.step \in {"done", "failed"}
        BY <1>0, <1>1, StepFacts
    <2>. QED
        BY <2>1, Started
<1>2. ASSUME NEW step \in {"combine", "running", "write", "json"}, Goto(step) PROVE NetworkInv'
    <2>1. SameCall /\ job'.step = step
        BY <1>0, <1>2, StepFacts
    <2>. QED
        BY <2>1, OtherStep
<1>3. CASE Kill
    BY <1>1, <1>3 DEF Kill
<1>4. CASE StartPipeline
    <2>1. job'.step \in {"parse", "trials"}
        BY <1>4 DEF StartPipeline
    <2>. QED
        BY <2>1, Started
<1>5. CASE SetUpTrials
    BY <1>1, <1>2, <1>5 DEF SetUpTrials
<1>6. CASE TrialsOver
    BY <1>1, <1>2, <1>6 DEF TrialsOver
<1>7. CASE Combine
    BY <1>1, <1>2, <1>7 DEF Combine
<1>8. CASE WriteEquation
    BY <1>2, <1>8 DEF WriteEquation
<1>9. CASE WriteJson
    BY <1>1, <1>9 DEF WriteJson
<1>10. CASE \E i \in Trials : StartTrial(i) \/ FinishTrial(i)
    BY <1>10, SameStep DEF StartTrial, FinishTrial, Untouched
<1>. QED
    BY <1>3, <1>4, <1>5, <1>6, <1>7, <1>8, <1>9, <1>10

\* Nor do those of isolated channels, and what is run by hand.
LEMMA IsolatedReads ==
    ASSUME Shapes, NetworkInv,
           \/ StartIsolated \/ ListFiles \/ MaudesOver \/ JoinLogs \/ ParseByHand
           \/ \E k \in DOMAIN tasks : StartMaude(k) \/ FinishMaude(k)
    PROVE  NetworkInv'
<1>0. DOMAIN job = JobFields /\ {TRUE, FALSE} \subseteq BOOLEAN
    BY DEF Shapes, JobFields
<1>1. CASE StartIsolated
    <2>1. job'.step = "parse"
        BY <1>1 DEF StartIsolated
    <2>. QED
        BY <2>1, Started
<1>2. CASE ListFiles \/ MaudesOver
    <2>1. SameCall /\ job'.step \in {"running", "join"}
        BY <1>0, <1>2, StepFacts DEF ListFiles, MaudesOver
    <2>. QED
        BY <2>1, OtherStep
<1>3. CASE JoinLogs
    <2>1. job' = Ended(TRUE) \/ job' = Ended(FALSE)
        BY <1>3 DEF JoinLogs
    <2>2. job'.step \in {"done", "failed"}
        BY <1>0, <2>1, StepFacts
    <2>. QED
        BY <2>2, Started
<1>4. CASE ParseByHand
    <2>1. job'.step \in {"done", "failed"}
        BY <1>4 DEF ParseByHand
    <2>. QED
        BY <2>1, Started
<1>5. CASE \E k \in DOMAIN tasks : StartMaude(k) \/ FinishMaude(k)
    BY <1>5, SameStep DEF StartMaude, FinishMaude
<1>. QED
    BY <1>1, <1>2, <1>3, <1>4, <1>5

\* Every step of the tools keeps the invariant.
LEMMA NextReads ==
    ASSUME Shapes, QueryInv, NetworkInv, Next
    PROVE  NetworkInv'
<1>1. CASE Tools
    <2>1. CASE Generate \/ Script
        BY <2>1, GenerateReads, ScriptReads
    <2>2. CASE \/ Kill \/ StartPipeline \/ SetUpTrials \/ TrialsOver \/ Combine \/ WriteEquation \/ WriteJson
               \/ \E i \in Trials : StartTrial(i) \/ FinishTrial(i)
        BY <2>2, PipelineReads
    <2>3. CASE \/ StartIsolated \/ ListFiles \/ MaudesOver \/ JoinLogs \/ ParseByHand
               \/ \E k \in DOMAIN tasks : StartMaude(k) \/ FinishMaude(k)
        BY <2>3, IsolatedReads
    <2>. QED
        BY <1>1, <2>1, <2>2, <2>3 DEF Tools, Pipelines
<1>2. CASE RunQueries
    BY <1>2, SameStep DEF RunQueries
<1>3. CASE write_stats_to_json_file
    <2>1. job'.step = "done"
        BY <1>3 DEF write_stats_to_json_file, Shapes
    <2>. QED
        BY <2>1, Started
<1>. QED
    BY <1>1, <1>2, <1>3 DEF Next

\* So the three invariants hold together.
LEMMA NetworkSteps ==
    EquationInv /\ QueryInv /\ NetworkInv /\ [Next]_vars => (EquationInv /\ QueryInv /\ NetworkInv)'
<1>1. ASSUME EquationInv, QueryInv, NetworkInv, Next PROVE (EquationInv /\ QueryInv /\ NetworkInv)'
    BY <1>1, NextKeeps, NextQueries, NextReads DEF EquationInv
<1>2. ASSUME EquationInv, QueryInv, NetworkInv, UNCHANGED vars PROVE (EquationInv /\ QueryInv /\ NetworkInv)'
    BY <1>2, Unchanged, UnchangedQueries, SameStep DEF vars, invVars
<1>. QED
    BY <1>1, <1>2

\* Whatever tools run in whatever order and stop wherever they do: when a generator has
\* just written the main file of a scenario whose covert channels and servers have their
\* networks, its links fit its actors, whatever clients and generators it has.
THEOREM NetworksComplete == Spec => [](NetworksThere(S) => NetworkComplete)
<1>1. EquationInv /\ QueryInv /\ NetworkInv => (NetworksThere(S) => NetworkComplete)
    <2>. SUFFICES ASSUME EquationInv, NetworkInv, NetworksThere(S), MainWritten PROVE NetworkFits(Out)
        BY DEF NetworkComplete
    <2>1. scenario \in Scenarios
        BY DEF EquationInv, Shapes
    <2>2. ScenarioRead /\ MainPossible(S)
        BY DEF MainWritten, NetworkInv, JustAfterMain
    <2>. QED
        BY <2>1, <2>2, NetworkMade DEF Out
<1>. QED
    BY <1>1, InitEquationInv, InitQueryInv, InitNetworkInv, NetworkSteps, PTL DEF Spec

\* Whatever tools run in whatever order and stop wherever they do: when a generator has
\* just written the main file of a scenario, its timers start every user model of the
\* initial state once, in the way its action model understands and after the parts of its
\* channel; and without generators none of theirs.
THEOREM EveryoneStarted == Spec => []EveryoneStarts
<1>1. EquationInv /\ QueryInv /\ NetworkInv => EveryoneStarts
    <2>. SUFFICES ASSUME EquationInv, NetworkInv, MainWritten PROVE UsersStart(Out)
        BY DEF EveryoneStarts
    <2>1. scenario \in Scenarios
        BY DEF EquationInv, Shapes
    <2>2. ScenarioRead /\ ProfilesReach(S) /\ disk["main"].notgens \in BOOLEAN
        BY DEF MainWritten, NetworkInv, JustAfterMain, MainPossible
    <2>. QED
        BY <2>1, <2>2, StartsMade DEF Out
<1>. QED
    BY <1>1, InitEquationInv, InitQueryInv, InitNetworkInv, NetworkSteps, PTL DEF Spec

\* Whatever tools run in whatever order and stop wherever they do: when a generator has
\* just written the main file of a scenario, whatever address an actor of the initial
\* state is given, or a name resolves to, is declared and somebody of the initial state
\* is there; whoever is defined is placed, but for the Mastodon server's network actor
\* where nobody needs it, and is alone at an address, with a model that is included; and
\* they are as many as the scenario says.  It has to give its channels their models, and
\* the rounded shares of its generators' profiles must take no more than there are.
THEOREM ActorsPlaced == Spec => []((ModelsGiven(S) /\ \A t \in Range(S.tgens) : SharesFit(t)) => ActorsComplete)
<1>1. EquationInv /\ QueryInv /\ NetworkInv => ((ModelsGiven(S) /\ \A t \in Range(S.tgens) : SharesFit(t)) => ActorsComplete)
    <2>. SUFFICES ASSUME EquationInv, NetworkInv, MainWritten, ModelsGiven(S), \A t \in Range(S.tgens) : SharesFit(t)
                  PROVE  ActorsFit(Out)
        BY DEF ActorsComplete
    <2>1. scenario \in Scenarios
        BY DEF EquationInv, Shapes
    <2>2. ScenarioRead /\ ProfilesReach(S)
        BY DEF MainWritten, NetworkInv, JustAfterMain, MainPossible
    <2>. QED
        BY <2>1, <2>2, ActorsMade
<1>. QED
    BY <1>1, InitEquationInv, InitQueryInv, InitNetworkInv, NetworkSteps, PTL DEF Spec
=============================================================================
