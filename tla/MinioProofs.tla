----------------------------- MODULE MinioProofs -----------------------------
(***************************************************************************)
(* Proofs about MinioTgen, for any number of clients, objects and files    *)
(* sent, and any number of requests that fail and objects deleted.         *)
(***************************************************************************)
EXTENDS MinioTgen, SequenceTheorems, TLAPS

AnyPart == Parts \cup {SeedPart}

Getting == [op : {"get"}, key : Keys]
Reading == [op : {"read"}, key : Keys]
Putting == [op : {"put"}, key : Keys, data : Seq(AnyPart)]

\* What a client does, and that the names it writes to have been drawn.
Tasks ==
    /\ task \in [Clients -> {Rest} \cup Getting \cup Reading \cup Putting]
    /\ \A c \in Clients :
          /\ task[c].op = "read" => c \in Appenders /\ sent[c] > 0
          /\ task[c].op \in {"read", "put"} => task[c].key \in drawn
    /\ \A k \in Keys : store[k] # <<>> => k \in drawn
    /\ lastMonitor \in [Clients -> AnyPart]

\* The inductive invariant of types.
TInv == TypeOK /\ Tasks

-----------------------------------------------------------------------------
(* What a step can do to the bucket and to the tasks.                      *)

\* Of these variables only the task of c changes, and c writes nothing.
Idles(c) ==
    /\ task'[c] \in {Rest} \cup Getting /\ task' = [task EXCEPT ![c] = task'[c]]
    /\ UNCHANGED <<store, drawn, monitor, sent, lastMonitor, deletes>>
    /\ fails' \in {fails, fails + 1} /\ fails' \in 0..MaxFails

\* Sequences of parts and their extensions.
LEMMA AppendFacts ==
    ASSUME NEW s \in Seq(AnyPart), NEW p \in AnyPart
    PROVE  /\ Append(s, p) \in Seq(AnyPart) /\ Append(s, p) # <<>>
           /\ DOMAIN Append(s, p) = 1..(Len(s) + 1) /\ DOMAIN s = 1..Len(s) /\ Len(s) \in Nat
           /\ \A i \in DOMAIN s : Append(s, p)[i] = s[i]
           /\ Append(s, p)[Len(s) + 1] = p
           /\ Head(Append(s, p)) = IF s = <<>> THEN p ELSE Head(s)
BY AppendProperties, HeadTailAppend

\* A file of one part.
LEMMA SingleFacts ==
    ASSUME NEW p \in AnyPart
    PROVE  /\ <<p>> \in Seq(AnyPart) /\ <<p>> # <<>>
           /\ DOMAIN <<p>> = {1} /\ <<p>>[1] = p /\ Head(<<p>>) = p
           /\ <<p>> = Append(<<>>, p)
OBVIOUS

\* A part that a client makes is one of its own, and not the seed.
LEMMA PartFacts ==
    ASSUME NEW c \in Clients, NEW n \in 1..MaxSent
    PROVE  /\ [by |-> c, number |-> n] \in Parts
           /\ [by |-> c, number |-> n] # SeedPart
           /\ SeedPart \notin Parts
BY MinioAssumption DEF Parts, SeedPart

Outcomes == [Clients -> {"ok", "failed", "refused"}]

\* What the steps of a client start from.
LEMMA TInvFacts ==
    ASSUME TInv
    PROVE  /\ task \in [Clients -> {Rest} \cup Getting \cup Reading \cup Putting]
           /\ store \in [Keys -> Seq(AnyPart)] /\ sent \in [Clients -> 0..MaxSent]
           /\ outcome \in Outcomes
           /\ fails \in 0..MaxFails /\ deletes \in 0..MaxDeletes
           /\ MaxSent \in Nat /\ MaxFails \in Nat /\ MaxDeletes \in Nat
           /\ \A c \in Clients : monitor[c] # NoKey => monitor[c] \in Keys
BY MinioAssumption DEF TInv, Tasks, TypeOK, Outcomes, AnyPart

\* Every step that neither writes nor begins to write leaves the rest as it is.
LEMMA IdleSteps ==
    ASSUME TInv, NEW c \in Clients,
           \/ ListRemoteBucket(c) \/ BrowseFilesystem(c) \/ DownloadFile(c) \/ Download(c)
           \/ MonitorDownload(c) \/ Fails(c)
    PROVE  Idles(c) /\ outcome' \in Outcomes
<1>1. ASSUME Fails(c) PROVE Idles(c) /\ outcome' \in Outcomes
    BY <1>1, TInvFacts DEF Fails, End, Idles, Outcomes
<1>2. CASE ListRemoteBucket(c)
    BY <1>1, <1>2, TInvFacts DEF ListRemoteBucket, End, Idles, Outcomes, env
<1>3. CASE BrowseFilesystem(c)
    BY <1>3, TInvFacts DEF BrowseFilesystem, End, Idles, Outcomes
<1>4. CASE DownloadFile(c)
    BY <1>1, <1>4, TInvFacts
    DEF DownloadFile, End, GoOn, Idles, Outcomes, env, Objects, Getting
<1>5. CASE Download(c)
    BY <1>1, <1>5, TInvFacts DEF Download, End, Idles, Outcomes, env
<1>6. CASE MonitorDownload(c)
    BY <1>6, TInvFacts DEF MonitorDownload, End, GoOn, Idles, Outcomes, env, Getting
<1> QED BY <1>1, <1>2, <1>3, <1>4, <1>5, <1>6

\* A step is idle, or a client stores, deletes, or is about to.
LEMMA Steps ==
    ASSUME TInv, [Next]_vars
    PROVE  \/ UNCHANGED vars
           \/ \E c \in Clients :
                \/ Idles(c) /\ outcome' \in Outcomes
                \/ UploadFile(c) \/ MonitorUpload(c) \/ Put(c)
                \/ AppendToRemoteFile(c) /\ ~Fails(c)
                \/ ReadExisting(c)
                \/ DeleteRemoteFile(c) /\ ~Fails(c)
BY IdleSteps DEF Next

-----------------------------------------------------------------------------
(* Types *)

\* A client that goes on to its next request keeps the tasks well formed.
LEMMA TaskSet ==
    ASSUME TInv, NEW c \in Clients,
           NEW t \in {Rest} \cup Getting \cup Reading \cup Putting,
           task' = [task EXCEPT ![c] = t]
    PROVE  /\ task' \in [Clients -> {Rest} \cup Getting \cup Reading \cup Putting]
           /\ task'[c] = t /\ \A d \in Clients \ {c} : task'[d] = task[d]
BY TInvFacts

\* Ops of the tasks tell their kinds apart.
LEMMA TaskKinds ==
    ASSUME NEW t \in {Rest} \cup Getting \cup Reading \cup Putting
    PROVE  /\ t.op = "rest" <=> t = Rest
           /\ t.op = "get" <=> t \in Getting
           /\ t.op = "read" <=> t \in Reading
           /\ t.op = "put" <=> t \in Putting
BY DEF Rest, Getting, Reading, Putting

\* An idle step keeps the types.
LEMMA IdleTypes ==
    ASSUME TInv, NEW c \in Clients, Idles(c), outcome' \in Outcomes
    PROVE  TInv'
<1>1. task'[c] \in {Rest} \cup Getting /\ task' = [task EXCEPT ![c] = task'[c]]
    BY DEF Idles
<1>2. task' \in [Clients -> {Rest} \cup Getting \cup Reading \cup Putting]
      /\ \A d \in Clients \ {c} : task'[d] = task[d]
    BY <1>1, TaskSet
<1>3. task'[c].op \notin {"read", "put"}
    BY <1>1, TaskKinds DEF Rest, Getting
<1>4. Tasks'
    BY <1>2, <1>3 DEF TInv, Tasks, Idles
<1>5. TypeOK'
    BY DEF TInv, TypeOK, Idles, Outcomes
<1> QED BY <1>4, <1>5 DEF TInv

\* What both uploads do: a new name, a file of one new part, to be stored.
Uploads(c) ==
    \E k \in Keys \ drawn :
       /\ drawn' = drawn \cup {k}
       /\ task' = [task EXCEPT ![c] = [op |-> "put", key |-> k, data |-> <<Part(c)>>]]
       /\ sent' = [sent EXCEPT ![c] = @ + 1] /\ sent[c] < MaxSent
       /\ \/ UNCHANGED <<monitor, lastMonitor>>
          \/ /\ monitor' = [monitor EXCEPT ![c] = k]
             /\ lastMonitor' = [lastMonitor EXCEPT ![c] = Part(c)]
       /\ UNCHANGED <<store, outcome, fails, deletes>>

\* The new part of an upload.
LEMMA NewPart ==
    ASSUME TInv, NEW c \in Clients, sent[c] < MaxSent
    PROVE  /\ sent[c] + 1 \in 1..MaxSent
           /\ Part(c) \in AnyPart /\ Part(c) # SeedPart
           /\ \A k \in Keys : [op |-> "put", key |-> k, data |-> <<Part(c)>>] \in Putting
<1>1. sent[c] + 1 \in 1..MaxSent
    BY TInvFacts
<1> QED BY <1>1, PartFacts, SingleFacts DEF Part, Putting, AnyPart

\* Both uploads keep the types.
LEMMA UploadTypes ==
    ASSUME TInv, NEW c \in Clients, Uploads(c)
    PROVE  TInv'
<1> PICK k \in Keys \ drawn :
       /\ drawn' = drawn \cup {k}
       /\ task' = [task EXCEPT ![c] = [op |-> "put", key |-> k, data |-> <<Part(c)>>]]
       /\ sent' = [sent EXCEPT ![c] = @ + 1] /\ sent[c] < MaxSent
       /\ \/ UNCHANGED <<monitor, lastMonitor>>
          \/ /\ monitor' = [monitor EXCEPT ![c] = k]
             /\ lastMonitor' = [lastMonitor EXCEPT ![c] = Part(c)]
       /\ UNCHANGED <<store, outcome, fails, deletes>>
    BY DEF Uploads
<1> DEFINE t == [op |-> "put", key |-> k, data |-> <<Part(c)>>]
<1>1. t \in Putting /\ t.op = "put" /\ t.key = k
    BY NewPart
<1> HIDE DEF t
<1>2. task' \in [Clients -> {Rest} \cup Getting \cup Reading \cup Putting]
      /\ task'[c] = t /\ \A d \in Clients \ {c} : task'[d] = task[d]
    BY <1>1, TaskSet DEF t
<1>3. sent' \in [Clients -> 0..MaxSent] /\ \A d \in Clients \ {c} : sent'[d] = sent[d]
    BY TInvFacts
<1>4. Tasks'
  <2>1. lastMonitor' \in [Clients -> AnyPart]
    BY NewPart DEF TInv, Tasks
  <2> QED BY <1>1, <1>2, <1>3, <2>1 DEF TInv, Tasks
<1>5. TypeOK'
    BY <1>3 DEF TInv, TypeOK
<1> QED BY <1>4, <1>5 DEF TInv

\* UploadFile and MonitorUpload upload.
LEMMA UploadSteps ==
    ASSUME NEW c \in Clients, UploadFile(c) \/ MonitorUpload(c)
    PROVE  Uploads(c)
<1>1. CASE UploadFile(c)
    BY <1>1 DEF UploadFile, Uploads, GoOn, env
<1>2. CASE MonitorUpload(c)
    BY <1>2 DEF MonitorUpload, Uploads, GoOn, env
<1> QED BY <1>1, <1>2

\* A PUT keeps the types.
LEMMA PutTypes ==
    ASSUME TInv, NEW c \in Clients, Put(c)
    PROVE  TInv'
<1>1. task[c] \in Putting /\ task[c].key \in drawn
    BY TInvFacts, TaskKinds DEF Put, TInv, Tasks
<1>2. /\ store' \in {store, [store EXCEPT ![task[c].key] = task[c].data]}
      /\ task' = [task EXCEPT ![c] = Rest] /\ outcome' \in Outcomes
      /\ fails' \in 0..MaxFails
      /\ UNCHANGED <<drawn, monitor, sent, lastMonitor, deletes>>
  <2>1. outcome' = [outcome EXCEPT ![c] = "ok"] \/ outcome' = [outcome EXCEPT ![c] = "failed"]
    BY DEF Put, End
  <2>2. fails' = fails \/ (fails < MaxFails /\ fails' = fails + 1)
    BY DEF Put
  <2>3. fails' \in 0..MaxFails
    BY <2>2, TInvFacts
  <2>4. outcome' \in Outcomes
    BY <2>1, TInvFacts DEF Outcomes
  <2> QED BY <2>3, <2>4 DEF Put, End
<1>3. task' \in [Clients -> {Rest} \cup Getting \cup Reading \cup Putting]
      /\ task'[c] = Rest /\ \A d \in Clients \ {c} : task'[d] = task[d]
    BY <1>2, TaskSet
<1>4. store' \in [Keys -> Seq(AnyPart)]
      /\ \A k \in Keys : store'[k] # <<>> => store[k] # <<>> \/ k = task[c].key
    BY <1>1, <1>2, TInvFacts DEF Putting
<1>5. Tasks'
    BY <1>1, <1>2, <1>3, <1>4 DEF TInv, Tasks, Rest
<1>6. TypeOK'
    BY <1>2, <1>4 DEF TInv, TypeOK, AnyPart, Outcomes
<1> QED BY <1>5, <1>6 DEF TInv

\* The beginning of an append keeps the types.
LEMMA AppendTypes ==
    ASSUME TInv, NEW c \in Clients, AppendToRemoteFile(c), ~Fails(c)
    PROVE  TInv'
<1>1. /\ c \in Appenders
      /\ task'[c] = Rest \/ \E k \in Objects : task'[c] = [op |-> "read", key |-> k]
      /\ task' = [task EXCEPT ![c] = task'[c]] /\ outcome' \in Outcomes
      /\ sent' = [sent EXCEPT ![c] = @ + 1] /\ sent[c] < MaxSent
      /\ UNCHANGED <<store, drawn, monitor, lastMonitor, fails, deletes>>
    BY TInvFacts DEF AppendToRemoteFile, End, GoOn, Outcomes, env
<1>2. task'[c] \in {Rest} \cup Reading /\ task'[c].op # "put"
      /\ (task'[c].op = "read" => task'[c].key \in drawn)
    BY <1>1 DEF Objects, Reading, Rest, TInv, Tasks
<1>3. task' \in [Clients -> {Rest} \cup Getting \cup Reading \cup Putting]
      /\ \A d \in Clients \ {c} : task'[d] = task[d]
    BY <1>1, <1>2, TaskSet
<1>4. sent' \in [Clients -> 0..MaxSent] /\ sent'[c] > 0
      /\ \A d \in Clients \ {c} : sent'[d] = sent[d]
    BY <1>1, TInvFacts
<1>5. Tasks'
    BY <1>1, <1>2, <1>3, <1>4 DEF TInv, Tasks
<1>6. TypeOK'
    BY <1>1, <1>4 DEF TInv, TypeOK, Outcomes
<1> QED BY <1>5, <1>6 DEF TInv

\* The part an append adds.
AppendedPart(c) == [by |-> c, number |-> sent[c]]

\* What reading does: the part is put behind what the object holds, or behind nothing.
LEMMA ReadFacts ==
    ASSUME TInv, NEW c \in Clients, ReadExisting(c)
    PROVE  /\ c \in Appenders /\ task[c] \in Reading /\ task[c].key \in drawn
           /\ sent[c] \in 1..MaxSent
           /\ AppendedPart(c) \in AnyPart /\ AppendedPart(c) # SeedPart
           /\ UNCHANGED <<store, drawn, monitor, sent, outcome, lastMonitor, deletes>>
           /\ fails' \in {fails, fails + 1} /\ fails' \in 0..MaxFails
           /\ task'[c] \in Putting /\ task'[c].key = task[c].key
           /\ \E old \in Seq(AnyPart) :
                 /\ task'[c].data = Append(old, AppendedPart(c))
                 /\ old = store[task[c].key] \/ (old = <<>> /\ fails' # fails)
           /\ task' = [task EXCEPT ![c] = task'[c]]
<1>1. c \in Appenders /\ task[c] \in Reading /\ task[c].key \in drawn /\ sent[c] \in 1..MaxSent
    BY TInvFacts, TaskKinds DEF ReadExisting, TInv, Tasks
<1>2. AppendedPart(c) \in AnyPart /\ AppendedPart(c) # SeedPart
    BY <1>1, PartFacts DEF AppendedPart, AnyPart
<1>0. PICK old :
          /\ GoOn(c, [op |-> "put", key |-> task[c].key, data |-> Append(old, AppendedPart(c))])
          /\ \/ old = store[task[c].key] /\ fails' = fails
             \/ old = <<>> /\ fails < MaxFails /\ fails' = fails + 1
  <2> DEFINE Reads(served) ==
          /\ served \/ fails < MaxFails
          /\ fails' = IF served THEN fails ELSE fails + 1
          /\ GoOn(c, [op |-> "put", key |-> task[c].key,
                      data |-> Append(Existing(c, served), AppendedPart(c))])
  <2>1. Reads(TRUE) \/ Reads(FALSE)
    BY DEF ReadExisting, AppendedPart
  <2>2. Existing(c, TRUE) = store[task[c].key] /\ Existing(c, FALSE) = <<>>
    BY DEF Existing
  <2> QED BY <2>1, <2>2
<1>3. old \in Seq(AnyPart) /\ (old = store[task[c].key] \/ (old = <<>> /\ fails' # fails))
  <2>1. task[c].key \in Keys
    BY <1>1 DEF Reading
  <2>2. store[task[c].key] \in Seq(AnyPart) /\ fails \in 0..MaxFails
    BY <2>1, TInvFacts
  <2>3. <<>> \in Seq(AnyPart)
    BY EmptySeq
  <2>4. old \in Seq(AnyPart)
    BY <1>0, <2>2, <2>3
  <2>5. fails + 1 # fails
    BY <2>2
  <2> QED BY <1>0, <2>4, <2>5
<1> DEFINE t == [op |-> "put", key |-> task[c].key, data |-> Append(old, AppendedPart(c))]
<1>4. Append(old, AppendedPart(c)) \in Seq(AnyPart)
    BY <1>2, <1>3, AppendFacts
<1>5. t \in Putting /\ t.key = task[c].key /\ t.data = Append(old, AppendedPart(c))
    BY <1>1, <1>4 DEF Putting, Reading
<1>6. task' = [task EXCEPT ![c] = t] /\ outcome' = outcome
    BY <1>0 DEF GoOn
<1>7. task'[c] = t /\ task' = [task EXCEPT ![c] = task'[c]]
    BY <1>6, TInvFacts
<1>8. fails' \in {fails, fails + 1} /\ fails' \in 0..MaxFails
    BY <1>0, TInvFacts
<1>9. UNCHANGED <<store, drawn, monitor, sent, lastMonitor, deletes>>
    BY DEF ReadExisting
<1> QED BY <1>1, <1>2, <1>3, <1>5, <1>6, <1>7, <1>8, <1>9

\* Reading what an append goes behind keeps the types.
LEMMA ReadTypes ==
    ASSUME TInv, NEW c \in Clients, ReadExisting(c)
    PROVE  TInv'
<1>1. task' \in [Clients -> {Rest} \cup Getting \cup Reading \cup Putting]
      /\ \A d \in Clients \ {c} : task'[d] = task[d]
    BY ReadFacts, TaskSet
<1>2. Tasks'
    BY <1>1, ReadFacts, TaskKinds DEF TInv, Tasks
<1>3. TypeOK'
    BY ReadFacts DEF TInv, TypeOK
<1> QED BY <1>2, <1>3 DEF TInv

\* What a deletion does.
LEMMA DeleteFacts ==
    ASSUME TInv, NEW c \in Clients, DeleteRemoteFile(c), ~Fails(c)
    PROVE  /\ \E k \in Keys : store' = [store EXCEPT ![k] = <<>>]
           /\ task' = [task EXCEPT ![c] = Rest] /\ outcome' \in Outcomes
           /\ deletes' = deletes + 1 /\ deletes' \in 0..MaxDeletes
           /\ UNCHANGED <<drawn, monitor, sent, lastMonitor, fails>>
BY TInvFacts DEF DeleteRemoteFile, End, Objects, Outcomes

\* A deletion keeps the types.
LEMMA DeleteTypes ==
    ASSUME TInv, NEW c \in Clients, DeleteRemoteFile(c), ~Fails(c)
    PROVE  TInv'
<1> PICK k \in Keys : store' = [store EXCEPT ![k] = <<>>]
    BY DeleteFacts
<1>1. task' \in [Clients -> {Rest} \cup Getting \cup Reading \cup Putting]
      /\ task'[c] = Rest /\ \A d \in Clients \ {c} : task'[d] = task[d]
    BY DeleteFacts, TaskSet
<1>2. store' \in [Keys -> Seq(AnyPart)] /\ \A l \in Keys : store'[l] # <<>> => store[l] # <<>>
    BY TInvFacts
<1>3. Tasks'
    BY <1>1, <1>2, DeleteFacts DEF TInv, Tasks, Rest
<1>4. TypeOK'
    BY <1>2, DeleteFacts DEF TInv, TypeOK, AnyPart, Outcomes
<1> QED BY <1>3, <1>4 DEF TInv

\* Every step keeps the types.
LEMMA TypeSteps == TInv /\ [Next]_vars => TInv'
<1> SUFFICES ASSUME TInv, [Next]_vars PROVE TInv'
    OBVIOUS
<1>1. CASE UNCHANGED vars
    BY <1>1 DEF vars, TInv, TypeOK, Tasks
<1> QED BY <1>1, Steps, IdleTypes, UploadTypes, UploadSteps, PutTypes, AppendTypes,
           ReadTypes, DeleteTypes

\* Before the first step the seeded objects have their names.
LEMMA TypeInit == Init => TInv
<1> SUFFICES ASSUME Init PROVE TInv
    OBVIOUS
<1>1. SeedPart \in AnyPart /\ <<SeedPart>> \in Seq(AnyPart) /\ <<>> \in Seq(AnyPart)
    BY SingleFacts DEF AnyPart
<1>2. TypeOK
  <2>1. store \in [Keys -> Seq(Parts \cup {SeedPart})]
    BY <1>1 DEF Init, AnyPart
  <2>2. drawn \subseteq Keys /\ sent \in [Clients -> 0..MaxSent]
    BY MinioAssumption DEF Init
  <2>3. fails \in 0..MaxFails /\ deletes \in 0..MaxDeletes
    BY MinioAssumption DEF Init
  <2> QED BY <2>1, <2>2, <2>3 DEF Init, TypeOK
<1>3. Tasks
    BY <1>1 DEF Init, Tasks, Rest
<1> QED BY <1>2, <1>3 DEF TInv

\* TypeOK and what it rests on are invariants.
LEMMA Typed == Spec => []TInv
BY TypeInit, TypeSteps, PTL DEF Spec

\* Types of the MinIO client: whatever names are drawn, read and written back, each
\* object is a sequence of parts some client sent, and a monitor's object has been drawn.
THEOREM TypeCorrect == Spec => []TypeOK
<1>1. TInv => TypeOK
    BY DEF TInv
<1> QED BY <1>1, Typed, PTL

-----------------------------------------------------------------------------
(* Nothing is stored twice *)

Contents(s) == {s[i] : i \in DOMAIN s}

\* A part is at most once in a sequence.
Single(s) == \A i, j \in DOMAIN s : s[i] = s[j] /\ s[i] # SeedPart => i = j

\* Object k holds part p, or will when a PUT under way is served.
Holds(k, p) ==
    \/ p \in Contents(store[k])
    \/ \E c \in Clients : /\ task[c].op = "put" /\ task[c].key = k
                          /\ p \in Contents(task[c].data)

\* Parts are numbered up to the last file sent.
Numbered == \A k \in Keys, p \in Parts : Holds(k, p) => p.number <= sent[p.by]

\* The part of an append that is still reading is nowhere.
Unheld == \A c \in Clients : task[c].op = "read" => \A k \in Keys : ~Holds(k, AppendedPart(c))

\* No part is in two objects, nor twice in one.
Homed == \A k, l \in Keys, p \in Parts : Holds(k, p) /\ Holds(l, p) => k = l
Singles ==
    /\ \A k \in Keys : Single(store[k])
    /\ \A c \in Clients : task[c].op = "put" => Single(task[c].data)

OneHome == Numbered /\ Unheld /\ Homed /\ Singles

\* Contents of what is made of parts.
LEMMA ContentsFacts ==
    ASSUME NEW s \in Seq(AnyPart), NEW p \in AnyPart
    PROVE  /\ Contents(<<>>) = {} /\ Single(<<>>)
           /\ Contents(<<p>>) = {p} /\ Single(<<p>>)
           /\ Contents(s) \subseteq AnyPart
           /\ Contents(Append(s, p)) = Contents(s) \cup {p}
           /\ Single(s) /\ p \notin Contents(s) => Single(Append(s, p))
<1>1. Contents(<<>>) = {} /\ Single(<<>>)
    BY DEF Contents, Single
<1>2. Contents(<<p>>) = {p} /\ Single(<<p>>)
    BY SingleFacts DEF Contents, Single
<1>3. Contents(s) \subseteq AnyPart
    BY DEF Contents
<1>4. Contents(Append(s, p)) = Contents(s) \cup {p}
    BY AppendFacts DEF Contents
<1>5. Single(s) /\ p \notin Contents(s) => Single(Append(s, p))
    BY AppendFacts DEF Contents, Single
<1> QED BY <1>1, <1>2, <1>3, <1>4, <1>5

\* A step that makes no object hold a part it did not hold, and sends nothing.
LEMMA NothingNew ==
    ASSUME TInv, TInv', OneHome, Singles', UNCHANGED sent,
           \A k \in Keys, p \in Parts : Holds(k, p)' => Holds(k, p),
           \A c \in Clients : (task[c].op = "read")' => task[c].op = "read"
    PROVE  OneHome'
<1>1. Numbered'
    BY DEF OneHome, Numbered
<1>2. Homed'
    BY DEF OneHome, Homed
<1>3. Unheld'
  <2> SUFFICES ASSUME NEW c \in Clients, (task[c].op = "read")', NEW k \in Keys,
                      Holds(k, AppendedPart(c))'
               PROVE  FALSE
    BY DEF Unheld
  <2>1. task[c].op = "read" /\ AppendedPart(c)' = AppendedPart(c) /\ AppendedPart(c) \in Parts
    BY TInvFacts, PartFacts DEF AppendedPart, TInv, Tasks
  <2> QED BY <2>1 DEF OneHome, Unheld
<1> QED BY <1>1, <1>2, <1>3 DEF OneHome

\* An idle step moves no part.
LEMMA IdleHome ==
    ASSUME TInv, TInv', OneHome, NEW c \in Clients, Idles(c)
    PROVE  OneHome'
<1>1. /\ task'[c].op \notin {"read", "put"} /\ \A d \in Clients \ {c} : task'[d] = task[d]
      /\ store' = store /\ sent' = sent
    BY TInvFacts, TaskKinds DEF Idles, Rest, Getting
<1>2. \A k \in Keys, p \in Parts : Holds(k, p)' => Holds(k, p)
    BY <1>1 DEF Holds
<1>3. Singles'
    BY <1>1 DEF OneHome, Singles
<1>4. \A d \in Clients : (task[d].op = "read")' => task[d].op = "read"
    BY <1>1
<1> QED BY <1>1, <1>2, <1>3, <1>4, NothingNew

\* A PUT puts into an object what was held for it.
LEMMA PutHome ==
    ASSUME TInv, TInv', OneHome, NEW c \in Clients, Put(c)
    PROVE  OneHome'
<1>1. /\ task[c] \in Putting /\ task[c].op = "put" /\ task[c].key \in Keys
      /\ store' \in {store, [store EXCEPT ![task[c].key] = task[c].data]}
      /\ task' = [task EXCEPT ![c] = Rest] /\ sent' = sent
    BY TInvFacts, TaskKinds DEF Put, End, Putting
<1>2. /\ task'[c].op \notin {"read", "put"} /\ \A d \in Clients \ {c} : task'[d] = task[d]
      /\ \A k \in Keys : store'[k] = store[k] \/ (k = task[c].key /\ store'[k] = task[c].data)
    BY <1>1, TInvFacts DEF Rest
<1>3. \A k \in Keys, p \in Parts : Holds(k, p)' => Holds(k, p)
    BY <1>1, <1>2 DEF Holds
<1>4. Singles'
    BY <1>1, <1>2 DEF OneHome, Singles
<1>5. \A d \in Clients : (task[d].op = "read")' => task[d].op = "read"
    BY <1>2
<1> QED BY <1>1, <1>3, <1>4, <1>5, NothingNew

\* A deletion only takes parts away.
LEMMA DeleteHome ==
    ASSUME TInv, TInv', OneHome, NEW c \in Clients, DeleteRemoteFile(c), ~Fails(c)
    PROVE  OneHome'
<1> PICK k \in Keys : store' = [store EXCEPT ![k] = <<>>]
    BY DeleteFacts
<1>1. /\ task'[c].op \notin {"read", "put"} /\ \A d \in Clients \ {c} : task'[d] = task[d]
      /\ \A l \in Keys : store'[l] = store[l] \/ store'[l] = <<>>
      /\ sent' = sent
    BY DeleteFacts, TInvFacts DEF Rest
<1>2. Contents(<<>>) = {} /\ Single(<<>>)
    BY DEF Contents, Single
<1>3. \A l \in Keys, p \in Parts : Holds(l, p)' => Holds(l, p)
    BY <1>1, <1>2 DEF Holds
<1>4. Singles'
    BY <1>1, <1>2 DEF OneHome, Singles
<1>5. \A d \in Clients : (task[d].op = "read")' => task[d].op = "read"
    BY <1>1
<1> QED BY <1>1, <1>3, <1>4, <1>5, NothingNew

\* The beginning of an append numbers a part that is nowhere yet.
LEMMA AppendHome ==
    ASSUME TInv, TInv', OneHome, NEW c \in Clients, AppendToRemoteFile(c), ~Fails(c)
    PROVE  OneHome'
<1>1. /\ task'[c].op # "put" /\ \A d \in Clients \ {c} : task'[d] = task[d]
      /\ task[c].op # "put" /\ store' = store
      /\ sent' = [sent EXCEPT ![c] = @ + 1]
  <2>1. /\ task[c] = Rest
        /\ task' = [task EXCEPT ![c] = task'[c]]
        /\ task'[c] = Rest \/ \E k \in Keys : task'[c] = [op |-> "read", key |-> k]
        /\ store' = store /\ sent' = [sent EXCEPT ![c] = @ + 1]
    BY TInvFacts DEF AppendToRemoteFile, End, GoOn, Objects
  <2> QED BY <2>1, TInvFacts DEF Rest
<1>2. \A k \in Keys, p \in Parts : Holds(k, p)' => Holds(k, p)
    BY <1>1 DEF Holds
<1>3. /\ sent'[c] = sent[c] + 1
      /\ \A d \in Clients \ {c} : sent'[d] = sent[d]
      /\ \A d \in Clients : sent[d] \in Nat
    BY <1>1, TInvFacts
<1>4. Numbered'
  <2> SUFFICES ASSUME NEW k \in Keys, NEW p \in Parts, Holds(k, p)'
               PROVE  p.number <= sent'[p.by]
    BY DEF Numbered
  <2>1. p.number <= sent[p.by] /\ p.by \in Clients /\ p.number \in Nat
    BY <1>2 DEF OneHome, Numbered, Parts
  <2> QED BY <1>3, <2>1
<1>5. Homed'
    BY <1>2 DEF OneHome, Homed
<1>6. Singles'
    BY <1>1 DEF OneHome, Singles
<1>7. Unheld'
  <2> SUFFICES ASSUME NEW d \in Clients, (task[d].op = "read")', NEW k \in Keys,
                      Holds(k, AppendedPart(d))'
               PROVE  FALSE
    BY DEF Unheld
  <2>1. CASE d = c
    <3>1. sent'[c] \in 1..MaxSent
      BY <2>1 DEF TInv, Tasks, TypeOK
    <3>2. /\ AppendedPart(c)' \in Parts /\ AppendedPart(c)'.by = c
          /\ AppendedPart(c)'.number = sent[c] + 1
      BY <1>3, <3>1, PartFacts DEF AppendedPart
    <3>3. sent[c] + 1 <= sent[c]
      BY <1>2, <2>1, <3>2 DEF OneHome, Numbered
    <3> QED BY <1>3, <3>3
  <2>2. CASE d # c
    <3>1. sent[d] \in 1..MaxSent /\ task[d].op = "read"
      BY <1>1, <2>2, TInvFacts DEF TInv, Tasks
    <3>2. AppendedPart(d)' = AppendedPart(d) /\ AppendedPart(d) \in Parts
      BY <1>3, <2>2, <3>1, PartFacts DEF AppendedPart
    <3> QED BY <1>2, <3>1, <3>2 DEF OneHome, Unheld
  <2> QED BY <2>1, <2>2
<1> QED BY <1>4, <1>5, <1>6, <1>7 DEF OneHome

\* A part that is nowhere is put into one object, under the number of the last file.
LEMMA NewHome ==
    ASSUME TInv, TInv', OneHome, Singles', NEW c \in Clients,
           NEW l \in Keys, NEW q \in Parts, q.by = c, q.number = sent'[c],
           \A k \in Keys : ~Holds(k, q),
           \A k \in Keys, p \in Parts : Holds(k, p)' => Holds(k, p) \/ (k = l /\ p = q),
           sent[c] <= sent'[c], \A d \in Clients \ {c} : sent'[d] = sent[d],
           (task[c].op # "read")',
           \A d \in Clients \ {c} : task'[d] = task[d]
    PROVE  OneHome'
<1>1. \A d \in Clients : sent[d] \in Nat /\ sent'[d] \in Nat
    BY TInvFacts DEF TInv, TypeOK
<1>2. Numbered'
  <2> SUFFICES ASSUME NEW k \in Keys, NEW p \in Parts, Holds(k, p)'
               PROVE  p.number <= sent'[p.by]
    BY DEF Numbered
  <2>1. p.by \in Clients /\ p.number \in Nat
    BY DEF Parts
  <2>2. CASE p = q
    BY <1>1, <2>1, <2>2
  <2>3. CASE Holds(k, p)
    BY <1>1, <2>1, <2>3 DEF OneHome, Numbered
  <2> QED BY <2>2, <2>3
<1>3. Homed'
    BY DEF OneHome, Homed
<1>4. Unheld'
  <2> SUFFICES ASSUME NEW d \in Clients, (task[d].op = "read")', NEW k \in Keys,
                      Holds(k, AppendedPart(d))'
               PROVE  FALSE
    BY DEF Unheld
  <2>1. d # c /\ task[d].op = "read" /\ sent[d] \in 1..MaxSent
    BY TInvFacts DEF TInv, Tasks
  <2>2. /\ AppendedPart(d)' = AppendedPart(d) /\ AppendedPart(d) \in Parts
        /\ AppendedPart(d).by = d
    BY <2>1, PartFacts DEF AppendedPart
  <2> QED BY <2>1, <2>2 DEF OneHome, Unheld
<1> QED BY <1>2, <1>3, <1>4 DEF OneHome

\* An upload holds a part nobody had for an object nobody had.
LEMMA UploadHome ==
    ASSUME TInv, TInv', OneHome, NEW c \in Clients, Uploads(c), task[c] = Rest
    PROVE  OneHome'
<1> PICK l \in Keys \ drawn :
       /\ task' = [task EXCEPT ![c] = [op |-> "put", key |-> l, data |-> <<Part(c)>>]]
       /\ sent' = [sent EXCEPT ![c] = @ + 1] /\ sent[c] < MaxSent
       /\ store' = store
    BY DEF Uploads
<1>1. /\ task'[c].op = "put" /\ task'[c].key = l /\ task'[c].data = <<Part(c)>>
      /\ \A d \in Clients \ {c} : task'[d] = task[d]
      /\ task[c].op = "rest"
      /\ sent'[c] = sent[c] + 1 /\ \A d \in Clients \ {c} : sent'[d] = sent[d]
      /\ sent[c] \in Nat
    BY TInvFacts DEF Rest
<1>2. /\ Part(c) \in Parts /\ Part(c).by = c /\ Part(c).number = sent'[c]
      /\ Part(c) \in AnyPart
    BY <1>1, NewPart, PartFacts DEF Part, AnyPart
<1>3. Contents(<<Part(c)>>) = {Part(c)} /\ Single(<<Part(c)>>)
    BY <1>2, SingleFacts DEF Contents, Single
<1>4. \A k \in Keys : ~Holds(k, Part(c))
    BY <1>1, <1>2 DEF OneHome, Numbered
<1>5. \A k \in Keys, p \in Parts : Holds(k, p)' => Holds(k, p) \/ (k = l /\ p = Part(c))
    BY <1>1, <1>3 DEF Holds
<1>6. Singles'
    BY <1>1, <1>3 DEF OneHome, Singles
<1>7. sent[c] <= sent'[c]
    BY <1>1
<1> QED BY <1>1, <1>2, <1>4, <1>5, <1>6, <1>7, NewHome

\* An append holds its part for the object it has read.
LEMMA ReadHome ==
    ASSUME TInv, TInv', OneHome, NEW c \in Clients, ReadExisting(c)
    PROVE  OneHome'
<1> DEFINE l == task[c].key
           q == AppendedPart(c)
<1> PICK old \in Seq(AnyPart) :
       /\ task'[c].data = Append(old, q) /\ (old = store[l] \/ old = <<>>)
    BY ReadFacts
<1>1. /\ task[c].op = "read" /\ l \in Keys
      /\ task'[c].op = "put" /\ task'[c].key = l
      /\ \A d \in Clients \ {c} : task'[d] = task[d]
      /\ sent' = sent /\ store' = store /\ sent[c] \in Nat
    BY ReadFacts, TInvFacts DEF Reading, Putting
<1>2. q \in Parts /\ q.by = c /\ q.number = sent'[c] /\ q \in AnyPart
    BY <1>1, ReadFacts, PartFacts DEF AppendedPart
<1>3. \A k \in Keys : ~Holds(k, q)
    BY <1>1 DEF OneHome, Unheld
<1>4. Contents(old) \subseteq Contents(store[l]) /\ Single(old)
  <2>1. Contents(<<>>) = {} /\ Single(<<>>)
    BY DEF Contents, Single
  <2> QED BY <1>1, <2>1 DEF OneHome, Singles
<1>5. Contents(Append(old, q)) = Contents(old) \cup {q} /\ Single(Append(old, q))
  <2>1. q \notin Contents(old)
    BY <1>1, <1>3, <1>4 DEF Holds
  <2> QED BY <1>2, <1>4, <2>1, ContentsFacts
<1> HIDE DEF l, q
<1>6. \A k \in Keys, p \in Parts : Holds(k, p)' => Holds(k, p) \/ (k = l /\ p = q)
    BY <1>1, <1>4, <1>5 DEF Holds
<1>7. Singles'
    BY <1>1, <1>5 DEF OneHome, Singles
<1>8. sent[c] <= sent'[c]
    BY <1>1
<1> QED BY <1>1, <1>2, <1>3, <1>6, <1>7, <1>8, NewHome

\* Every step keeps each part in one place.
LEMMA HomeSteps == TInv /\ TInv' /\ OneHome /\ [Next]_vars => OneHome'
<1> SUFFICES ASSUME TInv, TInv', OneHome, [Next]_vars PROVE OneHome'
    OBVIOUS
<1>1. CASE UNCHANGED vars
  <2>1. Singles'
    BY <1>1 DEF vars, OneHome, Singles
  <2>2. \A k \in Keys, p \in Parts : Holds(k, p)' => Holds(k, p)
    BY <1>1 DEF vars, Holds
  <2> QED BY <1>1, <2>1, <2>2, NothingNew DEF vars
<1>2. ASSUME NEW c \in Clients, UploadFile(c) \/ MonitorUpload(c) PROVE OneHome'
  <2>1. task[c] = Rest
    BY <1>2 DEF UploadFile, MonitorUpload
  <2> QED BY <1>2, <2>1, UploadSteps, UploadHome
<1> QED BY <1>1, <1>2, Steps, IdleHome, PutHome, AppendHome, ReadHome, DeleteHome

\* At the start there are only seeds.
LEMMA HomeInit == Init => OneHome
<1> SUFFICES ASSUME Init PROVE OneHome
    OBVIOUS
<1>1. \A k \in Keys : store[k] = <<SeedPart>> \/ store[k] = <<>>
    BY DEF Init
<1>2. \A c \in Clients : task[c].op = "rest"
    BY DEF Init, Rest
<1>3. /\ Contents(<<SeedPart>>) = {SeedPart} /\ Single(<<SeedPart>>)
      /\ Contents(<<>>) = {} /\ Single(<<>>)
    BY DEF Contents, Single
<1>4. \A k \in Keys, p \in Parts : ~Holds(k, p)
  <2>1. SeedPart \notin Parts
    BY MinioAssumption DEF SeedPart, Parts
  <2> QED BY <1>1, <1>2, <1>3, <2>1 DEF Holds
<1>5. Singles
    BY <1>1, <1>2, <1>3 DEF Singles
<1> QED BY <1>2, <1>4, <1>5 DEF OneHome, Numbered, Unheld, Homed

\* Whatever requests fail, before or after they took effect, whatever is deleted and
\* however appends of any number of clients interleave: no part a client sends is
\* stored twice, in one object or in two.
THEOREM StoresOnce == Spec => []StoredOnce
<1>1. TInv /\ OneHome => StoredOnce
  <2> SUFFICES ASSUME TInv, OneHome, NEW k \in Keys, NEW l \in Keys,
                      NEW i \in DOMAIN store[k], NEW j \in DOMAIN store[l],
                      store[k][i] = store[l][j], store[k][i] # SeedPart
               PROVE  k = l /\ i = j
    BY DEF StoredOnce
  <2>1. /\ store[k][i] \in Contents(store[k]) /\ store[k][i] \in Contents(store[l])
    BY DEF Contents
  <2>2. store[k][i] \in Parts
    BY TInvFacts DEF AnyPart
  <2>3. k = l
    BY <2>1, <2>2 DEF OneHome, Homed, Holds
  <2> QED BY <2>3 DEF OneHome, Singles, Single
<1> QED BY <1>1, Typed, HomeInit, HomeSteps, PTL DEF Spec

-----------------------------------------------------------------------------
(* The monitor's file, and appends *)

\* An object that is to be appended to is there; what is PUT is not empty; the
\* monitor's object begins with the monitor's part, in the bucket and in a PUT.
ReadsSomething == \A c \in Clients : task[c].op = "read" => store[task[c].key] # <<>>
PutsSomething == \A c \in Clients : task[c].op = "put" => task[c].data # <<>>
PutsBehindMonitor ==
    \A c, d \in Clients :
       task[c].op = "put" /\ task[c].key = monitor[d] => Head(task[c].data) = lastMonitor[d]
MonitorFirst ==
    \A d \in Clients :
       monitor[d] # NoKey /\ store[monitor[d]] # <<>>
       => Head(store[monitor[d]]) = lastMonitor[d]

\* All this until the first fault.
Undisturbed ==
    ~faulty => ReadsSomething /\ PutsSomething /\ PutsBehindMonitor /\ MonitorFirst

\* A PUT adds one part to what its object holds, and is an appender's where it holds
\* something.
AddsOnePart ==
    \A c \in Clients : task[c].op = "put" =>
       \E p \in AnyPart : task[c].data = Append(store[task[c].key], p)
AppendersPut ==
    \A c \in Clients : task[c].op = "put" /\ store[task[c].key] # <<>> => c \in Appenders

Behind == ~faulty => AddsOnePart /\ AppendersPut

\* No two clients are about to write the same object: no append has read what
\* another is about to replace.
OnePut ==
    \A c, d \in Clients :
       task[c].op = "put" /\ task[d].op = "put" /\ task[c].key = task[d].key => c = d

Apart == ~faulty => OnePut

\* There is no fault when neither count is above zero, and only then.
LEMMA Counts ==
    ASSUME NEW m \in Nat, NEW n \in Nat
    PROVE  m + n > 0 <=> m # 0 \/ n # 0
OBVIOUS

\* Until the first fault, what comes before it is without one.
LEMMA NoFault ==
    ASSUME TInv, [Next]_vars, ~faulty'
    PROVE  ~faulty /\ fails = 0 /\ deletes = 0 /\ fails' = 0 /\ deletes' = 0
<1>1. /\ fails \in Nat /\ deletes \in Nat /\ fails' \in Nat /\ deletes' \in Nat
  <2>1. TInv'
    BY TypeSteps
  <2> QED BY <2>1, TInvFacts, MinioAssumption DEF TInv, TypeOK
<1>2. fails' \in {fails, fails + 1} /\ deletes' \in {deletes, deletes + 1}
  <2>1. CASE UNCHANGED vars
    BY <2>1 DEF vars
  <2>2. ASSUME NEW c \in Clients, Idles(c)
        PROVE  fails' \in {fails, fails + 1} /\ deletes' \in {deletes, deletes + 1}
    BY <2>2 DEF Idles
  <2>3. ASSUME NEW c \in Clients, UploadFile(c) \/ MonitorUpload(c)
        PROVE  fails' \in {fails, fails + 1} /\ deletes' \in {deletes, deletes + 1}
    BY <2>3 DEF UploadFile, MonitorUpload, env
  <2>4. ASSUME NEW c \in Clients, Put(c)
        PROVE  fails' \in {fails, fails + 1} /\ deletes' \in {deletes, deletes + 1}
    BY <2>4 DEF Put
  <2>5. ASSUME NEW c \in Clients, AppendToRemoteFile(c), ~Fails(c)
        PROVE  fails' \in {fails, fails + 1} /\ deletes' \in {deletes, deletes + 1}
    BY <2>5 DEF AppendToRemoteFile, env
  <2>6. ASSUME NEW c \in Clients, ReadExisting(c)
        PROVE  fails' \in {fails, fails + 1} /\ deletes' \in {deletes, deletes + 1}
    BY <2>6, ReadFacts
  <2>7. ASSUME NEW c \in Clients, DeleteRemoteFile(c), ~Fails(c)
        PROVE  fails' \in {fails, fails + 1} /\ deletes' \in {deletes, deletes + 1}
    BY <2>7, DeleteFacts
  <2> QED BY <2>1, <2>2, <2>3, <2>4, <2>5, <2>6, <2>7, Steps
<1>3. fails' = 0 /\ deletes' = 0
    BY <1>1, Counts DEF faulty
<1>4. fails + 1 # 0 /\ deletes + 1 # 0
    BY <1>1
<1>5. fails = 0 /\ deletes = 0
    BY <1>2, <1>3, <1>4
<1> QED BY <1>1, <1>3, <1>5, Counts DEF faulty

\* Until the first fault, a step that changes no object, and of the tasks one that
\* neither reads nor writes after it.
LEMMA IdleUndisturbed ==
    ASSUME TInv, Undisturbed, ~faulty, NEW c \in Clients, Idles(c)
    PROVE  Undisturbed'
<1>1. /\ task'[c].op \notin {"read", "put"}
      /\ \A d \in Clients \ {c} : task'[d] = task[d]
      /\ UNCHANGED <<store, monitor, lastMonitor>>
    BY TInvFacts, TaskKinds DEF Idles, Rest, Getting
<1>2. ReadsSomething' /\ PutsSomething' /\ MonitorFirst'
    BY <1>1 DEF Undisturbed, ReadsSomething, PutsSomething, MonitorFirst
<1>3. PutsBehindMonitor'
    BY <1>1 DEF Undisturbed, PutsBehindMonitor
<1> QED BY <1>2, <1>3 DEF Undisturbed

\* An upload has a name that no monitor keeps, or its own monitor.
LEMMA UploadUndisturbed ==
    ASSUME TInv, Undisturbed, ~faulty, NEW c \in Clients, Uploads(c)
    PROVE  Undisturbed'
<1> PICK k \in Keys \ drawn :
       /\ task' = [task EXCEPT ![c] = [op |-> "put", key |-> k, data |-> <<Part(c)>>]]
       /\ \/ UNCHANGED <<monitor, lastMonitor>>
          \/ /\ monitor' = [monitor EXCEPT ![c] = k]
             /\ lastMonitor' = [lastMonitor EXCEPT ![c] = Part(c)]
       /\ UNCHANGED store
    BY DEF Uploads
<1>1. /\ task'[c].op = "put" /\ task'[c].key = k /\ task'[c].data = <<Part(c)>>
      /\ \A d \in Clients \ {c} : task'[d] = task[d]
    BY TInvFacts
<1>2. /\ \A d \in Clients : monitor[d] # k
      /\ \A d \in Clients : task[d].op \in {"read", "put"} => task[d].key # k
      /\ store[k] = <<>>
    BY MinioAssumption DEF TInv, TypeOK, Tasks
<1>3. \A d \in Clients : \/ monitor'[d] = monitor[d] /\ lastMonitor'[d] = lastMonitor[d]
                         \/ monitor'[d] = k /\ lastMonitor'[d] = Part(c)
    BY DEF TInv, TypeOK, Tasks
<1>4. <<Part(c)>> # <<>> /\ Head(<<Part(c)>>) = Part(c)
    OBVIOUS
<1>5. ReadsSomething' /\ PutsSomething'
    BY <1>1, <1>4 DEF Undisturbed, ReadsSomething, PutsSomething
<1>6. PutsBehindMonitor'
    BY <1>1, <1>2, <1>3, <1>4 DEF Undisturbed, PutsBehindMonitor
<1>7. MonitorFirst'
    BY <1>2, <1>3 DEF Undisturbed, MonitorFirst
<1> QED BY <1>5, <1>6, <1>7 DEF Undisturbed

\* What is PUT begins as the monitor left it.
LEMMA PutUndisturbed ==
    ASSUME TInv, Undisturbed, ~faulty, NEW c \in Clients, Put(c)
    PROVE  Undisturbed'
<1>1. /\ task[c] \in Putting /\ task[c].op = "put" /\ task[c].key \in Keys
      /\ store' \in {store, [store EXCEPT ![task[c].key] = task[c].data]}
      /\ task' = [task EXCEPT ![c] = Rest] /\ UNCHANGED <<monitor, lastMonitor>>
    BY TInvFacts, TaskKinds DEF Put, End, Putting
<1>2. /\ task'[c].op \notin {"read", "put"}
      /\ \A d \in Clients \ {c} : task'[d] = task[d]
      /\ \A k \in Keys : store'[k] = store[k] \/ (k = task[c].key /\ store'[k] = task[c].data)
    BY <1>1, TInvFacts DEF Rest
<1>3. ReadsSomething'
  <2>1. \A d \in Clients : task[d].op = "read" => task[d].key \in Keys
    BY TInvFacts, TaskKinds DEF Reading
  <2> QED BY <1>1, <1>2, <2>1 DEF Undisturbed, ReadsSomething, PutsSomething
<1>4. PutsSomething' /\ PutsBehindMonitor'
    BY <1>1, <1>2 DEF Undisturbed, PutsSomething, PutsBehindMonitor
<1>5. MonitorFirst'
    BY <1>1, <1>2, TInvFacts DEF Undisturbed, MonitorFirst, PutsBehindMonitor
<1> QED BY <1>3, <1>4, <1>5 DEF Undisturbed

\* An append chooses among the objects that are there.
LEMMA AppendUndisturbed ==
    ASSUME TInv, Undisturbed, ~faulty, NEW c \in Clients, AppendToRemoteFile(c), ~Fails(c)
    PROVE  Undisturbed'
<1>1. /\ task'[c].op # "put"
      /\ task'[c].op = "read" => store[task'[c].key] # <<>>
      /\ \A d \in Clients \ {c} : task'[d] = task[d]
      /\ UNCHANGED <<store, monitor, lastMonitor>>
  <2>1. /\ task' = [task EXCEPT ![c] = task'[c]]
        /\ task'[c] = Rest \/ \E k \in Objects : task'[c] = [op |-> "read", key |-> k]
        /\ UNCHANGED <<store, monitor, lastMonitor>>
    BY TInvFacts DEF AppendToRemoteFile, End, GoOn
  <2> QED BY <2>1, TInvFacts DEF Rest, Objects
<1>2. ReadsSomething' /\ PutsSomething' /\ MonitorFirst'
    BY <1>1 DEF Undisturbed, ReadsSomething, PutsSomething, MonitorFirst
<1>3. PutsBehindMonitor'
    BY <1>1 DEF Undisturbed, PutsBehindMonitor
<1> QED BY <1>2, <1>3 DEF Undisturbed

\* Until the first fault, what is read is what the object holds.
LEMMA ReadUndisturbed ==
    ASSUME TInv, Undisturbed, ~faulty, fails' = fails, NEW c \in Clients, ReadExisting(c)
    PROVE  /\ Undisturbed'
           /\ task'[c].data = Append(store[task[c].key], AppendedPart(c))
<1> DEFINE k == task[c].key
<1>1. /\ task[c].op = "read" /\ k \in Keys
      /\ task'[c].op = "put" /\ task'[c].key = k
      /\ \A d \in Clients \ {c} : task'[d] = task[d]
      /\ UNCHANGED <<store, monitor, lastMonitor>>
    BY ReadFacts, TInvFacts DEF Reading, Putting
<1>2. task'[c].data = Append(store[k], AppendedPart(c))
    BY ReadFacts
<1>3. store[k] # <<>> /\ store[k] \in Seq(AnyPart)
    BY <1>1, TInvFacts DEF Undisturbed, ReadsSomething
<1>4. task'[c].data # <<>> /\ Head(task'[c].data) = Head(store[k])
    BY <1>2, <1>3, ReadFacts, AppendFacts
<1>5. ReadsSomething' /\ PutsSomething' /\ MonitorFirst'
    BY <1>1, <1>4 DEF Undisturbed, ReadsSomething, PutsSomething, MonitorFirst
<1>6. PutsBehindMonitor'
  <2> SUFFICES ASSUME NEW d \in Clients, NEW e \in Clients, task'[d].op = "put",
                      task'[d].key = monitor'[e]
               PROVE  Head(task'[d].data) = lastMonitor'[e]
    BY DEF PutsBehindMonitor
  <2>1. CASE d = c
    <3>1. monitor[e] = k /\ monitor[e] # NoKey
      BY <1>1, <2>1, MinioAssumption
    <3> QED BY <1>1, <1>3, <1>4, <2>1, <3>1 DEF Undisturbed, MonitorFirst
  <2>2. CASE d # c
    BY <1>1, <2>2 DEF Undisturbed, PutsBehindMonitor
  <2> QED BY <2>1, <2>2
<1> QED BY <1>2, <1>5, <1>6 DEF Undisturbed

\* Every step keeps it.
LEMMA UndisturbedSteps == TInv /\ Undisturbed /\ [Next]_vars => Undisturbed'
<1> SUFFICES ASSUME TInv, Undisturbed, [Next]_vars, ~faulty' PROVE Undisturbed'
    BY DEF Undisturbed
<1>1. ~faulty /\ fails' = fails /\ deletes' = deletes /\ deletes = 0
    BY NoFault
<1>2. CASE UNCHANGED vars
    BY <1>1, <1>2 DEF vars, Undisturbed, ReadsSomething, PutsSomething, PutsBehindMonitor,
                          MonitorFirst
<1>3. ASSUME NEW c \in Clients, DeleteRemoteFile(c), ~Fails(c) PROVE FALSE
    BY <1>1, <1>3, DeleteFacts
<1> QED BY <1>1, <1>2, <1>3, Steps, IdleUndisturbed, UploadUndisturbed, UploadSteps,
           PutUndisturbed, AppendUndisturbed, ReadUndisturbed

\* At the start no monitor has uploaded.
LEMMA UndisturbedInit == Init => Undisturbed
BY DEF Init, Undisturbed, Rest, ReadsSomething, PutsSomething, PutsBehindMonitor,
       MonitorFirst

\* Until a request fails or an object is deleted, the object a monitor uploaded begins
\* with what it uploaded, whoever appends to it and whatever names the others draw.
THEOREM MonitorsOwn == Spec => []MonitorFileIsOwn
<1>1. Undisturbed => MonitorFileIsOwn
    BY DEF Undisturbed, MonitorFirst, MonitorFileIsOwn
<1> QED BY <1>1, Typed, UndisturbedInit, UndisturbedSteps, PTL DEF Spec

\* At most one client appends.
OneAppender == \A c, d \in Appenders : c = d

\* Until the first fault, one PUT on an object at a time, behind what it holds.
LEMMA IdleBehind ==
    ASSUME TInv, Behind, Apart, ~faulty, NEW c \in Clients, Idles(c)
    PROVE  Behind' /\ Apart'
<1>1. /\ task'[c].op # "put"
      /\ \A d \in Clients \ {c} : task'[d] = task[d]
      /\ store' = store
    BY TInvFacts, TaskKinds DEF Idles, Rest, Getting
<1> QED BY <1>1 DEF Behind, Apart, AddsOnePart, AppendersPut, OnePut

\* An upload goes behind nothing, where nobody else writes.
LEMMA UploadBehind ==
    ASSUME TInv, Behind, Apart, ~faulty, NEW c \in Clients, Uploads(c)
    PROVE  Behind' /\ Apart'
<1> PICK k \in Keys \ drawn :
       /\ task' = [task EXCEPT ![c] = [op |-> "put", key |-> k, data |-> <<Part(c)>>]]
       /\ UNCHANGED store /\ sent[c] < MaxSent
    BY DEF Uploads
<1>1. /\ task'[c].op = "put" /\ task'[c].key = k /\ task'[c].data = <<Part(c)>>
      /\ \A d \in Clients \ {c} : task'[d] = task[d]
    BY TInvFacts
<1>2. /\ \A d \in Clients : task[d].op = "put" => task[d].key # k
      /\ store[k] = <<>>
    BY DEF TInv, Tasks
<1>3. Part(c) \in AnyPart /\ <<Part(c)>> = Append(store[k], Part(c))
    BY <1>2, NewPart, SingleFacts
<1>4. AddsOnePart'
    BY <1>1, <1>2, <1>3 DEF Behind, AddsOnePart
<1>5. AppendersPut' /\ OnePut'
    BY <1>1, <1>2, <1>3 DEF Behind, Apart, AppendersPut, OnePut
<1> QED BY <1>4, <1>5 DEF Behind, Apart

\* A PUT changes only its own object, which no other PUT waits for.
LEMMA PutBehind ==
    ASSUME TInv, Behind, Apart, ~faulty, NEW c \in Clients, Put(c)
    PROVE  Behind' /\ Apart'
<1>1. /\ task[c] \in Putting /\ task[c].op = "put"
      /\ store' \in {store, [store EXCEPT ![task[c].key] = task[c].data]}
      /\ task' = [task EXCEPT ![c] = Rest]
    BY TInvFacts, TaskKinds DEF Put, End
<1>2. /\ task'[c].op # "put"
      /\ \A d \in Clients \ {c} : task'[d] = task[d]
      /\ \A k \in Keys : k # task[c].key => store'[k] = store[k]
    BY <1>1, TInvFacts DEF Rest
<1>3. \A d \in Clients : task[d].op = "put" => task[d].key \in Keys
    BY TInvFacts, TaskKinds DEF Putting
<1>4. \A d \in Clients : (task[d].op = "put")' =>
          task[d].op = "put" /\ task'[d] = task[d] /\ store'[task[d].key] = store[task[d].key]
    BY <1>1, <1>2, <1>3 DEF Apart, OnePut
<1>5. AddsOnePart'
  <2> SUFFICES ASSUME NEW d \in Clients, (task[d].op = "put")'
               PROVE  \E p \in AnyPart : task'[d].data = Append(store'[task'[d].key], p)
    BY DEF AddsOnePart
  <2>1. PICK p \in AnyPart : task[d].data = Append(store[task[d].key], p)
    BY <1>4 DEF Behind, AddsOnePart
  <2> QED BY <1>4, <2>1
<1>6. AppendersPut' /\ OnePut'
    BY <1>4 DEF Behind, Apart, AppendersPut, OnePut
<1> QED BY <1>5, <1>6 DEF Behind, Apart

\* An append that begins has nothing to write yet.
LEMMA AppendBehind ==
    ASSUME TInv, Behind, Apart, ~faulty, NEW c \in Clients, AppendToRemoteFile(c), ~Fails(c)
    PROVE  Behind' /\ Apart'
<1>1. /\ task'[c].op # "put"
      /\ \A d \in Clients \ {c} : task'[d] = task[d]
      /\ store' = store
  <2>1. /\ task' = [task EXCEPT ![c] = task'[c]]
        /\ task'[c] = Rest \/ \E k \in Objects : task'[c] = [op |-> "read", key |-> k]
        /\ store' = store
    BY TInvFacts DEF AppendToRemoteFile, End, GoOn
  <2> QED BY <2>1, TInvFacts DEF Rest
<1> QED BY <1>1 DEF Behind, Apart, AddsOnePart, AppendersPut, OnePut

\* An append that has read writes behind what is there; of one appender, alone.
LEMMA ReadBehind ==
    ASSUME TInv, Undisturbed, Behind, Apart, ~faulty, fails' = fails,
           NEW c \in Clients, ReadExisting(c)
    PROVE  Behind' /\ (OneAppender => Apart')
<1> DEFINE k == task[c].key
<1>1. /\ task[c].op = "read" /\ c \in Appenders
      /\ task'[c].op = "put" /\ task'[c].key = k
      /\ \A d \in Clients \ {c} : task'[d] = task[d]
      /\ store' = store
    BY ReadFacts, TInvFacts DEF Reading, Putting
<1>2. task'[c].data = Append(store[k], AppendedPart(c)) /\ AppendedPart(c) \in AnyPart
    BY ReadFacts, ReadUndisturbed
<1>3. store[k] # <<>>
    BY <1>1 DEF Undisturbed, ReadsSomething
<1>4. AddsOnePart'
    BY <1>1, <1>2 DEF Behind, AddsOnePart
<1>5. AppendersPut'
    BY <1>1 DEF Behind, AppendersPut
<1>6. ASSUME OneAppender PROVE OnePut'
  <2>1. \A d \in Clients : task[d].op = "put" => task[d].key # k
    BY <1>1, <1>3, <1>6 DEF Behind, AppendersPut, OneAppender
  <2> QED BY <1>1, <2>1 DEF Apart, OnePut
<1> QED BY <1>4, <1>5, <1>6 DEF Behind, Apart

\* Every step keeps PUTs behind what is there, as long as they are apart, and the
\* steps of one appender keep them apart.
LEMMA BehindSteps ==
    TInv /\ Undisturbed /\ Behind /\ Apart /\ [Next]_vars
    => Behind' /\ (OneAppender => Apart')
<1> SUFFICES ASSUME TInv, Undisturbed, Behind, Apart, [Next]_vars, ~faulty'
             PROVE  Behind' /\ (OneAppender => Apart')
    BY DEF Behind, Apart
<1>1. ~faulty /\ fails' = fails /\ deletes' = deletes /\ deletes = 0
    BY NoFault
<1>2. CASE UNCHANGED vars
    BY <1>1, <1>2 DEF vars, Behind, Apart, AddsOnePart, AppendersPut, OnePut
<1>3. ASSUME NEW c \in Clients, DeleteRemoteFile(c), ~Fails(c) PROVE FALSE
    BY <1>1, <1>3, DeleteFacts
<1> QED BY <1>1, <1>2, <1>3, Steps, IdleBehind, UploadBehind, UploadSteps,
           PutBehind, AppendBehind, ReadBehind

\* At the start nobody writes.
LEMMA BehindInit == Init => Behind /\ Apart
BY DEF Init, Behind, Apart, AddsOnePart, AppendersPut, OnePut, Rest

\* A step of the clients is at most one step of the store whose append is atomic,
\* until the first fault.
LEMMA StoreSteps ==
    TInv /\ Behind /\ [Next]_vars => [Atomic!AddPart \/ faulty']_store
<1> SUFFICES ASSUME TInv, Behind, [Next]_vars, ~faulty', store' # store
             PROVE  Atomic!AddPart
    OBVIOUS
<1>1. ~faulty /\ deletes' = deletes /\ deletes = 0 /\ fails' = fails
    BY NoFault
<1>2. PICK c \in Clients : Put(c)
  <2>1. ASSUME NEW c \in Clients, DeleteRemoteFile(c), ~Fails(c) PROVE FALSE
    BY <1>1, <2>1, DeleteFacts
  <2>2. ASSUME NEW c \in Clients, \/ Idles(c) \/ UploadFile(c) \/ MonitorUpload(c)
                                  \/ AppendToRemoteFile(c) /\ ~Fails(c)
                                  \/ ReadExisting(c)
        PROVE  FALSE
    BY <2>2 DEF Idles, UploadFile, MonitorUpload, AppendToRemoteFile, ReadExisting
  <2> QED BY <2>1, <2>2, Steps DEF vars
<1>3. /\ task[c].op = "put" /\ task[c].key \in Keys
      /\ store' = [store EXCEPT ![task[c].key] = task[c].data]
    BY <1>2, TInvFacts, TaskKinds DEF Put, Putting
<1>4. PICK p \in AnyPart : task[c].data = Append(store[task[c].key], p)
    BY <1>1, <1>3 DEF Behind, AddsOnePart
<1>5. store' = [store EXCEPT ![task[c].key] = Append(@, p)]
    BY <1>3, <1>4
<1> QED BY <1>3, <1>5 DEF Atomic!AddPart, AnyPart

\* With any number of appenders the bucket implements AppendStore in every run in which
\* no two of them are ever between reading and writing back the same object: although an
\* append takes three requests, between which other clients upload, download and choose
\* the same objects, until the first fault each PUT adds exactly one part to an object
\* and takes none away.  (Where two overlap, the second PUT undoes the first.)
THEOREM AtomicallyApart == Spec /\ []Apart => AppendsAreAtomic
<1>1. Init => Atomic!Init
  <2>1. TInv => Atomic!Init
    BY TInvFacts DEF Atomic!Init, AnyPart
  <2> QED BY <2>1, TypeInit
<1>2. Spec /\ []Apart => [][Atomic!AddPart \/ faulty']_store
    BY Typed, UndisturbedInit, UndisturbedSteps, BehindInit, BehindSteps, StoreSteps, PTL
    DEF Spec
<1> QED BY <1>1, <1>2, PTL DEF Spec, AppendsAreAtomic, Atomic!Spec

\* With one appender they never overlap, so every run implements AppendStore.
THEOREM Atomically == ASSUME OneAppender PROVE Spec => AppendsAreAtomic
<1>1. TInv /\ Undisturbed /\ Behind /\ Apart /\ [Next]_vars => Behind' /\ Apart'
    BY BehindSteps
<1>2. Spec => []Apart
    BY <1>1, Typed, UndisturbedInit, UndisturbedSteps, BehindInit, PTL DEF Spec
<1> QED BY <1>2, AtomicallyApart, PTL
=============================================================================
