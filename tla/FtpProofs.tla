------------------------------ MODULE FtpProofs ------------------------------
(***************************************************************************)
(* Proofs about FtpTgen, for any number of clients, any directories, any   *)
(* actions asked for, and any number of sessions closed and outages.       *)
(***************************************************************************)
EXTENDS FtpTgen, SequenceTheorems, TLAPS

AnyPart == Parts \cup {SeedPart}
Outcomes == [Clients -> {"ok", "failed", EmptyListing}]

\* What a client may be doing.
Browsing(t) == t = [op |-> "browse", left |-> t.left]
Selecting(t) == /\ t = [op |-> t.op, step |-> "select", rel |-> t.rel]
                /\ t.op \in {"download", "append"}
AtFile(t) == /\ t = [op |-> t.op, rel |-> t.rel, name |-> t.name, at |-> t.at, step |-> t.step]
             /\ t.op \in {"download", "append"} /\ t.step \in {"zip", "transfer"}
Uploading(c, t) == /\ t = [op |-> t.op, step |-> t.step, rel |-> t.rel, name |-> t.name,
                           at |-> t.at]
                   /\ t.op = "upload" /\ t.step = "transfer" /\ t.name = uploadName[c]
Task(c, t) == t = Rest \/ Browsing(t) \/ Selecting(t) \/ AtFile(t) \/ Uploading(c, t)

\* Each client is doing one of these; one that is to send a file may send one more.
Tasks ==
    /\ task = [c \in Clients |-> task[c]]
    /\ \A c \in Clients :
          /\ Task(c, task[c])
          /\ task[c].op \in {"upload", "append"} => sent[c] < MaxTransfers

\* The inductive invariant of types.
TInv == TypeOK /\ Tasks

-----------------------------------------------------------------------------
(* Facts the steps start from *)

\* What the steps of a client start from.
LEMMA TInvFacts ==
    ASSUME TInv
    PROVE  /\ files \in [Paths -> Seq(AnyPart)]
           /\ session \in [Clients -> Sessions] /\ cwd \in [Clients -> Dirs]
           /\ sent \in [Clients -> 0..MaxTransfers]
           /\ outcome \in Outcomes
           /\ task = [c \in Clients |-> task[c]]
           /\ \A c \in Clients : session[c] \in {"none", "dead"} => cwd[c] = <<>>
           /\ drops \in 0..MaxDrops /\ outages \in 0..MaxOutages
           /\ MaxDrops \in Nat /\ MaxOutages \in Nat /\ MaxTransfers \in Nat
BY FtpAssumption DEF TInv, TypeOK, Tasks, AnyPart, Outcomes

\* Operations tell the tasks apart.
LEMMA TaskKinds ==
    ASSUME NEW c \in Clients, NEW t, Task(c, t)
    PROVE  /\ t.op = "rest" <=> t = Rest
           /\ t.op = "browse" => Browsing(t)
           /\ t.op \in {"download", "append"} /\ t.step = "select" => Selecting(t)
           /\ t.op \in {"download", "append"} /\ t.step # "select" => AtFile(t)
           /\ t.op = "upload" <=> Uploading(c, t)
BY DEF Task, Rest, Browsing, Selecting, AtFile, Uploading

\* The task of one client changes.
LEMMA TaskSet ==
    ASSUME TInv, NEW c \in Clients, NEW t, Task(c, t),
           t.op \in {"upload", "append"} => sent'[c] < MaxTransfers,
           \A d \in Clients \ {c} : sent'[d] = sent[d],
           task' = [task EXCEPT ![c] = t]
    PROVE  Tasks'
<1>1. task' = [d \in Clients |-> IF d = c THEN t ELSE task[d]]
    BY TInvFacts
<1>2. /\ task' = [d \in Clients |-> task'[d]]
      /\ task'[c] = t
      /\ \A d \in Clients \ {c} : task'[d] = task[d]
    BY <1>1
<1> QED BY <1>2 DEF TInv, Tasks

\* The session and the working directory after a health check.
LEMMA HealthFacts ==
    ASSUME TInv, NEW c \in Clients, HealthCheck(c)
    PROVE  /\ session' \in [Clients -> Sessions] /\ cwd' \in [Clients -> Dirs]
           /\ \A d \in Clients : session'[d] \in {"none", "dead"} => cwd'[d] = <<>>
           /\ Healthy(c) <=> session'[c] = "live"
           /\ session[c] = "live" => session' = session /\ cwd' = cwd
           /\ \A d \in Clients \ {c} : session'[d] = session[d] /\ cwd'[d] = cwd[d]
<1>1. session[c] \in Sessions /\ <<>> \in Dirs /\ cwd[c] \in Dirs
    BY TInvFacts, FtpAssumption
<1>2. Checked(session[c]) \in Sessions /\ (session[c] = "live" => Checked(session[c]) = "live")
    BY <1>1 DEF Checked, Connected, Sessions
<1>3. session' = [session EXCEPT ![c] = Checked(session[c])]
      /\ cwd' = [cwd EXCEPT ![c] = IF session[c] = "live" THEN cwd[c] ELSE <<>>]
    BY DEF HealthCheck
<1>4. session' \in [Clients -> Sessions] /\ cwd' \in [Clients -> Dirs]
    BY <1>1, <1>2, <1>3, TInvFacts
<1>5. session'[c] = Checked(session[c])
      /\ cwd'[c] = IF session[c] = "live" THEN cwd[c] ELSE <<>>
    BY <1>3, TInvFacts
<1>6. \A d \in Clients \ {c} : session'[d] = session[d] /\ cwd'[d] = cwd[d]
    BY <1>3, TInvFacts
<1>7. session[c] = "live" => session' = session /\ cwd' = cwd
    BY <1>2, <1>3, TInvFacts
<1>8. session'[c] \in {"none", "dead"} => cwd'[c] = <<>>
    BY <1>2, <1>5
<1>9. \A d \in Clients : session'[d] \in {"none", "dead"} => cwd'[d] = <<>>
    BY <1>6, <1>8, TInvFacts
<1> QED BY <1>4, <1>5, <1>6, <1>7, <1>9 DEF Healthy

-----------------------------------------------------------------------------
(* Types *)

\* The action of a client ends.
LEMMA EndFacts ==
    ASSUME TInv, NEW c \in Clients, NEW how \in {"ok", "failed", EmptyListing}, End(c, how),
           \A d \in Clients \ {c} : sent'[d] = sent[d]
    PROVE  Tasks' /\ outcome' \in Outcomes
<1>1. Task(c, Rest) /\ Rest.op = "rest" /\ task' = [task EXCEPT ![c] = Rest]
    BY DEF Task, Rest, End
<1>2. Tasks'
    BY <1>1, TaskSet
<1>3. outcome' \in Outcomes
    BY TInvFacts DEF End, Outcomes
<1> QED BY <1>2, <1>3

\* Whatever is left alone keeps its type.
LEMMA SameTypes ==
    ASSUME TInv, Tasks', outcome' \in Outcomes, up' \in BOOLEAN,
           session' \in [Clients -> Sessions], cwd' \in [Clients -> Dirs],
           \A d \in Clients : session'[d] \in {"none", "dead"} => cwd'[d] = <<>>,
           files' \in [Paths -> Seq(AnyPart)], sent' \in [Clients -> 0..MaxTransfers],
           drops' \in 0..MaxDrops, outages' \in 0..MaxOutages
    PROVE  TInv'
BY DEF TInv, TypeOK, AnyPart, Outcomes

\* An action begins with a health check, and its task is one of the client's.
LEMMA BeginTypes ==
    ASSUME TInv, NEW c \in Clients, NEW t, Task(c, t),
           t.op \in {"upload", "append"} => sent[c] < MaxTransfers,
           Begin(c, t)
    PROVE  TInv'
<1>1. HealthCheck(c) /\ UNCHANGED <<files, up, sent, drops, outages>>
    BY DEF Begin
<1>2. Tasks' /\ outcome' \in Outcomes
  <2>1. CASE Healthy(c)
    <3>1. task' = [task EXCEPT ![c] = t] /\ outcome' = outcome
      BY <2>1 DEF Begin
    <3> QED BY <1>1, <3>1, TaskSet, TInvFacts
  <2>2. CASE ~Healthy(c)
    <3>1. End(c, "failed")
      BY <2>2 DEF Begin
    <3> QED BY <1>1, <3>1, EndFacts
  <2> QED BY <2>1, <2>2
<1> QED BY <1>1, <1>2, HealthFacts, SameTypes, TInvFacts DEF TInv, TypeOK

\* The tasks that actions begin with.
LEMMA BeginTasks ==
    ASSUME NEW c \in Clients
    PROVE  /\ Task(c, Choosing("download")) /\ Task(c, Choosing("append"))
           /\ Choosing("download").op = "download" /\ Choosing("append").op = "append"
           /\ Task(c, [op |-> "browse", left |-> BrowseSteps])
           /\ Task(c, [op |-> "upload", step |-> "transfer", rel |-> <<>>,
                       name |-> uploadName[c], at |-> <<>>])
BY DEF Task, Choosing, Selecting, Browsing, Uploading

\* The actions that only begin: downloads, walks, uploads and appends.
LEMMA BeginSteps ==
    ASSUME TInv, NEW c \in Clients,
           \/ DownloadFile(c) \/ BrowseFilesystem(c) \/ UploadFile(c) \/ AppendToRemoteFile(c)
    PROVE  TInv'
<1>1. CASE DownloadFile(c)
    BY <1>1, BeginTasks, BeginTypes DEF DownloadFile
<1>2. CASE BrowseFilesystem(c)
  <2> DEFINE t == [op |-> "browse", left |-> BrowseSteps]
  <2>1. Task(c, t) /\ t.op = "browse" /\ Begin(c, t)
    BY <1>2, BeginTasks DEF BrowseFilesystem
  <2> HIDE DEF t
  <2> QED BY <2>1, BeginTypes
<1>3. CASE UploadFile(c)
  <2> DEFINE t == [op |-> "upload", step |-> "transfer", rel |-> <<>>,
                   name |-> uploadName[c], at |-> <<>>]
  <2>1. Task(c, t) /\ Begin(c, t) /\ sent[c] < MaxTransfers
    BY <1>3, BeginTasks DEF UploadFile
  <2> HIDE DEF t
  <2> QED BY <2>1, BeginTypes
<1>4. CASE AppendToRemoteFile(c)
    BY <1>4, BeginTasks, BeginTypes DEF AppendToRemoteFile
<1> QED BY <1>1, <1>2, <1>3, <1>4

\* Moves stay among the directories.
LEMMA MovesFacts ==
    ASSUME NEW d \in Dirs
    PROVE  Moves(d) \subseteq Dirs
BY FtpAssumption DEF Moves, Subdirs

\* The steps that finish what was begun, but for the transfer, and the two actions
\* of one request, change neither files nor what was sent.
LEMMA OtherTypes ==
    ASSUME TInv, NEW c \in Clients,
           \/ ListRemoteFilesystem(c) \/ ChangeToRandomDirectory(c) \/ BrowseStep(c)
           \/ SelectARandomFile(c) \/ Retrieve(c) \/ ZipMade(c)
    PROVE  TInv'
<1>1. UNCHANGED <<files, up, sent, drops, outages>>
    BY DEF ListRemoteFilesystem, ChangeToRandomDirectory, BrowseStep, SelectARandomFile,
           Retrieve, ZipMade
<1>2. ASSUME NEW how \in {"ok", "failed", EmptyListing}, End(c, how)
      PROVE  Tasks' /\ outcome' \in Outcomes
    BY <1>1, <1>2, EndFacts
<1>3. ASSUME NEW t, Task(c, t), t.op \in {"upload", "append"} => sent[c] < MaxTransfers,
             task' = [task EXCEPT ![c] = t], outcome' = outcome
      PROVE  Tasks' /\ outcome' \in Outcomes
    BY <1>1, <1>3, TaskSet, TInvFacts
<1>4. ASSUME Tasks', outcome' \in Outcomes,
             \/ HealthCheck(c)
             \/ session' = session /\ cwd' = cwd
             \/ /\ session' = session /\ session[c] = "live"
                /\ \E d \in Moves(cwd[c]) : cwd' = [cwd EXCEPT ![c] = d]
      PROVE  TInv'
  <2>1. /\ session' \in [Clients -> Sessions] /\ cwd' \in [Clients -> Dirs]
        /\ \A d \in Clients : session'[d] \in {"none", "dead"} => cwd'[d] = <<>>
    <3>1. CASE HealthCheck(c)
      BY <3>1, HealthFacts
    <3>2. CASE session' = session /\ cwd' = cwd
      BY <3>2, TInvFacts
    <3>3. ASSUME session' = session, session[c] = "live",
                 NEW d \in Moves(cwd[c]), cwd' = [cwd EXCEPT ![c] = d]
          PROVE  <2>1!:
      <4>1. d \in Dirs
        BY MovesFacts, TInvFacts
      <4> QED BY <3>3, <4>1, TInvFacts
    <3> QED BY <1>4, <3>1, <3>2, <3>3
  <2> QED BY <1>1, <1>4, <2>1, SameTypes, TInvFacts DEF TInv, TypeOK
<1>5. CASE ListRemoteFilesystem(c)
    BY <1>2, <1>4, <1>5 DEF ListRemoteFilesystem
<1>6. CASE ChangeToRandomDirectory(c)
    BY <1>2, <1>4, <1>6 DEF ChangeToRandomDirectory, Raises
<1>7. CASE BrowseStep(c)
  <2> DEFINE t == [task[c] EXCEPT !.left = @ - 1]
  <2>1. Task(c, t) /\ t.op = "browse"
    <3>1. Browsing(task[c])
      BY <1>7, TaskKinds DEF BrowseStep, TInv, Tasks
    <3>2. t = [op |-> "browse", left |-> t.left]
      BY <3>1 DEF Browsing
    <3> QED BY <3>2 DEF Task, Browsing
  <2>2. (task' = [task EXCEPT ![c].left = @ - 1]) => task' = [task EXCEPT ![c] = t]
    BY TInvFacts
  <2> HIDE DEF t
  <2>3. Tasks' /\ outcome' \in Outcomes
    BY <1>2, <1>3, <1>7, <2>1, <2>2 DEF BrowseStep, Raises
  <2> QED BY <1>4, <1>7, <2>3 DEF BrowseStep, Raises
<1>8. CASE SelectARandomFile(c)
  <2>1. Selecting(task[c]) /\ (task[c].op = "append" => sent[c] < MaxTransfers)
    BY <1>8, TaskKinds DEF SelectARandomFile, TInv, Tasks
  <2>2. ASSUME NEW rel, NEW n
        PROVE  Task(c, Chosen(c, rel, n)) /\ Chosen(c, rel, n).op = task[c].op
    BY <2>1 DEF Chosen, Task, AtFile, Selecting
  <2>3. ASSUME NEW e, task' = [task EXCEPT ![c].rel = Append(@, Last(e))], outcome' = outcome
        PROVE  Tasks' /\ outcome' \in Outcomes
    <3> DEFINE t == [task[c] EXCEPT !.rel = Append(@, Last(e))]
    <3>1. t = [op |-> t.op, step |-> "select", rel |-> t.rel] /\ t.op = task[c].op
      BY <2>1 DEF Selecting
    <3>2. Task(c, t)
      BY <2>1, <3>1 DEF Task, Selecting
    <3>3. task' = [task EXCEPT ![c] = t]
      BY <2>3, TInvFacts
    <3> HIDE DEF t
    <3> QED BY <1>3, <2>1, <2>3, <3>1, <3>2, <3>3 DEF Selecting
  <2>4. ASSUME NEW rel, NEW n, task' = [task EXCEPT ![c] = Chosen(c, rel, n)],
               outcome' = outcome
        PROVE  Tasks' /\ outcome' \in Outcomes
    BY <1>3, <2>1, <2>2, <2>4 DEF Selecting
  <2>5. Tasks' /\ outcome' \in Outcomes
    BY <1>2, <1>8, <2>3, <2>4 DEF SelectARandomFile, Raises
  <2> QED BY <1>4, <1>8, <2>5 DEF SelectARandomFile, Raises
<1>9. CASE Retrieve(c)
    BY <1>2, <1>4, <1>9 DEF Retrieve
<1>10. CASE ZipMade(c)
  <2> DEFINE t == [task[c] EXCEPT !.step = "transfer"]
  <2>1. AtFile(task[c]) /\ task[c].op = "append" /\ sent[c] < MaxTransfers
    BY <1>10, TaskKinds DEF ZipMade, TInv, Tasks
  <2>2. /\ t = [op |-> t.op, rel |-> t.rel, name |-> t.name, at |-> t.at, step |-> t.step]
        /\ t.op = "append" /\ t.step = "transfer"
    BY <2>1 DEF AtFile
  <2>3. Task(c, t)
    BY <2>2 DEF Task, AtFile
  <2>4. (task' = [task EXCEPT ![c].step = "transfer"]) => task' = [task EXCEPT ![c] = t]
    BY TInvFacts
  <2> HIDE DEF t
  <2>5. Tasks' /\ outcome' \in Outcomes
    BY <1>2, <1>3, <1>10, <2>1, <2>2, <2>3, <2>4 DEF ZipMade
  <2> QED BY <1>4, <1>10, <2>5 DEF ZipMade
<1> QED BY <1>5, <1>6, <1>7, <1>8, <1>9, <1>10

\* Where a transfer writes, and what.
Target(c) == <<Resolve(cwd[c], task[c].rel), task[c].name>>

\* What a transfer does: it writes one new part, whole or cut, or nothing.
LEMMA TransferFacts ==
    ASSUME TInv, NEW c \in Clients, Transfer(c)
    PROVE  /\ task[c].op \in {"upload", "append"} /\ task[c].step = "transfer"
           /\ sent' = [sent EXCEPT ![c] = @ + 1] /\ sent[c] + 1 \in 1..MaxTransfers
           /\ \A whole \in BOOLEAN : Part(c, whole) \in Parts /\ Part(c, whole) # SeedPart
           /\ \/ files' = files
              \/ /\ Target(c) \in Paths
                 /\ \E whole \in BOOLEAN :
                       files' = [files EXCEPT ![Target(c)] =
                                   Written(task[c].op, files[Target(c)], Part(c, whole))]
           /\ \/ session' = session /\ drops' = drops
              \/ /\ session' = [session EXCEPT ![c] = "stale"] /\ session[c] = "live"
                 /\ drops' = drops + 1 /\ drops < MaxDrops
           /\ End(c, "ok") \/ End(c, "failed")
           /\ UNCHANGED <<up, cwd, outages>>
<1>1. task[c].op \in {"upload", "append"} /\ sent[c] < MaxTransfers
    BY DEF Transfer, TInv, Tasks
<1>2. sent[c] + 1 \in 1..MaxTransfers
    BY <1>1, TInvFacts
<1>3. \A whole \in BOOLEAN : Part(c, whole) \in Parts /\ Part(c, whole) # SeedPart
    BY <1>2 DEF Part, Parts, SeedPart
<1>4. \/ files' = files
      \/ /\ Target(c) \in Paths
         /\ \E whole \in BOOLEAN :
               files' = [files EXCEPT ![Target(c)] =
                           Written(task[c].op, files[Target(c)], Part(c, whole))]
  <2>1. ASSUME NEW whole \in BOOLEAN, Target(c) \in Paths,
               files' = [files EXCEPT ![Target(c)] = Written(task[c].op, @, Part(c, whole))]
        PROVE  <1>4
    BY <2>1
  <2> QED BY <2>1 DEF Transfer, Target
<1>5. \/ session' = session /\ drops' = drops
      \/ /\ session' = [session EXCEPT ![c] = "stale"] /\ session[c] = "live"
         /\ drops' = drops + 1 /\ drops < MaxDrops
    BY DEF Transfer
<1>6. /\ End(c, "ok") \/ End(c, "failed")
      /\ sent' = [sent EXCEPT ![c] = @ + 1] /\ task[c].step = "transfer"
      /\ UNCHANGED <<up, cwd, outages>>
    BY DEF Transfer
<1> QED BY <1>1, <1>2, <1>3, <1>4, <1>5, <1>6

\* What is written is made of what was there, or of nothing, and the new part.
LEMMA WrittenFacts ==
    ASSUME NEW old \in Seq(AnyPart), NEW p \in Parts, NEW op
    PROVE  /\ Written(op, old, p) \in Seq(AnyPart)
           /\ Written(op, old, p) = <<p>> \/ Written(op, old, p) = Append(old, p)
           /\ op # "upload" => Written(op, old, p) = Append(old, p)
<1>1. p \in AnyPart /\ <<p>> \in Seq(AnyPart)
    BY DEF AnyPart
<1>2. Append(old, p) \in Seq(AnyPart)
    BY <1>1, AppendProperties
<1> QED BY <1>1, <1>2 DEF Written

\* What TransferFacts describes keeps the types.
LEMMA TransferTypes ==
    ASSUME TInv, NEW c \in Clients, Transfer(c)
    PROVE  TInv'
<1>1. Tasks' /\ outcome' \in Outcomes
  <2>1. \A d \in Clients \ {c} : sent'[d] = sent[d]
    BY TransferFacts, TInvFacts
  <2> QED BY <2>1, TransferFacts, EndFacts
<1>2. files' \in [Paths -> Seq(AnyPart)]
  <2>1. ASSUME Target(c) \in Paths, NEW whole \in BOOLEAN,
               files' = [files EXCEPT ![Target(c)] =
                           Written(task[c].op, files[Target(c)], Part(c, whole))]
        PROVE  files' \in [Paths -> Seq(AnyPart)]
    <3>1. Written(task[c].op, files[Target(c)], Part(c, whole)) \in Seq(AnyPart)
      BY <2>1, TransferFacts, WrittenFacts, TInvFacts
    <3> QED BY <2>1, <3>1, TInvFacts
  <2> QED BY <2>1, TransferFacts, TInvFacts
<1>3. sent' \in [Clients -> 0..MaxTransfers] /\ drops' \in 0..MaxDrops
  <2>1. sent[c] + 1 \in 0..MaxTransfers
    BY TransferFacts, TInvFacts
  <2>2. sent' \in [Clients -> 0..MaxTransfers]
    BY <2>1, TransferFacts, TInvFacts
  <2>3. drops' = drops \/ (drops' = drops + 1 /\ drops < MaxDrops)
    BY TransferFacts
  <2> QED BY <2>2, <2>3, TInvFacts
<1>4. /\ session' \in [Clients -> Sessions]
      /\ \A d \in Clients : session'[d] \in {"none", "dead"} => session[d] \in {"none", "dead"}
    BY TransferFacts, TInvFacts DEF Sessions
<1>5. \A d \in Clients : session'[d] \in {"none", "dead"} => cwd'[d] = <<>>
    BY <1>4, TransferFacts, TInvFacts
<1> QED BY <1>1, <1>2, <1>3, <1>4, <1>5, TransferFacts, SameTypes, TInvFacts DEF TInv, TypeOK

\* What a deletion does to the files.
LEMMA DeleteFacts ==
    ASSUME TInv, NEW c \in Clients, DeleteRemoteFile(c)
    PROVE  /\ files' = files \/ \E p \in Paths : files' = [files EXCEPT ![p] = <<>>]
           /\ HealthCheck(c) /\ task[c] = Rest
           /\ End(c, "ok") \/ End(c, "failed")
           /\ UNCHANGED <<up, sent, drops, outages>>
<1>1. \A n \in Names : <<cwd'[c], n>> \in Paths
    BY HealthFacts DEF DeleteRemoteFile, Paths
<1> QED BY <1>1 DEF DeleteRemoteFile

\* A deletion, too, keeps the types: what is left of the file is empty.
LEMMA DeleteTypes ==
    ASSUME TInv, NEW c \in Clients, DeleteRemoteFile(c)
    PROVE  TInv'
<1>1. Tasks' /\ outcome' \in Outcomes
    BY DeleteFacts, EndFacts
<1>2. files' \in [Paths -> Seq(AnyPart)]
  <2>1. <<>> \in Seq(AnyPart)
    BY EmptySeq
  <2> QED BY <2>1, DeleteFacts, TInvFacts
<1> QED BY <1>1, <1>2, DeleteFacts, HealthFacts, SameTypes, TInvFacts DEF TInv, TypeOK

\* Sessions that break and the server's outages.
LEMMA EnvTypes ==
    ASSUME TInv, (\E c \in Clients : DropSession(c)) \/ ServerDown \/ ServerUp
    PROVE  TInv'
<1>1. UNCHANGED <<files, cwd, task, sent, outcome>>
    BY DEF DropSession, ServerDown, ServerUp
<1>2. /\ session' \in [Clients -> Sessions]
      /\ \A d \in Clients : session'[d] \in {"none", "dead"} => session[d] \in {"none", "dead"}
  <2>1. CASE \E c \in Clients : DropSession(c)
    BY <2>1, TInvFacts DEF DropSession, Sessions
  <2>2. CASE ServerDown
    BY <2>2, TInvFacts DEF ServerDown, Sessions
  <2>3. CASE ServerUp
    BY <2>3, TInvFacts DEF ServerUp
  <2> QED BY <2>1, <2>2, <2>3
<1>3. up' \in BOOLEAN
    BY DEF DropSession, ServerDown, ServerUp, TInv, TypeOK
<1>4. drops' \in 0..MaxDrops /\ outages' \in 0..MaxOutages
  <2>1. /\ drops' = drops \/ (drops' = drops + 1 /\ drops < MaxDrops)
        /\ outages' = outages \/ (outages' = outages + 1 /\ outages < MaxOutages)
    BY DEF DropSession, ServerDown, ServerUp
  <2> QED BY <2>1, TInvFacts
<1>5. Tasks'
    BY <1>1 DEF TInv, Tasks
<1> QED BY <1>1, <1>2, <1>3, <1>4, <1>5, SameTypes, TInvFacts

\* The steps of a client.
LEMMA ClientSteps ==
    ASSUME NEW c \in Clients, Start(c) \/ Continue(c)
    PROVE  \/ DownloadFile(c) \/ BrowseFilesystem(c) \/ UploadFile(c) \/ AppendToRemoteFile(c)
           \/ ListRemoteFilesystem(c) \/ ChangeToRandomDirectory(c) \/ BrowseStep(c)
           \/ SelectARandomFile(c) \/ Retrieve(c) \/ ZipMade(c)
           \/ Transfer(c) \/ DeleteRemoteFile(c)
BY DEF Start, Continue, StatRemoteFilesystem

\* Every step keeps the types.
LEMMA TypeSteps == TInv /\ [Next]_vars => TInv'
<1> SUFFICES ASSUME TInv, [Next]_vars PROVE TInv'
    OBVIOUS
<1>1. CASE UNCHANGED vars
    BY <1>1 DEF vars, TInv, TypeOK, Tasks
<1>2. ASSUME NEW c \in Clients, Start(c) \/ Continue(c) PROVE TInv'
    BY <1>2, ClientSteps, BeginSteps, OtherTypes, TransferTypes, DeleteTypes
<1> QED BY <1>1, <1>2, EnvTypes DEF Next

\* At the start nobody has a session.
LEMMA TypeInit == Init => TInv
<1> SUFFICES ASSUME Init PROVE TInv
    OBVIOUS
<1>1. SeedPart \in AnyPart /\ <<SeedPart>> \in Seq(AnyPart) /\ <<>> \in Seq(AnyPart)
    BY EmptySeq DEF AnyPart
<1>2. files \in [Paths -> Seq(Parts \cup {SeedPart})]
    BY <1>1 DEF Init, AnyPart
<1>3. sent \in [Clients -> 0..MaxTransfers] /\ drops \in 0..MaxDrops
      /\ outages \in 0..MaxOutages /\ cwd \in [Clients -> Dirs]
    BY FtpAssumption DEF Init
<1>4. TypeOK
    BY <1>2, <1>3 DEF Init, TypeOK, Sessions
<1>5. Tasks
    BY DEF Init, Tasks, Task, Rest
<1> QED BY <1>4, <1>5 DEF TInv

\* TypeOK and the shape of the tasks are invariants.
LEMMA Typed == Spec => []TInv
BY TypeInit, TypeSteps, PTL DEF Spec

\* Types of the FTP client: whatever sessions break, the working directory is one of the
\* server's, the root when there is no session, and files are parts that were sent.
THEOREM TypeCorrect == Spec => []TypeOK
<1>1. TInv => TypeOK
    BY DEF TInv
<1> QED BY <1>1, Typed, PTL

-----------------------------------------------------------------------------
(* Nothing is stored twice *)

\* Parts are numbered up to the last file sent, and no two places hold a part of the
\* same number.
Numbered ==
    \A p \in Paths : \A i \in DOMAIN files[p] :
        files[p][i] # SeedPart => files[p][i].number <= sent[files[p][i].by]

OneHome == Numbered /\ StoredOnce

\* Files that keep what they held, or lose all of it.
LEMMA FewerHome ==
    ASSUME TInv, OneHome, UNCHANGED sent,
           \A p \in Paths : files'[p] \in {files[p], <<>>}
    PROVE  OneHome'
<1>1. DOMAIN <<>> = {}
    OBVIOUS
<1>2. Numbered'
    BY <1>1 DEF OneHome, Numbered
<1>3. StoredOnce'
    BY <1>1 DEF OneHome, StoredOnce
<1> QED BY <1>2, <1>3 DEF OneHome

\* A part that nobody has is written into one file.
LEMMA WriteHome ==
    ASSUME TInv, OneHome, NEW c \in Clients, NEW q \in Paths, NEW part \in Parts,
           part.by = c, part.number = sent[c] + 1,
           files' = [files EXCEPT ![q] = files'[q]],
           files'[q] = <<part>> \/ files'[q] = Append(files[q], part),
           sent' = [sent EXCEPT ![c] = @ + 1]
    PROVE  OneHome'
<1>1. /\ \A p \in Paths \ {q} : files'[p] = files[p]
      /\ \A p \in Paths : files[p] \in Seq(AnyPart)
      /\ sent'[c] = sent[c] + 1
      /\ \A d \in Clients \ {c} : sent'[d] = sent[d]
      /\ \A d \in Clients : sent[d] \in Nat
    BY TInvFacts
<1>2. /\ DOMAIN <<part>> = {1} /\ <<part>>[1] = part
      /\ DOMAIN files[q] = 1..Len(files[q]) /\ Len(files[q]) \in Nat
      /\ DOMAIN Append(files[q], part) = 1..(Len(files[q]) + 1)
      /\ \A i \in DOMAIN files[q] : Append(files[q], part)[i] = files[q][i]
      /\ Append(files[q], part)[Len(files[q]) + 1] = part
    BY <1>1, AppendProperties DEF AnyPart
\* One element of the new file is the part; the others are as before.
<1>3. PICK n \in DOMAIN files'[q] :
         /\ files'[q][n] = part
         /\ \A i \in DOMAIN files'[q] \ {n} : i \in DOMAIN files[q] /\ files'[q][i] = files[q][i]
    BY <1>2
<1>4. \A p \in Paths : \A i \in DOMAIN files[p] :
         files[p][i] # SeedPart => /\ files[p][i].by \in Clients /\ files[p][i].number \in Nat
                                   /\ files[p][i].by = c => files[p][i].number # sent[c] + 1
    BY <1>1 DEF OneHome, Numbered, AnyPart, Parts
<1>5. part # SeedPart
    BY DEF Parts, SeedPart
\* An element of a file is the new part, or was where it is.
<1>6. \A p \in Paths : \A i \in DOMAIN files'[p] :
         \/ p = q /\ i = n /\ files'[p][i] = part
         \/ i \in DOMAIN files[p] /\ files'[p][i] = files[p][i]
    BY <1>1, <1>3
<1>7. Numbered'
    BY <1>1, <1>4, <1>6 DEF OneHome, Numbered
<1>8. StoredOnce'
  <2> SUFFICES ASSUME NEW p \in Paths, NEW r \in Paths,
                      NEW i \in DOMAIN files'[p], NEW j \in DOMAIN files'[r],
                      files'[p][i] # SeedPart, files'[r][j] # SeedPart,
                      files'[p][i].by = files'[r][j].by,
                      files'[p][i].number = files'[r][j].number
               PROVE  p = r /\ i = j
    BY DEF StoredOnce
  <2>1. CASE files'[p][i] = part /\ files'[r][j] = part
    BY <1>4, <1>6, <2>1
  <2>2. CASE files'[p][i] # part /\ files'[r][j] # part
    BY <1>6, <2>2 DEF OneHome, StoredOnce
  <2>3. CASE files'[p][i] = part /\ files'[r][j] # part
    BY <1>4, <1>6, <2>3
  <2>4. CASE files'[p][i] # part /\ files'[r][j] = part
    BY <1>4, <1>6, <2>4
  <2> QED BY <2>1, <2>2, <2>3, <2>4
<1> QED BY <1>7, <1>8 DEF OneHome

\* A transfer that reaches no file uses up its number all the same.
LEMMA SkipHome ==
    ASSUME TInv, OneHome, NEW c \in Clients, files' = files, sent' = [sent EXCEPT ![c] = @ + 1]
    PROVE  OneHome'
<1>1. \A d \in Clients : sent[d] \in Nat /\ (sent'[d] = sent[d] \/ sent'[d] = sent[d] + 1)
    BY TInvFacts
<1>2. \A p \in Paths : \A i \in DOMAIN files[p] :
         files[p][i] # SeedPart => files[p][i].by \in Clients /\ files[p][i].number \in Nat
    BY TInvFacts DEF AnyPart, Parts
<1>3. Numbered'
    BY <1>1, <1>2 DEF OneHome, Numbered
<1>4. StoredOnce'
    BY DEF OneHome, StoredOnce
<1> QED BY <1>3, <1>4 DEF OneHome

\* A transfer writes a part of a new number.
LEMMA TransferHome ==
    ASSUME TInv, OneHome, NEW c \in Clients, Transfer(c)
    PROVE  OneHome'
<1>1. CASE files' = files
    BY <1>1, TransferFacts, SkipHome
<1>2. ASSUME Target(c) \in Paths, NEW whole \in BOOLEAN,
             files' = [files EXCEPT ![Target(c)] =
                         Written(task[c].op, files[Target(c)], Part(c, whole))]
      PROVE  OneHome'
  <2> DEFINE q == Target(c)
             part == Part(c, whole)
  <2>1. part \in Parts /\ part.by = c /\ part.number = sent[c] + 1
    BY TransferFacts DEF Part
  <2>2. files[q] \in Seq(AnyPart)
    BY <1>2, TInvFacts
  <2>3. files'[q] = Written(task[c].op, files[q], part) /\ files' = [files EXCEPT ![q] = files'[q]]
    BY <1>2, TInvFacts
  <2> HIDE DEF q, part
  <2>4. files'[q] = <<part>> \/ files'[q] = Append(files[q], part)
    BY <2>1, <2>2, <2>3, WrittenFacts
  <2> QED BY <1>2, <2>1, <2>3, <2>4, TransferFacts, WriteHome DEF q
<1> QED BY <1>1, <1>2, TransferFacts

\* The steps that neither send nor delete.
LEMMA OtherSteps ==
    ASSUME [Next]_vars, \A c \in Clients : ~Transfer(c) /\ ~DeleteRemoteFile(c)
    PROVE  UNCHANGED <<files, sent>>
<1>1. CASE UNCHANGED vars
    BY <1>1 DEF vars
<1>2. ASSUME NEW c \in Clients, Start(c) \/ Continue(c) PROVE UNCHANGED <<files, sent>>
    BY <1>2, ClientSteps
    DEF DownloadFile, BrowseFilesystem, UploadFile, AppendToRemoteFile, Begin,
        ListRemoteFilesystem, ChangeToRandomDirectory, BrowseStep, SelectARandomFile,
        Retrieve, ZipMade
<1>3. CASE (\E c \in Clients : DropSession(c)) \/ ServerDown \/ ServerUp
    BY <1>3 DEF DropSession, ServerDown, ServerUp
<1> QED BY <1>1, <1>2, <1>3 DEF Next

\* Every step keeps one home for each part.
LEMMA HomeSteps == TInv /\ OneHome /\ [Next]_vars => OneHome'
<1> SUFFICES ASSUME TInv, OneHome, [Next]_vars PROVE OneHome'
    OBVIOUS
<1>1. ASSUME NEW c \in Clients, DeleteRemoteFile(c) PROVE OneHome'
  <2>1. \A p \in Paths : files'[p] \in {files[p], <<>>}
    BY <1>1, DeleteFacts, TInvFacts
  <2> QED BY <1>1, <2>1, DeleteFacts, FewerHome
<1>2. CASE UNCHANGED <<files, sent>>
    BY <1>2, FewerHome
<1> QED BY <1>1, <1>2, OtherSteps, TransferHome

\* At the start there are only the seeded files.
LEMMA HomeInit == Init => OneHome
<1> SUFFICES ASSUME Init PROVE OneHome
    OBVIOUS
<1>1. \A p \in Paths : \A i \in DOMAIN files[p] : files[p][i] = SeedPart
    BY DEF Init
<1> QED BY <1>1 DEF OneHome, Numbered, StoredOnce

\* However sessions break, whatever is deleted and however often a client is asked: no
\* transfer is stored twice, in one file or in two, and no number is used twice.
THEOREM StoresOnce == Spec => []StoredOnce
<1>1. OneHome => StoredOnce
    BY DEF OneHome
<1> QED BY <1>1, Typed, HomeInit, HomeSteps, PTL DEF Spec

-----------------------------------------------------------------------------
(* Files only grow, except where their own name is uploaded *)

\* A sequence is a prefix of itself, and of what it becomes when a part is added.
LEMMA PrefixFacts ==
    ASSUME NEW s \in Seq(AnyPart), NEW part \in AnyPart
    PROVE  IsPrefix(s, s) /\ IsPrefix(s, Append(s, part))
<1> DEFINE t == Append(s, part)
<1>1. /\ t \in Seq(AnyPart) /\ Len(t) = Len(s) + 1 /\ Len(s) \in Nat
      /\ \A i \in 1..Len(s) : t[i] = s[i]
    BY AppendProperties
<1> HIDE DEF t
<1>2. SubSeq(s, 1, Len(s)) = SubSeq(t, 1, Len(s))
    BY <1>1
<1> QED BY <1>1, <1>2 DEF IsPrefix, t

\* What one step may do to a file.
Replaces(p) ==
    \/ IsPrefix(files[p], files'[p])
    \/ files'[p] = <<>>
    \/ \E c \in Clients : task[c].op = "upload" /\ p[2] = uploadName[c]

\* The transfer of an upload writes under the name of its client only.
LEMMA TransferReplaces ==
    ASSUME TInv, NEW c \in Clients, Transfer(c), NEW p \in Paths
    PROVE  Replaces(p)
<1>1. files[p] \in Seq(AnyPart)
    BY TInvFacts
<1>2. CASE files'[p] = files[p]
    BY <1>1, <1>2, TransferFacts, PrefixFacts DEF Replaces, AnyPart
<1>3. ASSUME files'[p] # files[p]
      PROVE  Replaces(p)
  <2>1. PICK whole \in BOOLEAN :
           p = Target(c) /\ files'[p] = Written(task[c].op, files[p], Part(c, whole))
    BY <1>3, TransferFacts, TInvFacts
  <2>2. Part(c, whole) \in AnyPart /\ Part(c, whole) \in Parts
    BY TransferFacts DEF AnyPart
  <2>3. CASE task[c].op = "upload"
    <3>1. Uploading(c, task[c])
      BY <2>3, TaskKinds DEF TInv, Tasks
    <3>2. p[2] = uploadName[c]
      BY <2>1, <3>1 DEF Target, Uploading
    <3> QED BY <2>3, <3>2 DEF Replaces
  <2>4. CASE task[c].op # "upload"
    <3>1. files'[p] = Append(files[p], Part(c, whole))
      BY <1>1, <2>1, <2>2, <2>4, WrittenFacts
    <3> QED BY <1>1, <2>2, <3>1, PrefixFacts DEF Replaces
  <2> QED BY <2>3, <2>4
<1> QED BY <1>2, <1>3

\* Appends of any number of clients, and their broken transfers, only add to a file:
\* what is there is cut or replaced only by a deletion or by an upload of the client
\* whose own name the file has.
THEOREM OnlyOwnersReplace == Spec => OnlyUploadsReplace
<1>1. TInv /\ [Next]_vars => [\A p \in Paths : Replaces(p)]_files
  <2> SUFFICES ASSUME TInv, [Next]_vars, files' # files, NEW p \in Paths
               PROVE  Replaces(p)
    OBVIOUS
  <2>1. ASSUME NEW c \in Clients, DeleteRemoteFile(c) PROVE Replaces(p)
    <3>1. SeedPart \in AnyPart /\ files[p] \in Seq(AnyPart)
      BY TInvFacts DEF AnyPart
    <3>2. files'[p] \in {files[p], <<>>}
      BY <2>1, DeleteFacts, TInvFacts
    <3> QED BY <3>1, <3>2, PrefixFacts DEF Replaces
  <2> QED BY <2>1, OtherSteps, TransferReplaces
<1>2. [\A p \in Paths : Replaces(p)]_files =>
      [\A p \in Paths :
          \/ IsPrefix(files[p], files'[p])
          \/ files'[p] = <<>>
          \/ \E c \in Clients : task[c].op = "upload" /\ p[2] = uploadName[c]]_files
    BY DEF Replaces
<1> QED BY <1>1, <1>2, Typed, PTL DEF Spec, OnlyUploadsReplace

-----------------------------------------------------------------------------
(* A transfer reaches the file that was chosen *)

\* Until a session broke: a client that chooses a file or goes for it has a session, and
\* its working directory is the one in which it chose.
Chooses(c) == task[c].op \in {"download", "append"}
Reach ==
    drops = 0 /\ outages = 0 =>
        \A c \in Clients : Chooses(c) =>
            /\ session[c] = "live"
            /\ task[c].step # "select" => Resolve(cwd[c], task[c].rel) = task[c].at

\* A step that touches one client, which ends, or begins to choose in a live session.
LEMMA ReachOne ==
    ASSUME TInv, Reach, NEW c \in Clients, drops' = drops, outages' = outages,
           \A d \in Clients \ {c} :
              task'[d] = task[d] /\ session'[d] = session[d] /\ cwd'[d] = cwd[d],
           drops = 0 /\ outages = 0 /\ Chooses(c)' =>
              /\ session'[c] = "live"
              /\ task'[c].step # "select" => Resolve(cwd'[c], task'[c].rel) = task'[c].at
    PROVE  Reach'
BY DEF Reach, Chooses

\* The end of an action.
LEMMA ReachEnd ==
    ASSUME TInv, NEW c \in Clients, NEW how, End(c, how)
    PROVE  ~Chooses(c)' /\ \A d \in Clients \ {c} : task'[d] = task[d]
<1>1. task' = [d \in Clients |-> IF d = c THEN Rest ELSE task[d]]
    BY TInvFacts DEF End
<1> QED BY <1>1 DEF Chooses, Rest

\* A task that begins finds a live session and has chosen nothing.
LEMMA ReachBegin ==
    ASSUME TInv, Reach, NEW c \in Clients, NEW t, Begin(c, t),
           t.op \in {"download", "append"} => t.step = "select"
    PROVE  Reach'
<1>1. HealthCheck(c) /\ UNCHANGED <<drops, outages>>
    BY DEF Begin
<1>2. CASE Healthy(c)
  <2>1. task' = [d \in Clients |-> IF d = c THEN t ELSE task[d]]
    BY <1>2, TInvFacts DEF Begin
  <2>2. task'[c] = t /\ \A d \in Clients \ {c} : task'[d] = task[d]
    BY <2>1
  <2>3. session'[c] = "live"
    BY <1>1, <1>2, HealthFacts
  <2>4. Chooses(c)' => t.op \in {"download", "append"}
    BY <2>2 DEF Chooses
  <2> QED BY <1>1, <2>2, <2>3, <2>4, HealthFacts, ReachOne
<1>3. CASE ~Healthy(c)
  <2>1. End(c, "failed")
    BY <1>3 DEF Begin
  <2> QED BY <1>1, <2>1, ReachEnd, HealthFacts, ReachOne
<1> QED BY <1>2, <1>3

\* The actions that only begin.
LEMMA ReachBeginSteps ==
    ASSUME TInv, Reach, NEW c \in Clients,
           \/ DownloadFile(c) \/ BrowseFilesystem(c) \/ UploadFile(c) \/ AppendToRemoteFile(c)
    PROVE  Reach'
<1>1. CASE DownloadFile(c) \/ AppendToRemoteFile(c)
  <2>1. Choosing("download").step = "select" /\ Choosing("append").step = "select"
    BY DEF Choosing
  <2> QED BY <1>1, <2>1, ReachBegin DEF DownloadFile, AppendToRemoteFile
<1>2. CASE BrowseFilesystem(c)
  <2> DEFINE t == [op |-> "browse", left |-> BrowseSteps]
  <2>1. t.op = "browse" /\ Begin(c, t)
    BY <1>2 DEF BrowseFilesystem
  <2> HIDE DEF t
  <2> QED BY <2>1, ReachBegin
<1>3. CASE UploadFile(c)
  <2> DEFINE t == [op |-> "upload", step |-> "transfer", rel |-> <<>>,
                   name |-> uploadName[c], at |-> <<>>]
  <2>1. t.op = "upload" /\ Begin(c, t)
    BY <1>3 DEF UploadFile
  <2> HIDE DEF t
  <2> QED BY <2>1, ReachBegin
<1> QED BY <1>1, <1>2, <1>3

\* The choice of a file: down one directory, or the file, as seen from where it is.
LEMMA ReachSelect ==
    ASSUME TInv, Reach, NEW c \in Clients, SelectARandomFile(c)
    PROVE  Reach'
<1>1. UNCHANGED <<session, cwd, drops, outages>>
    BY DEF SelectARandomFile, Raises
<1>2. Selecting(task[c]) /\ Chooses(c)
    BY TaskKinds DEF SelectARandomFile, TInv, Tasks, Chooses
<1>3. ASSUME NEW how, End(c, how) PROVE Reach'
    BY <1>1, <1>3, ReachEnd, ReachOne
<1>4. ASSUME NEW n, task' = [task EXCEPT ![c] = Chosen(c, task[c].rel, n)] PROVE Reach'
  <2>1. task' = [d \in Clients |-> IF d = c THEN Chosen(c, task[c].rel, n) ELSE task[d]]
    BY <1>4, TInvFacts
  <2>2. /\ task'[c] = Chosen(c, task[c].rel, n)
        /\ \A d \in Clients \ {c} : task'[d] = task[d]
    BY <2>1
  <2>3. Resolve(cwd[c], task'[c].rel) = task'[c].at
    BY <2>2 DEF Chosen
  <2> QED BY <1>1, <1>2, <2>2, <2>3, ReachOne DEF Reach
<1>5. ASSUME NEW e, task' = [task EXCEPT ![c].rel = Append(@, Last(e))] PROVE Reach'
  <2> DEFINE t == [task[c] EXCEPT !.rel = Append(@, Last(e))]
  <2>1. t.step = "select"
    BY <1>2 DEF Selecting
  <2>2. task' = [d \in Clients |-> IF d = c THEN t ELSE task[d]]
    BY <1>5, TInvFacts
  <2> HIDE DEF t
  <2>3. task'[c] = t /\ \A d \in Clients \ {c} : task'[d] = task[d]
    BY <2>2
  <2> QED BY <1>1, <1>2, <2>1, <2>3, ReachOne DEF Reach
<1> QED BY <1>3, <1>4, <1>5 DEF SelectARandomFile, Raises, EmptyListing

\* The session is checked once more before APPE; a live one keeps its directory.
LEMMA ReachZip ==
    ASSUME TInv, Reach, NEW c \in Clients, ZipMade(c)
    PROVE  Reach'
<1>1. /\ HealthCheck(c) /\ UNCHANGED <<drops, outages>>
      /\ task[c].op = "append" /\ task[c].step = "zip"
    BY DEF ZipMade
<1>2. CASE Healthy(c)
  <2> DEFINE t == [task[c] EXCEPT !.step = "transfer"]
  <2>1. AtFile(task[c])
    BY <1>1, TaskKinds DEF TInv, Tasks
  <2>2. t.rel = task[c].rel /\ t.at = task[c].at
    BY <2>1 DEF AtFile
  <2>3. task' = [d \in Clients |-> IF d = c THEN t ELSE task[d]]
    BY <1>2, TInvFacts DEF ZipMade
  <2> HIDE DEF t
  <2>4. task'[c] = t /\ \A d \in Clients \ {c} : task'[d] = task[d]
    BY <2>3
  <2>5. drops = 0 /\ outages = 0 =>
           /\ session' = session /\ cwd' = cwd /\ session[c] = "live"
           /\ Resolve(cwd[c], task[c].rel) = task[c].at
    BY <1>1, HealthFacts DEF Reach, Chooses
  <2> QED BY <1>1, <2>2, <2>4, <2>5, HealthFacts, ReachOne
<1>3. CASE ~Healthy(c)
  <2>1. End(c, "failed")
    BY <1>3 DEF ZipMade
  <2> QED BY <1>1, <2>1, ReachEnd, HealthFacts, ReachOne
<1> QED BY <1>2, <1>3

\* The other steps of a client end its action, or are about no file.
LEMMA ReachOther ==
    ASSUME TInv, Reach, NEW c \in Clients,
           \/ ListRemoteFilesystem(c) \/ ChangeToRandomDirectory(c) \/ BrowseStep(c)
           \/ Retrieve(c) \/ DeleteRemoteFile(c)
    PROVE  Reach'
<1>1. /\ UNCHANGED <<drops, outages>>
      /\ \A d \in Clients \ {c} : session'[d] = session[d] /\ cwd'[d] = cwd[d]
  <2>1. CASE ListRemoteFilesystem(c) \/ DeleteRemoteFile(c)
    BY <2>1, HealthFacts DEF ListRemoteFilesystem, DeleteRemoteFile
  <2>2. CASE ChangeToRandomDirectory(c)
    BY <2>2, TInvFacts DEF ChangeToRandomDirectory, Raises
  <2>3. CASE BrowseStep(c)
    BY <2>3, TInvFacts DEF BrowseStep, Raises
  <2>4. CASE Retrieve(c)
    BY <2>4 DEF Retrieve
  <2> QED BY <2>1, <2>2, <2>3, <2>4
<1>2. ASSUME NEW how, End(c, how) PROVE Reach'
    BY <1>1, <1>2, ReachEnd, ReachOne
<1>3. ASSUME task[c].op = "browse", task' = [task EXCEPT ![c].left = @ - 1] PROVE Reach'
  <2> DEFINE t == [task[c] EXCEPT !.left = @ - 1]
  <2>1. t.op = "browse"
    <3>1. Browsing(task[c])
      BY <1>3, TaskKinds DEF TInv, Tasks
    <3> QED BY <1>3, <3>1 DEF Browsing
  <2>2. task' = [d \in Clients |-> IF d = c THEN t ELSE task[d]]
    BY <1>3, TInvFacts
  <2> HIDE DEF t
  <2>3. ~Chooses(c)' /\ \A d \in Clients \ {c} : task'[d] = task[d]
    BY <2>1, <2>2 DEF Chooses
  <2> QED BY <1>1, <2>3, ReachOne
<1>4. CASE BrowseStep(c)
    BY <1>2, <1>3, <1>4 DEF BrowseStep, Raises
<1>5. CASE ~BrowseStep(c)
    BY <1>2, <1>5 DEF ListRemoteFilesystem, ChangeToRandomDirectory, Raises, Retrieve,
                      DeleteRemoteFile
<1> QED BY <1>4, <1>5

\* A transfer ends; one that is cut is counted.
LEMMA ReachTransfer ==
    ASSUME TInv, TInv', Reach, NEW c \in Clients, Transfer(c)
    PROVE  Reach'
<1>1. CASE session' = session /\ drops' = drops
    BY <1>1, TransferFacts, ReachEnd, ReachOne
<1>2. CASE drops' = drops + 1
  <2>1. drops' # 0
    BY <1>2, TInvFacts
  <2> QED BY <2>1 DEF Reach
<1> QED BY <1>1, <1>2, TransferFacts

\* A session that is closed is counted.
LEMMA ReachEnv ==
    ASSUME TInv, Reach, (\E c \in Clients : DropSession(c)) \/ ServerDown \/ ServerUp
    PROVE  Reach'
<1>1. CASE \E c \in Clients : DropSession(c)
  <2>1. drops' # 0
    BY <1>1, TInvFacts DEF DropSession
  <2> QED BY <2>1 DEF Reach
<1>2. CASE ServerDown
  <2>1. outages' # 0
    BY <1>2, TInvFacts DEF ServerDown
  <2> QED BY <2>1 DEF Reach
<1>3. CASE ServerUp
    BY <1>3 DEF ServerUp, Reach, Chooses
<1> QED BY <1>1, <1>2, <1>3

\* Every step keeps it.
LEMMA ReachSteps == TInv /\ Reach /\ [Next]_vars => Reach'
<1> SUFFICES ASSUME TInv, Reach, [Next]_vars PROVE Reach'
    OBVIOUS
<1>1. CASE UNCHANGED vars
    BY <1>1 DEF vars, Reach, Chooses
<1>2. TInv'
    BY TypeSteps
<1>3. ASSUME NEW c \in Clients, Start(c) \/ Continue(c) PROVE Reach'
    BY <1>2, <1>3, ClientSteps, ReachBeginSteps, ReachSelect, ReachZip, ReachOther,
       ReachTransfer
<1> QED BY <1>1, <1>3, ReachEnv DEF Next

\* As long as no session broke, a download or an append reaches the file that was listed
\* when it was chosen: walks, moves and health checks change the working directory only
\* between actions.
THEOREM Reaches == Spec => []ReachesTheChosen
<1>1. Init => Reach
    BY DEF Init, Reach, Chooses, Rest
<1>2. Reach => ReachesTheChosen
    BY DEF Reach, Chooses, ReachesTheChosen
<1> QED BY <1>1, <1>2, Typed, ReachSteps, PTL DEF Spec
=============================================================================
