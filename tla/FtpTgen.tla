------------------------------- MODULE FtpTgen -------------------------------
(***************************************************************************)
(* The FTP traffic generator's Python client: a session that is health     *)
(* checked before use, a working directory the server keeps for the        *)
(* session, and the actions the Markov model may ask for.  The server and  *)
(* ftplib are external: directories are fixed, files come and go.  An      *)
(* action that raises ends; the generator goes on with the next one.       *)
(***************************************************************************)
EXTENDS Naturals, Sequences, FiniteSets, SequencesExt

CONSTANTS Clients,      \* generator processes, one session each
          Dirs,         \* directories of the server, as paths from the root
          Names,        \* names of files
          uploadName,   \* the name each process draws once, when it is loaded
          Seeded,       \* paths of the files there at the start
          Asks,         \* actions each client is asked for
          BrowseSteps,  \* moves of one walk of browse_filesystem
          MaxTransfers, \* bound: files each client sends
          MaxDrops,     \* bound: sessions the server or the network closes
          MaxOutages    \* bound: times the server goes down

Paths == Dirs \X Names

\* The actions of fn_map, and two more public methods it leaves out.
Ops == {"stat", "cd", "download", "upload", "append"} \cup {"browse", "delete"}

ASSUME FtpAssumption ==
    /\ <<>> \in Dirs
    /\ \A d \in Dirs : d # <<>> => Front(d) \in Dirs
    /\ uploadName \in [Clients -> Names]
    /\ Seeded \subseteq Paths /\ Asks \in [Clients -> SUBSET Ops]
    /\ BrowseSteps \in Nat \ {0}
    /\ MaxTransfers \in Nat /\ MaxDrops \in Nat /\ MaxOutages \in Nat

VARIABLES files,    \* contents of each path: the parts written, <<>> when absent
          up,       \* the server answers connections
          session,  \* "none": ftp is None; "dead": an FTP object that never
                    \* connected; "stale": closed by the other end; "live"
          cwd,      \* working directory of each session
          task,     \* what each client is doing
          sent,     \* files each client has begun to send
          outcome,  \* how the last action of each client ended
          drops, outages

vars == <<files, up, session, cwd, task, sent, outcome, drops, outages>>

Sessions == {"none", "dead", "stale", "live"}
Parts == [by : Clients, number : 1..MaxTransfers, whole : BOOLEAN]
SeedPart == [by |-> "nobody", number |-> 0, whole |-> TRUE]
Rest == [op |-> "rest"]
Subdirs(d) == {e \in Dirs : e # <<>> /\ Front(e) = d}

\* Where a name relative to the working directory leads.
Resolve(d, rel) == d \o rel

Init ==
    /\ files = [p \in Paths |-> IF p \in Seeded THEN <<SeedPart>> ELSE <<>>]
    /\ up = TRUE
    /\ session = [c \in Clients |-> "none"]
    /\ cwd = [c \in Clients |-> <<>>]
    /\ task = [c \in Clients |-> Rest]
    /\ sent = [c \in Clients |-> 0]
    /\ outcome = [c \in Clients |-> "ok"]
    /\ drops = 0 /\ outages = 0

-----------------------------------------------------------------------------
\* The session after create_ftp_connection: the FTP object is assigned before
\* it connects, so a refused connection leaves it behind, unconnected.
Connected == IF up THEN "live" ELSE "dead"

\* Mutation: a session is opened once and never reopened.
CheckedOpensOnce(s) == IF s = "none" THEN Connected ELSE s

\* The session after a health check.  NOOP on an object without a socket
\* raises AttributeError, which is none of the errors that reopen the session.
Checked(s) ==
    CASE s = "none"  -> Connected
      [] s = "stale" -> Connected
      [] s = "dead"  -> "dead"
      [] s = "live"  -> "live"

HealthCheck(c) ==
    /\ session' = [session EXCEPT ![c] = Checked(@)]
    /\ cwd' = [cwd EXCEPT ![c] = IF session[c] = "live" THEN @ ELSE <<>>]

Healthy(c) == Checked(session[c]) = "live"

\* The action of c ends, by returning or by an exception.
End(c, how) ==
    /\ task' = [task EXCEPT ![c] = Rest]
    /\ outcome' = [outcome EXCEPT ![c] = how]

\* An action begins: health check, then on to the first request of op.
Begin(c, t) ==
    /\ task[c] = Rest
    /\ HealthCheck(c)
    /\ IF Healthy(c) THEN task' = [task EXCEPT ![c] = t] /\ UNCHANGED outcome
                     ELSE End(c, "failed")
    /\ UNCHANGED <<files, up, sent, drops, outages>>

\* What is left of choosing a random file: the directory reached so far.
Choosing(op) == [op |-> op, step |-> "select", rel |-> <<>>]

\* (Choosing begins with a health check of its own, right after this one.)
DownloadFile(c) == Begin(c, Choosing("download"))

\* The generator that mlsd returns is never iterated: NOOP is all that is sent.
ListRemoteFilesystem(c) ==
    /\ task[c] = Rest
    /\ HealthCheck(c)
    /\ End(c, IF Healthy(c) THEN "ok" ELSE "failed")
    /\ UNCHANGED <<files, up, sent, drops, outages>>

StatRemoteFilesystem(c) == ListRemoteFilesystem(c)

\* Where one move may lead: down, or up unless the session is at the root.
Moves(d) == Subdirs(d) \cup (IF d = <<>> THEN {} ELSE {Front(d)})

\* A request of a session that is not live raises; no health check here.
Raises(c) == session[c] # "live" /\ UNCHANGED cwd /\ End(c, "failed")

\* One move, or none where there is none.
ChangeToRandomDirectory(c) ==
    /\ task[c] = Rest
    /\ \/ Raises(c)
       \/ /\ session[c] = "live"
          /\ IF Moves(cwd[c]) = {} THEN UNCHANGED cwd
             ELSE \E d \in Moves(cwd[c]) : cwd' = [cwd EXCEPT ![c] = d]
          /\ End(c, "ok")
    /\ UNCHANGED <<files, up, session, sent, drops, outages>>

BrowseFilesystem(c) == Begin(c, [op |-> "browse", left |-> BrowseSteps])

\* One iteration of the walk; it ends after its steps or where nothing is left.
BrowseStep(c) ==
    /\ task[c].op = "browse"
    /\ \/ Raises(c)
       \/ /\ session[c] = "live"
          /\ IF task[c].left = 0 \/ Moves(cwd[c]) = {}
             THEN UNCHANGED cwd /\ End(c, "ok")
             ELSE /\ \E d \in Moves(cwd[c]) : cwd' = [cwd EXCEPT ![c] = d]
                  /\ task' = [task EXCEPT ![c].left = @ - 1]
                  /\ UNCHANGED outcome
    /\ UNCHANGED <<files, up, session, sent, drops, outages>>

-----------------------------------------------------------------------------
(* Choosing a random file, one listing at a time. *)

Listing(d) == {n \in Names : files[<<d, n>>] # <<>>}

\* What an empty directory raises: mlsd returns a generator, which is never
\* false, so the ValueError is not reached and random.choice([]) raises.
EmptyListing == "IndexError"

\* Mutation: the name is returned without the directory it was found in.
ChosenBareName(c, rel, n) ==
    [op |-> task[c].op, rel |-> <<>>, name |-> n, at |-> Resolve(cwd[c], rel),
     step |-> IF task[c].op = "append" THEN "zip" ELSE "transfer"]

\* What follows the choice of name rel: RETR, or the zip and then APPE.
Chosen(c, rel, n) ==
    [op |-> task[c].op, rel |-> rel, name |-> n, at |-> Resolve(cwd[c], rel),
     step |-> IF task[c].op = "append" THEN "zip" ELSE "transfer"]

SelectARandomFile(c) ==
    LET rel == task[c].rel
        d   == Resolve(cwd[c], rel)
    IN /\ task[c].op \in {"download", "append"} /\ task[c].step = "select"
       /\ \/ Raises(c)
          \/ /\ session[c] = "live"
             /\ \/ \E n \in Listing(d) :
                      task' = [task EXCEPT ![c] = Chosen(c, rel, n)] /\ UNCHANGED outcome
                \/ \E e \in Subdirs(d) :
                      task' = [task EXCEPT ![c].rel = Append(@, Last(e))] /\ UNCHANGED outcome
                \/ /\ Listing(d) = {} /\ Subdirs(d) = {}
                   /\ IF task[c].op = "append" /\ EmptyListing = "ValueError"
                      THEN /\ task' = [task EXCEPT ![c] = Chosen(c, <<>>, uploadName[c])]
                           /\ UNCHANGED outcome
                      ELSE End(c, EmptyListing)
             /\ UNCHANGED cwd
       /\ UNCHANGED <<files, up, session, sent, drops, outages>>

\* RETR: the file may be gone, or elsewhere when the session was reopened.
Retrieve(c) ==
    /\ task[c].op = "download" /\ task[c].step = "transfer"
    /\ LET p == <<Resolve(cwd[c], task[c].rel), task[c].name>>
       IN End(c, IF /\ session[c] = "live" /\ p \in Paths /\ files[p] # <<>>
                 THEN "ok" ELSE "failed")
    /\ UNCHANGED <<files, up, session, cwd, sent, drops, outages>>

-----------------------------------------------------------------------------
(* Sending a file.                                                         *)

\* The name is the default of the parameter, drawn once per process.
UploadFile(c) ==
    /\ sent[c] < MaxTransfers
    /\ Begin(c, [op |-> "upload", step |-> "transfer", rel |-> <<>>,
                 name |-> uploadName[c], at |-> <<>>])

AppendToRemoteFile(c) == sent[c] < MaxTransfers /\ Begin(c, Choosing("append"))

\* The zip is made after the choice; the session is checked again before APPE.
ZipMade(c) ==
    /\ task[c].op = "append" /\ task[c].step = "zip"
    /\ HealthCheck(c)
    /\ IF Healthy(c) THEN task' = [task EXCEPT ![c].step = "transfer"] /\ UNCHANGED outcome
                     ELSE End(c, "failed")
    /\ UNCHANGED <<files, up, sent, drops, outages>>

Part(c, whole) == [by |-> c, number |-> sent[c] + 1, whole |-> whole]

\* Mutations: an append stored with STOR; an append sent again for an answer
\* that was taken for an error.
WrittenWithStor(op, old, part) == <<part>>
WrittenAgain(op, old, part) == IF op = "upload" THEN <<part>> ELSE old \o <<part, part>>

\* STOR replaces the file, APPE adds to it or creates it.
Written(op, old, part) == IF op = "upload" THEN <<part>> ELSE Append(old, part)

\* The transfer: complete, or cut by the end of the session, in which case the
\* server may keep what it received.
Transfer(c) ==
    LET t == task[c]
        p == <<Resolve(cwd[c], t.rel), t.name>>
    IN /\ t.op \in {"upload", "append"} /\ t.step = "transfer"
       /\ sent' = [sent EXCEPT ![c] = @ + 1]
       /\ \/ /\ session[c] = "live" /\ p \in Paths
             /\ files' = [files EXCEPT ![p] = Written(t.op, @, Part(c, TRUE))]
             /\ End(c, "ok")
             /\ UNCHANGED <<session, drops>>
          \/ /\ session[c] = "live" /\ p \in Paths /\ drops < MaxDrops
             /\ files' = [files EXCEPT ![p] = Written(t.op, @, Part(c, FALSE))]
             /\ session' = [session EXCEPT ![c] = "stale"]
             /\ drops' = drops + 1
             /\ End(c, "failed")
          \/ /\ session[c] # "live" \/ p \notin Paths
             /\ End(c, "failed")
             /\ UNCHANGED <<files, session, drops>>
       /\ UNCHANGED <<up, cwd, outages>>

DeleteRemoteFile(c) ==
    /\ task[c] = Rest
    /\ HealthCheck(c)
    /\ \/ ~Healthy(c) /\ UNCHANGED files /\ End(c, "failed")
       \/ \E n \in Names :
            LET p == <<cwd'[c], n>>
            IN /\ Healthy(c)
               /\ End(c, IF files[p] # <<>> THEN "ok" ELSE "failed")
               /\ files' = [files EXCEPT ![p] = <<>>]
    /\ UNCHANGED <<up, sent, drops, outages>>

-----------------------------------------------------------------------------
(* The server and the network (external).                                  *)

DropSession(c) ==
    /\ session[c] = "live" /\ drops < MaxDrops
    /\ session' = [session EXCEPT ![c] = "stale"]
    /\ drops' = drops + 1
    /\ UNCHANGED <<files, up, cwd, task, sent, outcome, outages>>

ServerDown ==
    /\ up /\ outages < MaxOutages
    /\ up' = FALSE
    /\ outages' = outages + 1
    /\ session' = [c \in Clients |-> IF session[c] = "live" THEN "stale" ELSE session[c]]
    /\ UNCHANGED <<files, cwd, task, sent, outcome, drops>>

ServerUp ==
    /\ ~up /\ up' = TRUE
    /\ UNCHANGED <<files, session, cwd, task, sent, outcome, drops, outages>>

-----------------------------------------------------------------------------
\* The steps that finish what a client has begun.
Continue(c) ==
    \/ BrowseStep(c) \/ SelectARandomFile(c) \/ Retrieve(c) \/ ZipMade(c) \/ Transfer(c)

Start(c) ==
    \/ "download" \in Asks[c] /\ DownloadFile(c)
    \/ "stat" \in Asks[c]     /\ StatRemoteFilesystem(c)
    \/ "cd" \in Asks[c]       /\ ChangeToRandomDirectory(c)
    \/ "browse" \in Asks[c]   /\ BrowseFilesystem(c)
    \/ "upload" \in Asks[c]   /\ UploadFile(c)
    \/ "append" \in Asks[c]   /\ AppendToRemoteFile(c)
    \/ "delete" \in Asks[c]   /\ DeleteRemoteFile(c)

Next ==
    \/ \E c \in Clients : Start(c) \/ Continue(c) \/ DropSession(c)
    \/ ServerDown \/ ServerUp

Spec == Init /\ [][Next]_vars

\* (Of the actions only browse_cd begins without a health check.)
Downloaders == {c \in Clients : "download" \in Asks[c]}

\* Every action that is begun is carried through, the Markov model asks for a
\* download again and again, and an outage of the server ends.
Fairness ==
    /\ \A c \in Clients : WF_vars(Continue(c))
    /\ \A c \in Downloaders : SF_vars(DownloadFile(c))
    /\ WF_vars(ServerUp)

LiveSpec == Spec /\ Fairness

-----------------------------------------------------------------------------
(* Properties.                                                             *)

\* Type invariant of the session, the task and the files.
TypeOK ==
    /\ files \in [Paths -> Seq(Parts \cup {SeedPart})]
    /\ up \in BOOLEAN
    /\ session \in [Clients -> Sessions]
    /\ cwd \in [Clients -> Dirs]
    /\ sent \in [Clients -> 0..MaxTransfers]
    /\ outcome \in [Clients -> {"ok", "failed", EmptyListing}]
    /\ \A c \in Clients : session[c] \in {"none", "dead"} => cwd[c] = <<>>
    /\ drops \in 0..MaxDrops /\ outages \in 0..MaxOutages

\* However sessions break, nothing the client sends is stored twice: no retry
\* repeats a transfer whose answer was lost.
StoredOnce ==
    \A p, q \in Paths : \A i \in DOMAIN files[p], j \in DOMAIN files[q] :
        /\ files[p][i] # SeedPart /\ files[q][j] # SeedPart
        /\ files[p][i].by = files[q][j].by /\ files[p][i].number = files[q][j].number
        => p = q /\ i = j

\* Nobody but the process that draws a name ever shortens a file of that name:
\* appends of any number of clients, and their broken transfers, only add.
OnlyUploadsReplace ==
    [][\A p \in Paths :
          \/ IsPrefix(files[p], files'[p])
          \/ files'[p] = <<>>
          \/ \E c \in Clients : task[c].op = "upload" /\ p[2] = uploadName[c]]_files

\* The file a transfer reaches is the one that was listed when it was chosen,
\* as long as no session broke: walks and moves change the working directory
\* only between actions.
ReachesTheChosen ==
    \A c \in Clients :
        /\ drops = 0 /\ outages = 0
        /\ task[c].op \in {"download", "append"} /\ task[c].step \in {"zip", "transfer"}
        => Resolve(cwd[c], task[c].rel) = task[c].at

\* A client that keeps working gets a session again whenever one was closed,
\* as long as the server has never refused a connection.
Reopens == \A c \in Downloaders : session[c] # "live" ~> (session[c] = "live" \/ outages > 0)

\* "Attempt to send a command to ftp server.  If it fails, attempt to close ftp
\* connection, then reopen it": the same, outages included.
ReopensAlways == \A c \in Downloaders : session[c] # "live" ~> session[c] = "live"
=============================================================================
