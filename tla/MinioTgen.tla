------------------------------ MODULE MinioTgen ------------------------------
(***************************************************************************)
(* The MinIO traffic generator's Python client.  S3 has no append: the     *)
(* client reads an object and writes it back longer, while other clients   *)
(* do the same with objects each picks at random.  The object store and    *)
(* boto3 are external; an S3 request is one step and may fail.  An action  *)
(* that raises ends; the generator goes on with the next one.              *)
(***************************************************************************)
EXTENDS Naturals, Sequences, FiniteSets, SequencesExt

CONSTANTS Clients,     \* generator processes
          Appenders,   \* those whose Markov model asks for upload_appe
          Keys,        \* object names of the bucket
          NoKey,       \* what monitor_zip_remote is before the first upload
          Seeded,      \* objects there at the start
          MaxSent,     \* bound: files each client sends
          MaxFails,    \* bound: requests that fail
          MaxDeletes   \* bound: objects deleted

ASSUME MinioAssumption ==
    /\ Appenders \subseteq Clients /\ Seeded \subseteq Keys /\ NoKey \notin Keys
    /\ MaxSent \in Nat /\ MaxFails \in Nat /\ MaxDeletes \in Nat

VARIABLES store,     \* parts of each object, <<>> when there is none
          drawn,     \* names in use or drawn so far: rand_name draws others
          minio,     \* each client has an S3 resource
          monitor,   \* monitor_zip_remote of each client
          task, sent, outcome,
          lastMonitor, \* the part of the last monitor_upload, for the properties
          fails, deletes

vars == <<store, drawn, minio, monitor, task, sent, outcome, lastMonitor, fails, deletes>>
env  == <<fails, deletes>>

Parts == [by : Clients, number : 1..MaxSent]
SeedPart == [by |-> "nobody", number |-> 0]
Rest == [op |-> "rest"]

Init ==
    /\ store = [k \in Keys |-> IF k \in Seeded THEN <<SeedPart>> ELSE <<>>]
    /\ drawn = Seeded
    /\ minio = [c \in Clients |-> FALSE]
    /\ monitor = [c \in Clients |-> NoKey]
    /\ task = [c \in Clients |-> Rest]
    /\ sent = [c \in Clients |-> 0]
    /\ outcome = [c \in Clients |-> "ok"]
    /\ lastMonitor = [c \in Clients |-> SeedPart]
    /\ fails = 0 /\ deletes = 0

-----------------------------------------------------------------------------
\* The action of c ends, by returning or by an exception.
End(c, how) ==
    /\ task' = [task EXCEPT ![c] = Rest]
    /\ outcome' = [outcome EXCEPT ![c] = how]

GoOn(c, t) == task' = [task EXCEPT ![c] = t] /\ UNCHANGED outcome

\* A resource is created without a request, so a health check always leaves
\* one, and never raises for a server that does not answer.
HealthCheck(c) == minio' = [minio EXCEPT ![c] = TRUE]

\* A request of c fails instead of being served.
Fails(c) ==
    /\ fails < MaxFails /\ fails' = fails + 1
    /\ End(c, "failed")
    /\ UNCHANGED <<store, drawn, monitor, sent, lastMonitor, deletes>>

Objects == {k \in Keys : store[k] # <<>>}

Part(c) == [by |-> c, number |-> sent[c] + 1]

\* browse_list, browse_stat and browse_cd read the listing and keep nothing of it.
ListRemoteBucket(c) ==
    /\ task[c] = Rest
    /\ HealthCheck(c)
    /\ \/ Fails(c)
       \/ End(c, "ok") /\ UNCHANGED <<store, drawn, monitor, sent, lastMonitor, env>>

\* A walk down the listing, which ends at a request that fails, but never in failure.
BrowseFilesystem(c) ==
    /\ task[c] = Rest
    /\ HealthCheck(c)
    /\ UNCHANGED fails \/ (fails < MaxFails /\ fails' = fails + 1)
    /\ End(c, "ok")
    /\ UNCHANGED <<store, drawn, monitor, sent, lastMonitor, deletes>>

\* An object chosen from the listing, as select_a_random_file returns it: in a
\* bucket.  Without objects it raises ValueError.
DownloadFile(c) ==
    /\ task[c] = Rest
    /\ HealthCheck(c)
    /\ \/ Fails(c)
       \/ /\ \/ \E k \in Objects : GoOn(c, [op |-> "get", key |-> k])
             \/ Objects = {} /\ End(c, "failed")
          /\ UNCHANGED <<store, drawn, monitor, sent, lastMonitor, env>>

\* The object may be gone since it was listed, or never have been stored.
Download(c) ==
    /\ task[c].op = "get"
    /\ UNCHANGED minio
    /\ \/ Fails(c)
       \/ /\ End(c, IF task[c].key \in Objects THEN "ok" ELSE "failed")
          /\ UNCHANGED <<store, drawn, monitor, sent, lastMonitor, env>>

-----------------------------------------------------------------------------
(* Storing files.                                                          *)

\* A file is made and given a name nobody has.
UploadFile(c) ==
    /\ task[c] = Rest /\ sent[c] < MaxSent
    /\ HealthCheck(c)
    /\ \E k \in Keys \ drawn :
          /\ drawn' = drawn \cup {k}
          /\ GoOn(c, [op |-> "put", key |-> k, data |-> <<Part(c)>>])
    /\ sent' = [sent EXCEPT ![c] = @ + 1]
    /\ UNCHANGED <<store, monitor, lastMonitor, env>>

\* The same, and the name is kept for monitor_download before anything is sent.
MonitorUpload(c) ==
    /\ task[c] = Rest /\ sent[c] < MaxSent
    /\ HealthCheck(c)
    /\ \E k \in Keys \ drawn :
          /\ drawn' = drawn \cup {k}
          /\ monitor' = [monitor EXCEPT ![c] = k]
          /\ GoOn(c, [op |-> "put", key |-> k, data |-> <<Part(c)>>])
    /\ sent' = [sent EXCEPT ![c] = @ + 1]
    /\ lastMonitor' = [lastMonitor EXCEPT ![c] = Part(c)]
    /\ UNCHANGED <<store, env>>

\* Mutation: an append whose PUT fails is tried again from its start.
PutReadsAgain(c) ==
    LET stored == [store EXCEPT ![task[c].key] = task[c].data]
    IN /\ task[c].op = "put"
       /\ \/ store' = stored /\ End(c, "ok") /\ UNCHANGED fails
          \/ /\ store' \in {store, stored} /\ GoOn(c, [op |-> "read", key |-> task[c].key])
             /\ fails < MaxFails /\ fails' = fails + 1
       /\ UNCHANGED <<drawn, minio, monitor, sent, lastMonitor, deletes>>

\* PUT replaces the object.  It may fail before or after it took effect.
Put(c) ==
    LET stored == [store EXCEPT ![task[c].key] = task[c].data]
    IN /\ task[c].op = "put"
       /\ \/ store' = stored /\ End(c, "ok") /\ UNCHANGED fails
          \/ /\ store' \in {store, stored} /\ End(c, "failed")
             /\ fails < MaxFails /\ fails' = fails + 1
       /\ UNCHANGED <<drawn, minio, monitor, sent, lastMonitor, deletes>>

MonitorDownload(c) ==
    /\ task[c] = Rest
    /\ HealthCheck(c)
    /\ IF monitor[c] = NoKey THEN End(c, "failed")
                             ELSE GoOn(c, [op |-> "get", key |-> monitor[c]])
    /\ UNCHANGED <<store, drawn, monitor, sent, lastMonitor, env>>

-----------------------------------------------------------------------------
(* Append: list, read, write back.                                         *)

\* With objects in the bucket one of them is chosen.  Without, a fresh name is
\* drawn, which names no bucket and is refused further down.
AppendToRemoteFile(c) ==
    /\ c \in Appenders
    /\ task[c] = Rest /\ sent[c] < MaxSent
    /\ HealthCheck(c)
    /\ \/ Fails(c)
       \/ /\ \/ \E k \in Objects : GoOn(c, [op |-> "read", key |-> k])
             \/ Objects = {} /\ End(c, "refused")
          /\ sent' = [sent EXCEPT ![c] = @ + 1]
          /\ UNCHANGED <<store, drawn, monitor, lastMonitor, env>>

\* Mutation: what the object holds is not read at all.
ExistingNever(c, served) == <<>>

\* Any exception while reading counts as an object without contents.
Existing(c, served) ==
    IF served THEN store[task[c].key] ELSE <<>>

ReadExisting(c) ==
    /\ task[c].op = "read"
    /\ \E served \in BOOLEAN :
          /\ served \/ fails < MaxFails
          /\ fails' = IF served THEN fails ELSE fails + 1
          /\ GoOn(c, [op |-> "put", key |-> task[c].key,
                      data |-> Append(Existing(c, served), [by |-> c, number |-> sent[c]])])
    /\ UNCHANGED <<store, drawn, minio, monitor, sent, lastMonitor, deletes>>

DeleteRemoteFile(c) ==
    /\ task[c] = Rest /\ deletes < MaxDeletes
    /\ HealthCheck(c)
    /\ \/ Fails(c)
       \/ /\ \E k \in Objects : store' = [store EXCEPT ![k] = <<>>]
          /\ End(c, "ok")
          /\ deletes' = deletes + 1
          /\ UNCHANGED <<drawn, monitor, sent, lastMonitor, fails>>

-----------------------------------------------------------------------------
Next == \E c \in Clients :
    \/ ListRemoteBucket(c) \/ BrowseFilesystem(c) \/ DownloadFile(c) \/ Download(c)
    \/ UploadFile(c) \/ MonitorUpload(c) \/ Put(c) \/ MonitorDownload(c)
    \/ AppendToRemoteFile(c) \/ ReadExisting(c) \/ DeleteRemoteFile(c)

Spec == Init /\ [][Next]_vars

-----------------------------------------------------------------------------
(* Properties.                                                             *)

\* Type invariant.
TypeOK ==
    /\ store \in [Keys -> Seq(Parts \cup {SeedPart})]
    /\ drawn \subseteq Keys
    /\ monitor \in [Clients -> drawn \cup {NoKey}]
    /\ sent \in [Clients -> 0..MaxSent]
    /\ outcome \in [Clients -> {"ok", "failed", "refused"}]
    /\ fails \in 0..MaxFails /\ deletes \in 0..MaxDeletes

\* With one appender and until a request fails or an object is deleted, the bucket
\* behaves like one whose append is atomic, whatever else runs beside it.
faulty == fails + deletes > 0
Atomic == INSTANCE AppendStore WITH Parts <- Parts \cup {SeedPart}
AppendsAreAtomic == Atomic!Spec

\* What the monitor's file begins with is the monitor's own zip: the names that
\* monitor_upload draws are never written by an upload of another client, and an
\* append that picks the file by chance adds behind it.
MonitorFileIsOwn ==
    \A c \in Clients :
        ~faulty /\ monitor[c] # NoKey /\ store[monitor[c]] # <<>>
        => Head(store[monitor[c]]) = lastMonitor[c]

\* A part is stored at most once in one file and in no other, although every
\* request may be served and still be reported as failed.
StoredOnce ==
    \A k, l \in Keys : \A i \in DOMAIN store[k], j \in DOMAIN store[l] :
        store[k][i] = store[l][j] /\ store[k][i] # SeedPart => k = l /\ i = j
=============================================================================
