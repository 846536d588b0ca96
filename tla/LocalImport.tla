----------------------------- MODULE LocalImport -----------------------------
(***************************************************************************)
(* Import of local folders by the knowledge backend                        *)
(* (app/backend/internal/localimport): the HTTP handlers create job rows   *)
(* and put them on the dispatcher's bounded queue, workers run them.  A    *)
(* run walks the folder, compares each file with its row, and writes the   *)
(* row and the file's chunks.  Rows, jobs and chunks are in the database   *)
(* and survive a restart; the queue and the workers do not.                *)
(*                                                                         *)
(* A version of a file stands for its modification time and size, by which *)
(* DeltaResolver compares, and for its content.                            *)
(*                                                                         *)
(* Any statement of the database may fail: for want of a connection, for a *)
(* context that is over, or for a reference.  Nothing deletes the vectors  *)
(* of a chunk (chunk_embeddings.chunk_id refers to chunks without ON       *)
(* DELETE CASCADE), so chunks that were embedded cannot be deleted, nor    *)
(* the file or the source they belong to.                                  *)
(***************************************************************************)
EXTENDS Naturals, Sequences, FiniteSets

CONSTANTS
    Sources,        \* the folders
    NumPaths,       \* the paths below a folder, in the order of the walk
    Files,          \* those of them that are files; the others are directories
    Workers,        \* the dispatcher's worker goroutines
    Reqs,           \* the sync requests that may be handled at the same time
    QueueCap,       \* capacity of the dispatcher's queue (100 in the code)
    ErrCap,         \* capacity of the walk's error channel (10 in the code)
    MaxJobs,        \* bound on the jobs created
    MaxVersion,     \* bound on the versions of a file
    MaxCrashes      \* bound on the restarts of the backend

ASSUME ImportAssumption ==
    /\ {NumPaths, QueueCap, ErrCap, MaxJobs, MaxVersion, MaxCrashes} \subseteq Nat
    /\ Files \subseteq 1 .. NumPaths
    /\ QueueCap > 0 /\ ErrCap > 0 /\ MaxVersion > 0

Paths == 1 .. NumPaths
JobIds == 1 .. MaxJobs
Versions == 0 .. MaxVersion     \* 0: no row

VARIABLES
    disk,       \* the files of each folder
    source,     \* the rows of local_sources
    jobs,       \* the rows of import_jobs, in the order of creation
    rows,       \* local_files: the version each file was last imported at
    chunks,     \* the batches of chunks stored for each file
    vectors,    \* the files with a chunk that has a vector
    req,        \* the sync and delete requests being handled
    queue,      \* the dispatcher's queue
    worker,     \* the workers
    crashes,
    \* History, read by no action:
    leftover,   \* the files whose old chunks were to be deleted and are still there
    loose,      \* the sources with a job that was marked stale by a deletion
    unrecorded  \* the jobs whose last status could not be written

files == <<rows, chunks, vectors, leftover>>
db == <<source, jobs, files>>
memory == <<req, queue, worker>>
history == <<loose, unrecorded>>
vars == <<disk, source, jobs, rows, chunks, vectors, req, queue, worker, crashes,
          leftover, loose, unrecorded>>

Active == {"queued", "running"}
Ended == {"completed", "failed", "stale", "deleted"}

Job == [source : Sources, status : Active \union Ended]

IdleReq == [at |-> "idle"]
IdleWorker == [at |-> "idle"]
Entry == [file : Files, ver : Versions]

\* The working states of Processor.Run: between two entries, or in a call to the file system
\* that does not return; with a file read whose old chunks are to be deleted, without old
\* chunks, with its row written, with its chunks written; deleting the rows of files that
\* are gone.  next, entries, errs and bad are the walk's: the next path, the two channels,
\* and the paths it could not read.  Text 0 is a file that could not be read, or has no text.
Working ==
    [at : {"scan", "hung", "read", "cleared", "stored", "inserted", "prune"},
     job : JobIds, next : 1 .. NumPaths + 1, entries : Seq(Entry), errs : 0 .. ErrCap,
     bad : SUBSET Paths, seen : SUBSET Files, text : Versions, gone : SUBSET Files]

\* handleSyncSource has looked for an active job, or has created one; handleDeleteSource has
\* listed the running jobs, and has some of them still to mark.
Handling ==
    [at : {"checked"}, source : Sources]
        \union [at : {"created"}, source : Sources, job : JobIds]
        \union [at : {"deleting"}, source : Sources, running : SUBSET JobIds]

TypeOK ==
    /\ disk \in [Sources -> [Files -> [ver : Versions, there : BOOLEAN]]]
    /\ source \in [Sources -> [there : BOOLEAN, enabled : BOOLEAN]]
    /\ jobs \in Seq(Job)
    /\ rows \in [Sources -> [Files -> Versions]]
    /\ chunks \in [Sources -> [Files -> Seq(Versions)]]
    /\ vectors \in [Sources -> SUBSET Files]
    /\ req \in [Reqs -> {IdleReq} \union Handling]
    /\ queue \in Seq(JobIds) /\ Len(queue) <= QueueCap
    /\ worker \in [Workers -> {IdleWorker} \union Working]
    /\ crashes \in 0 .. MaxCrashes
    /\ leftover \in [Sources -> SUBSET Files]
    /\ loose \subseteq Sources
    /\ unrecorded \subseteq JobIds

Init ==
    /\ disk = [s \in Sources |-> [f \in Files |-> [ver |-> 1, there |-> TRUE]]]
    /\ source = [s \in Sources |-> [there |-> TRUE, enabled |-> TRUE]]
    /\ jobs = <<>>
    /\ rows = [s \in Sources |-> [f \in Files |-> 0]]
    /\ chunks = [s \in Sources |-> [f \in Files |-> <<>>]]
    /\ vectors = [s \in Sources |-> {}]
    /\ req = [q \in Reqs |-> IdleReq]
    /\ queue = <<>>
    /\ worker = [w \in Workers |-> IdleWorker]
    /\ crashes = 0
    /\ leftover = [s \in Sources |-> {}]
    /\ loose = {}
    /\ unrecorded = {}

-----------------------------------------------------------------------------
(* The handlers.                                                            *)

ActiveJobs(s) == {j \in DOMAIN jobs : jobs[j].source = s /\ jobs[j].status \in Active}

\* handleSyncSource up to HasRunning: a source that is enabled and has no active job.
SyncCheck(q, s) ==
    /\ req[q] = IdleReq
    /\ source[s].there /\ source[s].enabled
    /\ ActiveJobs(s) = {}
    /\ req' = [req EXCEPT ![q] = [at |-> "checked", source |-> s]]
    /\ UNCHANGED <<disk, db, queue, worker, crashes, history>>

\* Mutant: the insert trusts the check made before it.
CreateUnchecked(q) ==
    /\ req[q].at = "checked"
    /\ Len(jobs) < MaxJobs
    /\ jobs' = Append(jobs, [source |-> req[q].source, status |-> "queued"])
    /\ req' = [req EXCEPT ![q] = [at |-> "created", source |-> @.source, job |-> Len(jobs) + 1]]
    /\ UNCHANGED <<disk, source, files, queue, worker, crashes, history>>

\* ImportJobStore.Create: the unique index on the active jobs of a source, and the
\* reference to the source, refuse the row that a later request may no longer add.
Create(q) ==
    /\ req[q].at = "checked"
    /\ LET s == req[q].source IN
       \/ /\ Len(jobs) < MaxJobs
          /\ source[s].there /\ ActiveJobs(s) = {}
          /\ jobs' = Append(jobs, [source |-> s, status |-> "queued"])
          /\ req' = [req EXCEPT ![q] = [at |-> "created", source |-> s, job |-> Len(jobs) + 1]]
       \/ req' = [req EXCEPT ![q] = IdleReq] /\ UNCHANGED jobs
    /\ UNCHANGED <<disk, source, files, queue, worker, crashes, history>>

\* Dispatcher.Enqueue: a full queue is reported to the caller, and the row stays.
Enqueue(q) ==
    /\ req[q].at = "created"
    /\ queue' = IF Len(queue) < QueueCap THEN Append(queue, req[q].job) ELSE queue
    /\ req' = [req EXCEPT ![q] = IdleReq]
    /\ UNCHANGED <<disk, db, worker, crashes, history>>

\* handlePatchSource: a source is switched off or on.
PatchSource(s) ==
    /\ source[s].there
    /\ source' = [source EXCEPT ![s].enabled = ~@]
    /\ UNCHANGED <<disk, jobs, files, memory, crashes, history>>

\* handleDeleteSource lists the jobs of the source that run; an error counts as none.
DeleteSource(q, s) ==
    /\ req[q] = IdleReq
    /\ source[s].there
    /\ \E running \in {{}, {j \in DOMAIN jobs : jobs[j].source = s /\ jobs[j].status = "running"}} :
         req' = [req EXCEPT ![q] = [at |-> "deleting", source |-> s, running |-> running]]
    /\ UNCHANGED <<disk, db, queue, worker, crashes, history>>

\* It marks them stale, whatever they are by now; an error is passed over.
MarkStale(q) ==
    /\ req[q].at = "deleting" /\ req[q].running # {}
    /\ \E marked \in SUBSET req[q].running :
         /\ jobs' = [j \in DOMAIN jobs |->
                IF j \in marked /\ jobs[j].status # "deleted"
                THEN [jobs[j] EXCEPT !.status = "stale"] ELSE jobs[j]]
         /\ loose' = IF marked = {} THEN loose ELSE loose \union {req[q].source}
    /\ req' = [req EXCEPT ![q].running = {}]
    /\ UNCHANGED <<disk, source, files, queue, worker, crashes, unrecorded>>

\* LocalSourceStore.Delete: with the source go its jobs, its files and their chunks, unless
\* one of those has a vector.
DeleteRow(q) ==
    /\ req[q].at = "deleting" /\ req[q].running = {}
    /\ req' = [req EXCEPT ![q] = IdleReq]
    /\ LET s == req[q].source IN
       \/ /\ vectors[s] = {}
          /\ source' = [source EXCEPT ![s].there = FALSE]
          /\ jobs' = [j \in DOMAIN jobs |->
                IF jobs[j].source = s THEN [jobs[j] EXCEPT !.status = "deleted"] ELSE jobs[j]]
          /\ rows' = [rows EXCEPT ![s] = [f \in Files |-> 0]]
          /\ chunks' = [chunks EXCEPT ![s] = [f \in Files |-> <<>>]]
          /\ leftover' = [leftover EXCEPT ![s] = {}]
       \/ UNCHANGED <<source, jobs, rows, chunks, leftover>>
    /\ UNCHANGED <<disk, vectors, queue, worker, crashes, history>>

-----------------------------------------------------------------------------
(* The workers.                                                             *)

JobSource(w) == jobs[worker[w].job].source

\* The file of the entry a worker is at, and the version the walk saw of it.
FileOf(w) == Head(worker[w].entries).file
VersionOf(w) == Head(worker[w].entries).ver

\* UpdateStatus: a row that was deleted with its source is not found.
SetStatus(j, status) ==
    jobs' = [jobs EXCEPT ![j].status = IF @ = "deleted" THEN @ ELSE status]

\* processJob after an error of Run: the job is marked failed, or keeps the status it has
\* for ever.
RunFails(j) ==
    \/ SetStatus(j, "failed") /\ UNCHANGED unrecorded
    \/ UNCHANGED jobs /\ unrecorded' = unrecorded \union {j}

\* workerLoop and the beginning of Run: the job is marked running and the walk begins.
Take(w) ==
    /\ worker[w] = IdleWorker
    /\ queue # <<>>
    /\ queue' = Tail(queue)
    /\ LET j == Head(queue) IN
       /\ source[jobs[j].source].there
       /\ SetStatus(j, "running")
       /\ worker' = [worker EXCEPT ![w] =
            [at |-> "scan", job |-> j, next |-> 1, entries |-> <<>>, errs |-> 0,
             bad |-> {}, seen |-> {}, text |-> 0, gone |-> {}]]
    /\ UNCHANGED <<disk, source, files, req, crashes, history>>

\* The job cannot be marked running, or, marked or not, the source cannot be read or is gone.
TakeFails(w) ==
    /\ worker[w] = IdleWorker
    /\ queue # <<>>
    /\ queue' = Tail(queue)
    /\ LET j == Head(queue) IN
       \/ RunFails(j)
       \/ SetStatus(j, "running") /\ unrecorded' = unrecorded \union {j}
    /\ UNCHANGED <<disk, source, files, req, worker, crashes, loose>>

\* Scanner.Walk, one path on: a file goes to the entries with what the directory says of it.
Walk(w) ==
    /\ worker[w].at \notin {"idle", "hung"}
    /\ worker[w].next <= NumPaths
    /\ LET f == worker[w].next
           yields == f \in Files /\ disk[JobSource(w)][f].there
       IN  worker' = [worker EXCEPT ![w] = [worker[w] EXCEPT !.next = @ + 1,
              !.entries = IF yields THEN Append(@, [file |-> f, ver |-> disk[JobSource(w)][f].ver])
                          ELSE @]]
    /\ UNCHANGED <<disk, db, req, queue, crashes, history>>

\* A path that cannot be read goes to the errors, for which the walk waits when that channel
\* is full; a directory takes the paths below it along.
WalkError(w) ==
    /\ worker[w].at \notin {"idle", "hung"}
    /\ worker[w].next <= NumPaths /\ worker[w].errs < ErrCap
    /\ LET p == worker[w].next IN
       \E next \in (p + 1) .. (IF p \in Files THEN p + 1 ELSE NumPaths + 1) :
         worker' = [worker EXCEPT ![w] = [worker[w] EXCEPT !.next = next, !.errs = @ + 1,
                      !.bad = @ \union (p .. (next - 1))]]
    /\ UNCHANGED <<disk, db, req, queue, crashes, history>>

\* The file system does not answer the walk, or Run about the file it is at.
Hang(w) ==
    /\ worker[w].at = "scan"
    /\ worker[w].entries # <<>> \/ worker[w].next <= NumPaths
    /\ worker' = [worker EXCEPT ![w].at = "hung"]
    /\ UNCHANGED <<disk, db, req, queue, crashes, history>>

\* It answers after all.
Answers(w) ==
    /\ worker[w].at = "hung"
    /\ worker' = [worker EXCEPT ![w].at = "scan"]
    /\ UNCHANGED <<disk, db, req, queue, crashes, history>>

\* An entry that arrives while an error waits is given up for the error.
ScanError(w) ==
    /\ worker[w].at = "scan"
    /\ worker[w].entries # <<>> /\ worker[w].errs > 0
    /\ worker' = [worker EXCEPT ![w] = [worker[w] EXCEPT !.entries = Tail(@), !.errs = @ - 1]]
    /\ UNCHANGED <<disk, db, req, queue, crashes, history>>

\* Classify and Extract: a file whose row has the version of the entry is left alone, and
\* so is one whose row or path cannot be looked up, or that is too large or outside of the
\* folder; of any other the text is read, and there is none when that fails.  The entry
\* keeps its place until the file is done.
Classify(w) ==
    /\ worker[w].at = "scan"
    /\ worker[w].entries # <<>> /\ worker[w].errs = 0
    /\ LET entry == Head(worker[w].entries)
           f == entry.file
           file == disk[JobSource(w)][f]
           row == rows[JobSource(w)][f]
           passed == [worker[w] EXCEPT !.seen = @ \union {f}]
       IN  \/ worker' = [worker EXCEPT ![w] = [passed EXCEPT !.entries = Tail(@)]]
           \/ /\ row # entry.ver
              /\ \E text \in IF file.there THEN {0, file.ver} ELSE {0} :
                   worker' = [worker EXCEPT ![w] =
                      [passed EXCEPT !.at = IF row = 0 THEN "cleared" ELSE "read", !.text = text]]
    /\ UNCHANGED <<disk, db, req, queue, crashes, history>>

\* The old chunks of a modified file are deleted; Run goes on when they are not.
DeleteOldChunks(w) ==
    /\ worker[w].at = "read"
    /\ worker' = [worker EXCEPT ![w].at = "cleared"]
    /\ LET s == JobSource(w)
           f == FileOf(w)
       IN  \/ /\ f \notin vectors[s]
              /\ chunks' = [chunks EXCEPT ![s][f] = <<>>]
              /\ leftover' = [leftover EXCEPT ![s] = @ \ {f}]
           \/ /\ leftover' = [leftover EXCEPT ![s] =
                              IF chunks[s][f] = <<>> THEN @ ELSE @ \union {f}]
              /\ UNCHANGED chunks
    /\ UNCHANGED <<disk, source, jobs, rows, vectors, req, queue, crashes, history>>

\* The file's turn is over.
Done(w) ==
    worker' = [worker EXCEPT ![w] =
                  [worker[w] EXCEPT !.at = "scan", !.entries = Tail(@), !.text = 0]]

\* Mutant: the row records the version the file has when the row is written.
UpsertLateVersion(w) ==
    /\ worker[w].at = "cleared"
    /\ source[JobSource(w)].there
    /\ rows' = [rows EXCEPT ![JobSource(w)][FileOf(w)] = disk[JobSource(w)][FileOf(w)].ver]
    /\ worker' = [worker EXCEPT ![w].at = "stored"]
    /\ UNCHANGED <<disk, source, jobs, chunks, vectors, leftover, req, queue, crashes, history>>

\* LocalFileStore.Upsert: the row takes the version the walk saw.  When it cannot be
\* written, as when the source is gone, the file is passed over.
Upsert(w) ==
    /\ worker[w].at = "cleared"
    /\ \/ /\ source[JobSource(w)].there
          /\ rows' = [rows EXCEPT ![JobSource(w)][FileOf(w)] = VersionOf(w)]
          /\ worker' = [worker EXCEPT ![w].at = "stored"]
       \/ Done(w) /\ UNCHANGED rows
    /\ UNCHANGED <<disk, source, jobs, chunks, vectors, leftover, req, queue, crashes, history>>

\* CreateBatchLocal: all the chunks in one transaction, or none when it fails, the row is
\* gone, or there is no text.
InsertChunks(w) ==
    /\ worker[w].at = "stored"
    /\ LET s == JobSource(w)
           f == FileOf(w)
       IN  \/ /\ rows[s][f] # 0 /\ worker[w].text # 0
              /\ chunks' = [chunks EXCEPT ![s][f] = Append(@, worker[w].text)]
              /\ worker' = [worker EXCEPT ![w].at = "inserted"]
           \/ Done(w) /\ UNCHANGED chunks
    /\ UNCHANGED <<disk, source, jobs, rows, vectors, leftover, req, queue, crashes, history>>

\* embedChunks: the vectors of the chunks just inserted, or none.
Embed(w) ==
    /\ worker[w].at = "inserted"
    /\ Done(w)
    /\ LET s == JobSource(w)
           f == FileOf(w)
           stored == \E i \in DOMAIN chunks[s][f] : chunks[s][f][i] = worker[w].text
       IN  \/ stored /\ vectors' = [vectors EXCEPT ![s] = @ \union {f}]
           \/ UNCHANGED vectors
    /\ UNCHANGED <<disk, source, jobs, rows, chunks, leftover, req, queue, crashes, history>>

\* The end of the entries: handleDeletedFiles lists the rows of files the walk did not
\* yield, or nothing when that fails.
ListGone(w) ==
    /\ worker[w].at = "scan"
    /\ worker[w].entries = <<>> /\ worker[w].next > NumPaths
    /\ \E gone \in {{}, {f \in Files \ worker[w].seen : rows[JobSource(w)][f] # 0}} :
         worker' = [worker EXCEPT ![w] = [worker[w] EXCEPT !.at = "prune", !.seen = {}, !.gone = gone]]
    /\ UNCHANGED <<disk, db, req, queue, crashes, history>>

\* Each of them loses its chunks and then its row, and the chunks with the row; either
\* statement may fail, and does when a chunk has a vector.
Prune(w) ==
    /\ worker[w].at = "prune"
    /\ LET s == JobSource(w) IN
       \E f \in worker[w].gone :
         /\ worker' = [worker EXCEPT ![w].gone = @ \ {f}]
         /\ \/ /\ f \notin vectors[s]
               /\ chunks' = [chunks EXCEPT ![s][f] = <<>>]
               /\ leftover' = [leftover EXCEPT ![s] = @ \ {f}]
               /\ \E row \in {0, rows[s][f]} : rows' = [rows EXCEPT ![s][f] = row]
            \/ UNCHANGED <<rows, chunks, leftover>>
    /\ UNCHANGED <<disk, source, jobs, vectors, req, queue, crashes, history>>

\* The end of Run: the job completes, or fails when that cannot be written.
Complete(w) ==
    /\ worker[w].at = "prune" /\ worker[w].gone = {}
    /\ worker' = [worker EXCEPT ![w] = IdleWorker]
    /\ \/ SetStatus(worker[w].job, "completed") /\ UNCHANGED unrecorded
       \/ RunFails(worker[w].job)
    /\ UNCHANGED <<disk, source, files, req, queue, crashes, loose>>

\* Mutant: the deadline is looked at between two entries only.
TimeoutAtEntry(w) ==
    /\ worker[w].at = "scan"
    /\ worker[w].entries # <<>>
    /\ worker' = [worker EXCEPT ![w] = IdleWorker]
    /\ RunFails(worker[w].job)
    /\ UNCHANGED <<disk, source, files, req, queue, crashes, loose>>

\* processJob: the deadline of the job passes, the context is cancelled, and the walk and
\* every call to the database return.  A call to the file system does not.
Timeout(w) ==
    /\ worker[w].at \notin {"idle", "hung"}
    /\ worker' = [worker EXCEPT ![w] = IdleWorker]
    /\ RunFails(worker[w].job)
    /\ UNCHANGED <<disk, source, files, req, queue, crashes, loose>>

-----------------------------------------------------------------------------
(* The environment.                                                         *)

WriteFile(s, f) ==
    /\ disk[s][f].ver < MaxVersion
    /\ disk' = [disk EXCEPT ![s][f] = [ver |-> @.ver + 1, there |-> TRUE]]
    /\ UNCHANGED <<db, memory, crashes, history>>

RemoveFile(s, f) ==
    /\ disk[s][f].there
    /\ disk' = [disk EXCEPT ![s][f].there = FALSE]
    /\ UNCHANGED <<db, memory, crashes, history>>

\* The backend stops at any point and is started again: MarkStaleJobs, whose failure is
\* passed over, then the workers.
Restart ==
    /\ crashes < MaxCrashes
    /\ crashes' = crashes + 1
    /\ \/ /\ jobs' = [j \in DOMAIN jobs |->
                  IF jobs[j].status = "running" THEN [jobs[j] EXCEPT !.status = "stale"] ELSE jobs[j]]
          /\ UNCHANGED unrecorded
       \/ /\ unrecorded' = unrecorded \union {j \in DOMAIN jobs : jobs[j].status = "running"}
          /\ UNCHANGED jobs
    /\ req' = [q \in Reqs |-> IdleReq]
    /\ queue' = <<>>
    /\ worker' = [w \in Workers |-> IdleWorker]
    /\ UNCHANGED <<disk, source, files, loose>>

WorkerStep(w) ==
    \/ Take(w) \/ TakeFails(w) \/ Walk(w) \/ WalkError(w) \/ Hang(w) \/ Answers(w)
    \/ ScanError(w) \/ Classify(w) \/ DeleteOldChunks(w) \/ Upsert(w) \/ InsertChunks(w) \/ Embed(w)
    \/ ListGone(w) \/ Prune(w) \/ Complete(w) \/ Timeout(w)

Next ==
    \/ \E q \in Reqs, s \in Sources : SyncCheck(q, s) \/ DeleteSource(q, s)
    \/ \E q \in Reqs : Create(q) \/ Enqueue(q) \/ MarkStale(q) \/ DeleteRow(q)
    \/ \E s \in Sources : PatchSource(s)
    \/ \E w \in Workers : WorkerStep(w)
    \/ \E s \in Sources, f \in Files : WriteFile(s, f) \/ RemoveFile(s, f)
    \/ Restart

Spec == Init /\ [][Next]_vars

\* Goroutines are scheduled, and the timer of a job fires.
Fairness ==
    /\ \A q \in Reqs : WF_vars(Enqueue(q))
    /\ \A w \in Workers : WF_vars(Take(w) \/ TakeFails(w)) /\ WF_vars(Timeout(w))

LiveSpec == Spec /\ Fairness

-----------------------------------------------------------------------------
(* Properties.                                                              *)

\* The import of a source was one run at a time, and the deletion of a file's old chunks
\* did not fail.
Undisturbed(s, f) == s \notin loose /\ f \notin leftover[s]

\* uq_import_jobs_active: a source has at most one active job, whatever requests race and
\* whatever statement fails.  A file has no chunks without its row, and at most one batch
\* of them unless deleting the old ones failed or two workers were on the source
\* (metadata/query.go: "no partially-indexed file").
ImportInv ==
    /\ TypeOK
    /\ \A s \in Sources : Cardinality(ActiveJobs(s)) <= 1
    /\ \A s \in Sources, f \in Files :
         /\ rows[s][f] = 0 => chunks[s][f] = <<>>
         /\ Undisturbed(s, f) => Len(chunks[s][f]) <= 1

\* A change is never overlooked: the chunks of a file whose row has the version on disk
\* are those of that version, although the text is read later than the version is taken
\* and the file may be written in between, and whatever other statement fails.
StaleIsDetected ==
    \A s \in Sources, f \in Files :
        /\ Undisturbed(s, f)
        /\ disk[s][f].there /\ rows[s][f] = disk[s][f].ver /\ chunks[s][f] # <<>>
        => chunks[s][f] = <<disk[s][f].ver>>

-----------------------------------------------------------------------------
(* The inductive invariant.                                                 *)

\* Two workers never import the same folder at once, and never have the same job.
OneWorkerPerSource ==
    \A v, w \in Workers :
        v # w /\ worker[v] # IdleWorker /\ worker[w] # IdleWorker => JobSource(v) # JobSource(w)

\* A deletion marks the job of a worker stale, the worker goes on, and another may come.
OneWorkerUnlessLoose ==
    \A v, w \in Workers : v # w /\ worker[v] # IdleWorker /\ worker[w] # IdleWorker =>
        /\ worker[v].job # worker[w].job
        /\ JobSource(v) = JobSource(w) => JobSource(v) \in loose

\* A source has one active job, and takes its jobs along when it is deleted.
JobsOfSources ==
    /\ Len(jobs) <= MaxJobs
    /\ \A j \in DOMAIN jobs : jobs[j].status = "deleted" <=> ~source[jobs[j].source].there
    /\ \A j, k \in DOMAIN jobs :
         /\ jobs[j].source = jobs[k].source
         /\ jobs[j].status \in Active /\ jobs[k].status \in Active
         => j = k

\* A job that no worker has taken yet.
Waiting(j) == j \in DOMAIN jobs /\ jobs[j].status \in {"queued", "deleted"}

\* A job is in one place of the queue, or in the hands of one request.
WaitingOnce ==
    /\ \A i \in DOMAIN queue : Waiting(queue[i])
    /\ \A i, k \in DOMAIN queue : queue[i] = queue[k] => i = k
    /\ \A q \in Reqs : req[q].at = "created" =>
         /\ Waiting(req[q].job)
         /\ \A i \in DOMAIN queue : queue[i] # req[q].job
         /\ \A r \in Reqs \ {q} : req[r].at = "created" => req[r].job # req[q].job

\* The jobs a deletion has listed are of its source, and were taken.
Listed ==
    \A q \in Reqs : req[q].at = "deleting" =>
        \A j \in req[q].running :
            j \in DOMAIN jobs /\ jobs[j].source = req[q].source /\ jobs[j].status # "queued"

\* The job of a worker runs, unless it was marked stale or deleted with its source.
WorkersRun ==
    \A w \in Workers : worker[w] # IdleWorker =>
        /\ worker[w].job \in DOMAIN jobs
        /\ jobs[worker[w].job].status \in {"running", "stale", "deleted"}
        /\ jobs[worker[w].job].status = "stale" => JobSource(w) \in loose

\* The file a worker is at has no chunks once the old ones were to be deleted, unless that
\* failed, nor when it had no row.
FileCleared(s, f) == s \in loose \/ f \in leftover[s] \/ chunks[s][f] = <<>>

\* The walk saw no version that is newer than the one on disk, and neither is the text
\* that was read later, nor older than the version; the row that is to be given chunks has
\* the version, unless it was deleted meanwhile.
Importing ==
    \A w \in Workers : worker[w] # IdleWorker =>
        LET s == JobSource(w)
            e == worker[w].entries
        IN  /\ \A i \in DOMAIN e : 1 <= e[i].ver /\ e[i].ver <= disk[s][e[i].file].ver
            /\ worker[w].at \in {"read", "cleared", "stored", "inserted"} =>
                 /\ e # <<>>
                 /\ worker[w].text = 0 \/ VersionOf(w) <= worker[w].text
                 /\ worker[w].text <= disk[s][FileOf(w)].ver
            /\ worker[w].at \in {"cleared", "stored"} => FileCleared(s, FileOf(w))
            /\ worker[w].at = "stored" =>
                 s \in loose \/ rows[s][FileOf(w)] \in {0, VersionOf(w)}

\* The chunks of a file have its row; they are one batch, of a text between the version of
\* the row and the one on disk, unless the import was disturbed.
OneBatch ==
    \A s \in Sources, f \in Files :
        /\ 1 <= disk[s][f].ver
        /\ chunks[s][f] # <<>> => rows[s][f] # 0
        /\ Undisturbed(s, f) /\ chunks[s][f] # <<>> =>
             \E t \in Versions :
                  chunks[s][f] = <<t>> /\ rows[s][f] <= t /\ t <= disk[s][f].ver

ImportIInv ==
    /\ TypeOK
    /\ JobsOfSources
    /\ WaitingOnce
    /\ Listed
    /\ WorkersRun
    /\ OneWorkerUnlessLoose
    /\ Importing
    /\ OneBatch

-----------------------------------------------------------------------------

InQueue(j) == \E i \in DOMAIN queue : queue[i] = j
Runs(j) == j \in DOMAIN jobs /\ jobs[j].status = "running"

\* No worker is held for ever but by a file system that does not answer, not even by a
\* walk that waits for its own errors to be read: a job that is in the queue or runs leaves
\* both, unless its worker, or every worker, is held so, or its last status cannot be
\* written.
JobsMove ==
    \A j \in JobIds :
        (InQueue(j) \/ Runs(j)) ~>
            \/ ~InQueue(j) /\ ~Runs(j)
            \/ j \in unrecorded
            \/ \A w \in Workers : worker[w].at = "hung"
            \/ \E w \in Workers : worker[w].at = "hung" /\ worker[w].job = j

\* specs/005-local-folder-import/data-model.md: a queued job is picked up by a worker.
QueuedIsServed ==
    \A j \in JobIds :
        (j \in DOMAIN jobs /\ jobs[j].status = "queued")
            ~> (j \in DOMAIN jobs /\ (jobs[j].status # "queued" \/ j \in unrecorded))

\* A file that is imported at the version on disk can be found.
ImportedIsSearchable ==
    \A s \in Sources, f \in Files :
        /\ disk[s][f].there /\ rows[s][f] = disk[s][f].ver
        /\ \A w \in Workers : worker[w] = IdleWorker
        => chunks[s][f] # <<>>

\* processor.go: "For modified files, delete old chunks first".
OldChunksCanBeDeleted ==
    \A w \in Workers : worker[w].at = "read" => FileOf(w) \notin vectors[JobSource(w)]

\* A run takes no file out of the index that was there to be read.
ReadableIsKept ==
    [][\A w \in Workers, f \in Files :
          Prune(w) /\ disk[JobSource(w)][f].there /\ f \notin worker[w].bad
              => rows'[JobSource(w)][f] = rows[JobSource(w)][f]]_vars

=============================================================================
