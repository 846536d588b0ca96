-------------------------- MODULE LocalImportProofs --------------------------
(***************************************************************************)
(* The safety properties of LocalImport for any number of folders, paths,  *)
(* workers, requests, jobs, versions and restarts, whatever statement of   *)
(* the database fails.                                                     *)
(***************************************************************************)
EXTENDS LocalImport, FiniteSetTheorems, SequenceTheorems, TLAPS

\* What Importing says of a busy worker, given the disk, the chunks, the rows and the
\* leftovers of its source, and whether the source is loose.
Fresh(x, d, c, r, l, u) ==
    /\ \A i \in DOMAIN x.entries : /\ 1 <= x.entries[i].ver
                                   /\ x.entries[i].ver <= d[x.entries[i].file].ver
    /\ x.at \in {"read", "cleared", "stored", "inserted"} =>
         /\ x.entries # <<>>
         /\ x.text = 0 \/ Head(x.entries).ver <= x.text
         /\ x.text <= d[Head(x.entries).file].ver
    /\ x.at \in {"cleared", "stored"} =>
         u \/ Head(x.entries).file \in l \/ c[Head(x.entries).file] = <<>>
    /\ x.at = "stored" => u \/ r[Head(x.entries).file] \in {0, Head(x.entries).ver}

\* What OneBatch says of a file, undisturbed if calm.
Batch(d, c, r, calm) ==
    /\ 1 <= d.ver
    /\ c # <<>> => r # 0
    /\ calm /\ c # <<>> => \E t \in Versions : c = <<t>> /\ r <= t /\ t <= d.ver

FreshWorker(w) ==
    Fresh(worker[w], disk[JobSource(w)], chunks[JobSource(w)], rows[JobSource(w)],
          leftover[JobSource(w)], JobSource(w) \in loose)

BatchOf(s, f) == Batch(disk[s][f], chunks[s][f], rows[s][f], Undisturbed(s, f))

JobSide == JobsOfSources /\ WaitingOnce /\ Listed /\ WorkersRun /\ OneWorkerUnlessLoose
FileSide == Importing /\ OneBatch

LEMMA ImportParts == ImportIInv <=> TypeOK /\ JobSide /\ FileSide
  BY DEF ImportIInv, JobSide, FileSide

LEMMA FileSideParts ==
    FileSide <=>
      /\ \A w \in Workers : worker[w] # IdleWorker => FreshWorker(w)
      /\ \A s \in Sources, f \in Files : BatchOf(s, f)
  BY DEF FileSide, Importing, OneBatch, FreshWorker, BatchOf, Fresh, Batch, FileOf, VersionOf,
         FileCleared

-----------------------------------------------------------------------------
(* What a step does to its worker.                                          *)

\* A worker is idle or in the middle of a run.
LEMMA BusyWorker ==
    ASSUME TypeOK, NEW w \in Workers
    PROVE  /\ worker[w].at = "idle" <=> worker[w] = IdleWorker
           /\ worker[w] # IdleWorker <=> worker[w] \in Working
  BY DEF TypeOK, IdleWorker, Working

\* A worker's new state, seen by it and by the others.
LEMMA WorkerChanges ==
    ASSUME TypeOK, NEW w \in Workers, NEW x \in {IdleWorker} \union Working,
           worker' = [worker EXCEPT ![w] = x]
    PROVE  /\ worker' \in [Workers -> {IdleWorker} \union Working]
           /\ worker'[w] = x
           /\ \A v \in Workers \ {w} : worker'[v] = worker[v]
  BY DEF TypeOK

\* The worker w goes on with its job.
GoesOn(w) ==
    /\ worker[w] \in Working /\ worker'[w] \in Working
    /\ worker' \in [Workers -> {IdleWorker} \union Working]
    /\ \A v \in Workers \ {w} : worker'[v] = worker[v]
    /\ worker'[w].job = worker[w].job

LEMMA Proceeds ==
    ASSUME TypeOK, NEW w \in Workers, worker[w].at # "idle", NEW y \in Working,
           y.job = worker[w].job, worker' = [worker EXCEPT ![w] = y]
    PROVE  GoesOn(w) /\ worker'[w] = y
  BY BusyWorker, WorkerChanges DEF GoesOn

\* The states of a run.
Places == {"scan", "hung", "read", "cleared", "stored", "inserted", "prune"}

\* A worker moves to another place of its run.
LEMMA PlaceChanges ==
    ASSUME NEW x \in Working, NEW a \in Places
    PROVE  LET y == [x EXCEPT !.at = a] IN
           /\ y \in Working /\ y.job = x.job /\ y.at = a /\ y.entries = x.entries
           /\ y.text = x.text
  BY DEF Working, Places

LEMMA Moves ==
    ASSUME TypeOK, NEW w \in Workers, worker[w].at # "idle", NEW a \in Places,
           worker' = [worker EXCEPT ![w].at = a]
    PROVE  /\ GoesOn(w) /\ worker'[w].at = a /\ worker'[w].entries = worker[w].entries
           /\ worker'[w].text = worker[w].text
  <1> DEFINE y == [worker[w] EXCEPT !.at = a]
  <1>1. worker[w] \in Working /\ worker' = [worker EXCEPT ![w] = y]
    BY BusyWorker
  <1>2. y \in Working /\ y.job = worker[w].job /\ y.at = a /\ y.entries = worker[w].entries
        /\ y.text = worker[w].text
    BY <1>1, PlaceChanges
  <1> HIDE DEF y
  <1>3. QED
    BY <1>1, <1>2, Proceeds

\* The entries after the first.
LEMMA TailEntries ==
    ASSUME NEW e \in Seq(Entry), e # <<>>
    PROVE  /\ Tail(e) \in Seq(Entry) /\ Head(e) \in Entry /\ 1 \in DOMAIN e /\ Head(e) = e[1]
           /\ \A i \in DOMAIN Tail(e) : i + 1 \in DOMAIN e /\ Tail(e)[i] = e[i + 1]
  <1>1. Len(e) \in Nat /\ DOMAIN e = 1 .. Len(e) /\ Len(e) # 0
    BY EmptySeq
  <1>2. Tail(e) \in Seq(Entry) /\ Len(Tail(e)) = Len(e) - 1
        /\ \A i \in 1 .. Len(Tail(e)) : Tail(e)[i] = e[i + 1]
    BY <1>1
  <1>3. DOMAIN Tail(e) = 1 .. Len(Tail(e)) /\ Head(e) = e[1] /\ 1 \in DOMAIN e /\ e[1] \in Entry
    BY <1>1, <1>2
  <1>4. QED
    BY <1>1, <1>2, <1>3

\* The file of a worker's first entry.
LEMMA FirstFile ==
    ASSUME NEW x \in Working, x.entries # <<>>
    PROVE  /\ Head(x.entries).file \in Files /\ Head(x.entries).ver \in Versions
           /\ 1 \in DOMAIN x.entries /\ Head(x.entries) = x.entries[1]
           /\ x.entries \in Seq(Entry) /\ Tail(x.entries) \in Seq(Entry)
  <1>1. x.entries \in Seq(Entry)
    BY DEF Working
  <1>2. QED
    BY <1>1, TailEntries DEF Entry

\* A worker is between two entries again.
LEMMA DoneDoes ==
    ASSUME TypeOK, NEW w \in Workers, worker[w].at # "idle", worker[w].entries # <<>>, Done(w)
    PROVE  GoesOn(w) /\ worker'[w].at = "scan" /\ worker'[w].entries = Tail(worker[w].entries)
  <1> DEFINE x == worker[w]
             y == [x EXCEPT !.at = "scan", !.entries = Tail(x.entries), !.text = 0]
  <1>1. x \in Working /\ worker' = [worker EXCEPT ![w] = y]
    BY BusyWorker DEF Done
  <1>2. Tail(x.entries) \in Seq(Entry) /\ 0 \in Versions
    BY <1>1, FirstFile, ImportAssumption DEF Versions
  <1>3. y \in Working /\ y.job = x.job /\ y.at = "scan" /\ y.entries = Tail(x.entries)
    BY <1>1, <1>2 DEF Working
  <1> HIDE DEF y
  <1>4. QED
    BY <1>1, <1>3, Proceeds

\* The walk adds an entry with the version on disk, or none.
LEMMA WalkDoes ==
    ASSUME TypeOK, NEW w \in Workers, Walk(w) \/ WalkError(w), JobSource(w) \in Sources
    PROVE  /\ GoesOn(w) /\ worker'[w].at = worker[w].at /\ worker'[w].text = worker[w].text
           /\ \/ worker'[w].entries = worker[w].entries
              \/ \E f \in Files :
                   worker'[w].entries =
                     Append(worker[w].entries, [file |-> f, ver |-> disk[JobSource(w)][f].ver])
  <1> DEFINE x == worker[w]
             p == x.next
  <1>1. x \in Working /\ x.at # "idle" /\ p <= NumPaths
    BY BusyWorker DEF Walk, WalkError
  <1>2. p \in 1 .. NumPaths + 1 /\ NumPaths \in Nat /\ p + 1 \in 1 .. NumPaths + 1
        /\ x.entries \in Seq(Entry) /\ x.errs \in 0 .. ErrCap /\ x.bad \subseteq Paths
    BY <1>1, ImportAssumption DEF Working
  <1>3. CASE Walk(w)
    <2> DEFINE yields == p \in Files /\ disk[JobSource(w)][p].there
               new == [file |-> p, ver |-> disk[JobSource(w)][p].ver]
               e == IF yields THEN Append(x.entries, new) ELSE x.entries
               y == [x EXCEPT !.next = p + 1, !.entries = e]
    <2>1. worker' = [worker EXCEPT ![w] = y]
      BY <1>3 DEF Walk
    <2>2. ASSUME p \in Files PROVE new \in Entry
      BY <2>2 DEF TypeOK, Entry
    <2> HIDE DEF new
    <2>3. e \in Seq(Entry)
      <3>1. CASE yields
        BY <1>2, <2>2, <3>1
      <3>2. CASE ~yields
        BY <1>2, <3>2
      <3>3. QED
        BY <3>1, <3>2
    <2>4. e = x.entries \/ (p \in Files /\ e = Append(x.entries, new))
      OBVIOUS
    <2> HIDE DEF e, yields
    <2>5. y \in Working /\ y.job = x.job /\ y.at = x.at /\ y.text = x.text /\ y.entries = e
      BY <1>1, <1>2, <2>3 DEF Working
    <2> HIDE DEF y
    <2>6. GoesOn(w) /\ worker'[w] = y
      BY <1>1, <2>1, <2>5, Proceeds
    <2>7. QED
      BY <2>4, <2>5, <2>6 DEF new
  <1>4. CASE WalkError(w)
    <2>1. PICK next \in (p + 1) .. (IF p \in Files THEN p + 1 ELSE NumPaths + 1) :
             worker' = [worker EXCEPT ![w] = [x EXCEPT !.next = next, !.errs = x.errs + 1,
                                                !.bad = x.bad \union (p .. (next - 1))]]
      BY <1>4 DEF WalkError
    <2> DEFINE bad == x.bad \union (p .. (next - 1))
               y == [x EXCEPT !.next = next, !.errs = x.errs + 1, !.bad = bad]
    <2>2. next \in 1 .. NumPaths + 1 /\ p .. (next - 1) \subseteq 1 .. NumPaths
      BY <1>1, <1>2
    <2>3. bad \in SUBSET Paths /\ x.errs + 1 \in 0 .. ErrCap
      <3>1. x.errs < ErrCap /\ ErrCap \in Nat
        BY <1>4, ImportAssumption DEF WalkError
      <3>2. x.errs + 1 \in 0 .. ErrCap
        BY <1>2, <3>1
      <3>3. bad \in SUBSET Paths
        BY <1>2, <2>2 DEF Paths
      <3>4. QED
        BY <3>2, <3>3
    <2>4. worker' = [worker EXCEPT ![w] = y]
      BY <2>1
    <2> HIDE DEF bad
    <2>5. y \in Working /\ y.job = x.job /\ y.at = x.at /\ y.text = x.text /\ y.entries = x.entries
      BY <1>1, <2>2, <2>3 DEF Working
    <2> HIDE DEF y
    <2>6. QED
      BY <1>1, <2>4, <2>5, Proceeds
  <1>5. QED
    BY <1>3, <1>4

LEMMA ScanErrorDoes ==
    ASSUME TypeOK, NEW w \in Workers, ScanError(w)
    PROVE  /\ GoesOn(w) /\ worker'[w].at = "scan" /\ worker[w].entries # <<>>
           /\ worker'[w].entries = Tail(worker[w].entries)
  <1> DEFINE x == worker[w]
             y == [x EXCEPT !.entries = Tail(x.entries), !.errs = x.errs - 1]
  <1>1. x \in Working /\ worker' = [worker EXCEPT ![w] = y] /\ x.entries # <<>> /\ x.errs > 0
        /\ x.at = "scan"
    BY BusyWorker DEF ScanError
  <1>2. Tail(x.entries) \in Seq(Entry) /\ x.errs - 1 \in 0 .. ErrCap
    BY <1>1, FirstFile, ImportAssumption DEF Working
  <1>3. y \in Working /\ y.job = x.job /\ y.at = "scan" /\ y.entries = Tail(x.entries)
    BY <1>1, <1>2 DEF Working
  <1> HIDE DEF y
  <1>4. QED
    BY <1>1, <1>3, Proceeds

\* An entry is passed over, or its file is read.
LEMMA ClassifyDoes ==
    ASSUME TypeOK, NEW w \in Workers, Classify(w), JobSource(w) \in Sources
    PROVE  /\ GoesOn(w) /\ worker[w].entries # <<>>
           /\ \/ worker'[w].at = "scan" /\ worker'[w].entries = Tail(worker[w].entries)
              \/ LET f == Head(worker[w].entries).file IN
                 /\ worker'[w].at = (IF rows[JobSource(w)][f] = 0 THEN "cleared" ELSE "read")
                 /\ worker'[w].entries = worker[w].entries
                 /\ worker'[w].text \in {0, disk[JobSource(w)][f].ver}
  <1> DEFINE x == worker[w]
             f == Head(x.entries).file
             file == disk[JobSource(w)][f]
             row == rows[JobSource(w)][f]
             seen == x.seen \union {f}
             passed == [x EXCEPT !.seen = seen]
             over == [passed EXCEPT !.entries = Tail(x.entries)]
             a == IF row = 0 THEN "cleared" ELSE "read"
  <1>1. x \in Working /\ x.entries # <<>> /\ x.at = "scan"
    BY BusyWorker DEF Classify
  <1>2. f \in Files /\ Tail(x.entries) \in Seq(Entry) /\ x.entries \in Seq(Entry)
    BY <1>1, FirstFile
  <1>3. seen \in SUBSET Files /\ file.ver \in Versions /\ 0 \in Versions
    <2>1. seen \in SUBSET Files
      BY <1>1, <1>2 DEF Working
    <2>2. file.ver \in Versions
      BY <1>2 DEF TypeOK
    <2>3. QED
      BY <2>1, <2>2, ImportAssumption DEF Versions
  <1>4. /\ passed \in Working /\ passed.job = x.job /\ passed.at = "scan"
        /\ passed.entries = x.entries
    BY <1>1, <1>3 DEF Working
  <1>5. \/ worker' = [worker EXCEPT ![w] = over]
        \/ \E text \in {0, file.ver} :
             worker' = [worker EXCEPT ![w] = [passed EXCEPT !.at = a, !.text = text]]
    <2>1. over = [passed EXCEPT !.entries = Tail(passed.entries)]
      BY <1>4
    <2>2. QED
      BY <2>1 DEF Classify
  <1> HIDE DEF f, row, file, seen, passed
  <1>6. CASE worker' = [worker EXCEPT ![w] = over]
    <2>1. over \in Working /\ over.job = x.job /\ over.at = "scan" /\ over.entries = Tail(x.entries)
      BY <1>2, <1>4 DEF Working
    <2> HIDE DEF over
    <2>2. QED
      BY <1>1, <1>6, <2>1, Proceeds
  <1>7. ASSUME NEW text \in {0, file.ver},
               worker' = [worker EXCEPT ![w] = [passed EXCEPT !.at = a, !.text = text]]
        PROVE  /\ GoesOn(w) /\ worker'[w].at = a /\ worker'[w].entries = x.entries
               /\ worker'[w].text \in {0, file.ver}
    <2> DEFINE y == [passed EXCEPT !.at = a, !.text = text]
    <2>1. a \in {"cleared", "read"} /\ text \in Versions
      BY <1>3
    <2> HIDE DEF a
    <2>2. y \in Working /\ y.job = x.job /\ y.at = a /\ y.entries = x.entries /\ y.text = text
      BY <1>4, <2>1 DEF Working
    <2> HIDE DEF y
    <2>3. worker' = [worker EXCEPT ![w] = y]
      BY <1>7 DEF y
    <2>4. QED
      BY <1>1, <2>2, <2>3, Proceeds
  <1>8. QED
    BY <1>1, <1>5, <1>6, <1>7 DEF f, row, file

-----------------------------------------------------------------------------
(* A step of a worker in the middle of its run.                             *)

LEMMA FileSideNext ==
    ASSUME \A w \in Workers : worker'[w] # IdleWorker => FreshWorker(w)',
           \A s \in Sources, f \in Files : BatchOf(s, f)'
    PROVE  FileSide'
  <1>1. Importing'
    BY DEF Importing, FreshWorker, Fresh, FileOf, VersionOf, FileCleared
  <1>2. OneBatch'
    BY DEF OneBatch, BatchOf, Batch
  <1>3. QED
    BY <1>1, <1>2 DEF FileSide

\* The job of a busy worker.
LEMMA WorkersJob ==
    ASSUME ImportIInv, NEW w \in Workers, worker[w].at # "idle"
    PROVE  /\ worker[w] # IdleWorker /\ worker[w] \in Working
           /\ worker[w].job \in DOMAIN jobs /\ JobSource(w) \in Sources
           /\ FreshWorker(w)
  <1>1. TypeOK /\ WorkersRun /\ FileSide
    BY ImportParts DEF JobSide
  <1>2. worker[w] # IdleWorker /\ worker[w] \in Working
    BY <1>1, BusyWorker
  <1>3. worker[w].job \in DOMAIN jobs
    BY <1>1, <1>2 DEF WorkersRun
  <1>4. jobs[worker[w].job] \in Job
    BY <1>1, <1>3 DEF TypeOK
  <1>5. QED
    BY <1>1, <1>2, <1>3, <1>4, FileSideParts DEF JobSource, Job

LEMMA JobSideKept ==
    ASSUME TypeOK, JobSide, NEW w \in Workers, GoesOn(w),
           UNCHANGED <<source, jobs, req, queue, loose>>
    PROVE  JobSide'
  <1>1. worker[w] # IdleWorker /\ worker'[w] # IdleWorker
    BY DEF GoesOn, Working, IdleWorker
  <1>2. \A v \in Workers : /\ worker'[v] # IdleWorker => worker[v] # IdleWorker
                           /\ worker'[v] # IdleWorker => worker'[v].job = worker[v].job
    BY <1>1 DEF GoesOn
  <1>3. JobsOfSources' /\ WaitingOnce' /\ Listed'
    BY DEF JobSide, JobsOfSources, WaitingOnce, Waiting, Listed
  <1>4. WorkersRun'
    BY <1>2 DEF JobSide, WorkersRun, JobSource
  <1>5. OneWorkerUnlessLoose'
    BY <1>2 DEF JobSide, OneWorkerUnlessLoose, JobSource
  <1>6. QED
    BY <1>3, <1>4, <1>5 DEF JobSide

\* Another worker on the source minds nothing of what a worker does to it.
LEMMA FreshOfLoose ==
    ASSUME NEW x, NEW d, NEW c, NEW r, NEW l, NEW c2, NEW r2, NEW l2, Fresh(x, d, c, r, l, TRUE)
    PROVE  Fresh(x, d, c2, r2, l2, TRUE)
  BY DEF Fresh

LEMMA OwnStep ==
    ASSUME ImportIInv, NEW w \in Workers, GoesOn(w),
           UNCHANGED <<disk, source, jobs, req, queue, crashes, loose, unrecorded>>,
           rows' \in [Sources -> [Files -> Versions]],
           chunks' \in [Sources -> [Files -> Seq(Versions)]],
           vectors' \in [Sources -> SUBSET Files],
           leftover' \in [Sources -> SUBSET Files],
           \A s \in Sources \ {JobSource(w)} :
              rows'[s] = rows[s] /\ chunks'[s] = chunks[s] /\ leftover'[s] = leftover[s],
           Fresh(worker'[w], disk[JobSource(w)], chunks'[JobSource(w)], rows'[JobSource(w)],
                 leftover'[JobSource(w)], JobSource(w) \in loose),
           \A f \in Files :
              Batch(disk[JobSource(w)][f], chunks'[JobSource(w)][f], rows'[JobSource(w)][f],
                    JobSource(w) \notin loose /\ f \notin leftover'[JobSource(w)])
    PROVE  ImportIInv'
  <1>1. TypeOK /\ JobSide /\ FileSide
    BY ImportParts
  <1>2. TypeOK'
    BY <1>1 DEF TypeOK, GoesOn
  <1>3. JobSide'
    BY <1>1, JobSideKept
  <1>4. worker[w].at # "idle" /\ worker[w] # IdleWorker
    BY DEF GoesOn, Working, IdleWorker
  <1>5. ASSUME NEW v \in Workers, worker'[v] # IdleWorker PROVE FreshWorker(v)'
    <2>1. CASE v = w
      <3>1. JobSource(w)' = JobSource(w)
        BY DEF JobSource, GoesOn
      <3>2. QED
        BY <2>1, <3>1 DEF FreshWorker
    <2>2. CASE v # w
      <3>1. worker'[v] = worker[v] /\ JobSource(v)' = JobSource(v) /\ worker[v] # IdleWorker
        BY <1>5, <2>2 DEF GoesOn, JobSource
      <3>2. FreshWorker(v) /\ JobSource(v) \in Sources
        BY <1>1, <3>1, BusyWorker, WorkersJob
      <3>3. CASE JobSource(v) = JobSource(w)
        <4>1. JobSource(v) \in loose
          BY <1>1, <1>4, <2>2, <3>1, <3>3 DEF JobSide, OneWorkerUnlessLoose
        <4>2. Fresh(worker[v], disk[JobSource(v)], chunks[JobSource(v)], rows[JobSource(v)],
                    leftover[JobSource(v)], TRUE)
          BY <3>2, <4>1 DEF FreshWorker
        <4>3. Fresh(worker[v], disk[JobSource(v)], chunks'[JobSource(v)], rows'[JobSource(v)],
                    leftover'[JobSource(v)], TRUE)
          BY <4>2, FreshOfLoose
        <4>4. QED
          BY <3>1, <4>1, <4>3 DEF FreshWorker
      <3>4. CASE JobSource(v) # JobSource(w)
        BY <3>1, <3>2, <3>4 DEF FreshWorker
      <3>5. QED
        BY <3>3, <3>4
    <2>3. QED
      BY <2>1, <2>2
  <1>6. ASSUME NEW s \in Sources, NEW f \in Files PROVE BatchOf(s, f)'
    <2>1. CASE s = JobSource(w)
      BY <2>1 DEF BatchOf, Undisturbed
    <2>2. CASE s # JobSource(w)
      <3>1. BatchOf(s, f)
        BY <1>1, FileSideParts
      <3>2. QED
        BY <2>2, <3>1 DEF BatchOf, Undisturbed
    <2>3. QED
      BY <2>1, <2>2
  <1>7. FileSide'
    BY <1>5, <1>6, FileSideNext
  <1>8. QED
    BY <1>2, <1>3, <1>7 DEF ImportIInv, JobSide, FileSide

\* A step that leaves the database alone needs to look after its worker only.
LEMMA WorkerOnly ==
    ASSUME ImportIInv, NEW w \in Workers, GoesOn(w),
           UNCHANGED <<disk, db, req, queue, crashes, history>>,
           Fresh(worker'[w], disk[JobSource(w)], chunks[JobSource(w)], rows[JobSource(w)],
                 leftover[JobSource(w)], JobSource(w) \in loose)
    PROVE  ImportIInv'
  <1>1. UNCHANGED <<disk, source, jobs, req, queue, crashes, loose, unrecorded, rows, chunks,
                    vectors, leftover>>
    BY DEF db, files, history
  <1>2. TypeOK /\ \A f \in Files : JobSource(w) \in Sources => BatchOf(JobSource(w), f)
    BY ImportParts, FileSideParts
  <1>3. JobSource(w) \in Sources
    BY WorkersJob DEF GoesOn, Working
  <1>4. \A f \in Files : Batch(disk[JobSource(w)][f], chunks[JobSource(w)][f],
            rows[JobSource(w)][f], JobSource(w) \notin loose /\ f \notin leftover[JobSource(w)])
    BY <1>2, <1>3 DEF BatchOf, Undisturbed
  <1>5. /\ rows' \in [Sources -> [Files -> Versions]]
        /\ chunks' \in [Sources -> [Files -> Seq(Versions)]]
        /\ vectors' \in [Sources -> SUBSET Files] /\ leftover' \in [Sources -> SUBSET Files]
    BY <1>1, <1>2 DEF TypeOK
  <1>6. QED
    BY <1>1, <1>4, <1>5, OwnStep


\* Between two entries only the entries matter.
LEMMA FreshTail ==
    ASSUME NEW x \in Working, NEW y, NEW d, NEW c, NEW r, NEW l, NEW u,
           Fresh(x, d, c, r, l, u), x.entries # <<>>,
           y.at \in {"scan", "hung", "prune"}, y.entries = Tail(x.entries)
    PROVE  Fresh(y, d, c, r, l, u)
  <1>1. x.entries \in Seq(Entry)
    BY DEF Working
  <1>2. \A i \in DOMAIN y.entries : i + 1 \in DOMAIN x.entries /\ y.entries[i] = x.entries[i + 1]
    BY <1>1, TailEntries
  <1>3. QED
    BY <1>2 DEF Fresh

LEMMA WalkInv ==
    ASSUME ImportIInv, NEW w \in Workers, Walk(w) \/ WalkError(w)
    PROVE  ImportIInv'
  <1> DEFINE s == JobSource(w)
             x == worker[w]
             y == worker'[w]
  <1>1. TypeOK /\ worker[w].at # "idle"
    BY ImportParts DEF Walk, WalkError
  <1>2. x \in Working /\ s \in Sources /\ FreshWorker(w)
    BY <1>1, WorkersJob
  <1>3. /\ GoesOn(w) /\ y.at = x.at /\ y.text = x.text
        /\ \/ y.entries = x.entries
           \/ \E f \in Files : y.entries = Append(x.entries, [file |-> f, ver |-> disk[s][f].ver])
    BY <1>1, <1>2, WalkDoes
  <1>4. Fresh(x, disk[s], chunks[s], rows[s], leftover[s], s \in loose)
    BY <1>2 DEF FreshWorker
  <1>5. Fresh(y, disk[s], chunks[s], rows[s], leftover[s], s \in loose)
    <2>1. CASE y.entries = x.entries
      BY <1>3, <1>4, <2>1 DEF Fresh
    <2>2. ASSUME NEW f \in Files, y.entries = Append(x.entries, [file |-> f, ver |-> disk[s][f].ver])
          PROVE  Fresh(y, disk[s], chunks[s], rows[s], leftover[s], s \in loose)
      <3> DEFINE new == [file |-> f, ver |-> disk[s][f].ver]
                 e == x.entries
                 n == Len(e)
      <3>1. e \in Seq(Entry) /\ n \in Nat /\ DOMAIN e = 1 .. n
        BY <1>2 DEF Working
      <3>2. BatchOf(s, f) /\ disk[s][f].ver \in Versions
        BY <1>1, <1>2, ImportParts, FileSideParts DEF TypeOK
      <3>3. /\ 1 <= new.ver /\ new.ver <= disk[s][new.file].ver /\ new \in Entry
        BY <3>2, ImportAssumption DEF BatchOf, Batch, Entry, Versions
      <3> HIDE DEF new
      <3>4. /\ DOMAIN y.entries = 1 .. (n + 1)
            /\ \A i \in 1 .. n : y.entries[i] = e[i]
            /\ y.entries[n + 1] = new /\ y.entries # <<>>
            /\ e # <<>> => Head(y.entries) = Head(e)
        BY <2>2, <3>1, <3>3 DEF new
      <3> HIDE DEF n
      <3>5. \A i \in DOMAIN y.entries : i \in DOMAIN e \/ i = n + 1
        BY <3>1, <3>4
      <3>6. \A i \in DOMAIN y.entries : /\ 1 <= y.entries[i].ver
                                        /\ y.entries[i].ver <= disk[s][y.entries[i].file].ver
        BY <1>4, <3>1, <3>3, <3>4, <3>5 DEF Fresh
      <3> HIDE DEF e, s, y
      <3>7. QED
        BY <1>3, <1>4, <3>4, <3>6 DEF Fresh, e
    <2>3. QED
      BY <1>3, <2>1, <2>2
  <1>6. UNCHANGED <<disk, db, req, queue, crashes, history>>
    BY DEF Walk, WalkError
  <1>7. QED
    BY <1>3, <1>5, <1>6, WorkerOnly

LEMMA HangInv ==
    ASSUME ImportIInv, NEW w \in Workers, Hang(w) \/ Answers(w)
    PROVE  ImportIInv'
  <1>1. TypeOK /\ worker[w].at # "idle"
    BY ImportParts DEF Hang, Answers
  <1>2. GoesOn(w) /\ worker'[w].at \in {"scan", "hung"} /\ worker'[w].entries = worker[w].entries
    BY <1>1, Moves DEF Hang, Answers, Places
  <1>3. FreshWorker(w)
    BY <1>1, WorkersJob
  <1>4. QED
    BY <1>2, <1>3, WorkerOnly DEF Fresh, FreshWorker, Hang, Answers

LEMMA ScanErrorInv ==
    ASSUME ImportIInv, NEW w \in Workers, ScanError(w)
    PROVE  ImportIInv'
  <1>1. TypeOK /\ worker[w].at # "idle"
    BY ImportParts DEF ScanError
  <1>2. /\ GoesOn(w) /\ worker'[w].at = "scan" /\ worker[w].entries # <<>>
        /\ worker'[w].entries = Tail(worker[w].entries)
    BY <1>1, ScanErrorDoes
  <1>3. FreshWorker(w) /\ worker[w] \in Working
    BY <1>1, WorkersJob
  <1>4. Fresh(worker'[w], disk[JobSource(w)], chunks[JobSource(w)], rows[JobSource(w)],
              leftover[JobSource(w)], JobSource(w) \in loose)
    BY <1>2, <1>3, FreshTail DEF FreshWorker
  <1>5. QED
    BY <1>2, <1>4, WorkerOnly DEF ScanError

LEMMA ClassifyInv ==
    ASSUME ImportIInv, NEW w \in Workers, Classify(w)
    PROVE  ImportIInv'
  <1> DEFINE s == JobSource(w)
             x == worker[w]
             y == worker'[w]
             f == Head(x.entries).file
  <1>1. TypeOK /\ x.at # "idle"
    BY ImportParts DEF Classify
  <1>2. x \in Working /\ s \in Sources
        /\ Fresh(x, disk[s], chunks[s], rows[s], leftover[s], s \in loose)
    BY <1>1, WorkersJob DEF FreshWorker
  <1>3. /\ GoesOn(w) /\ x.entries # <<>>
        /\ \/ y.at = "scan" /\ y.entries = Tail(x.entries)
           \/ /\ y.at = (IF rows[s][f] = 0 THEN "cleared" ELSE "read")
              /\ y.entries = x.entries
              /\ y.text \in {0, disk[s][f].ver}
    BY <1>1, <1>2, ClassifyDoes
  <1>4. /\ f \in Files /\ Head(x.entries) = x.entries[1] /\ 1 \in DOMAIN x.entries
        /\ Head(x.entries).ver \in Versions
    BY <1>2, <1>3, FirstFile
  <1>5. 1 <= Head(x.entries).ver /\ Head(x.entries).ver <= disk[s][f].ver
    BY <1>2, <1>4 DEF Fresh
  <1>6. disk[s][f].ver \in Nat /\ 0 <= disk[s][f].ver
    <2>1. disk[s][f].ver \in Versions
      BY <1>1, <1>2, <1>4 DEF TypeOK
    <2>2. QED
      BY <2>1, ImportAssumption DEF Versions
  <1>7. rows[s][f] = 0 => chunks[s][f] = <<>>
    BY <1>1, <1>2, <1>4, ImportParts, FileSideParts DEF BatchOf, Batch
  <1>8. Fresh(y, disk[s], chunks[s], rows[s], leftover[s], s \in loose)
    <2>1. CASE y.at = "scan" /\ y.entries = Tail(x.entries)
      BY <1>2, <1>3, <2>1, FreshTail
    <2>2. CASE /\ y.at = (IF rows[s][f] = 0 THEN "cleared" ELSE "read")
               /\ y.entries = x.entries
               /\ y.text \in {0, disk[s][f].ver}
      <3>1. /\ y.text = 0 \/ Head(y.entries).ver <= y.text
            /\ y.text <= disk[s][Head(y.entries).file].ver
        BY <1>5, <1>6, <2>2
      <3>2. y.at = "cleared" => chunks[s][f] = <<>>
        BY <1>7, <2>2
      <3>3. QED
        BY <1>2, <1>3, <2>2, <3>1, <3>2 DEF Fresh
    <2>3. QED
      BY <1>3, <2>1, <2>2
  <1>9. QED
    BY <1>3, <1>8, WorkerOnly DEF Classify

LEMMA ListGoneInv ==
    ASSUME ImportIInv, NEW w \in Workers, ListGone(w)
    PROVE  ImportIInv'
  <1> DEFINE x == worker[w]
  <1>1. TypeOK /\ x.at # "idle"
    BY ImportParts DEF ListGone
  <1>2. x \in Working /\ FreshWorker(w)
    BY <1>1, WorkersJob
  <1>3. PICK gone \in SUBSET Files :
           worker' = [worker EXCEPT ![w] = [x EXCEPT !.at = "prune", !.seen = {}, !.gone = gone]]
    <2>1. {f \in Files \ x.seen : rows[JobSource(w)][f] # 0} \in SUBSET Files /\ {} \in SUBSET Files
      OBVIOUS
    <2>2. QED
      BY <2>1 DEF ListGone
  <1> DEFINE y == [x EXCEPT !.at = "prune", !.seen = {}, !.gone = gone]
  <1>4. y \in Working /\ y.job = x.job /\ y.at = "prune" /\ y.entries = x.entries
    BY <1>2 DEF Working
  <1> HIDE DEF y
  <1>5. GoesOn(w) /\ worker'[w] = y
    BY <1>1, <1>3, <1>4, Proceeds DEF y
  <1>6. QED
    BY <1>2, <1>4, <1>5, WorkerOnly DEF Fresh, FreshWorker, ListGone


\* A table of the database with one file of one source changed.
LEMMA UpdateAt ==
    ASSUME NEW A, NEW g \in [Sources -> [Files -> A]], NEW s \in Sources, NEW f \in Files,
           NEW v \in A
    PROVE  LET h == [g EXCEPT ![s][f] = v] IN
           /\ h \in [Sources -> [Files -> A]]
           /\ h[s][f] = v
           /\ \A k \in Files : k # f => h[s][k] = g[s][k]
           /\ \A t \in Sources : t # s => h[t] = g[t]
  OBVIOUS

\* The same of a set of files.
LEMMA UpdateSet ==
    ASSUME NEW g \in [Sources -> SUBSET Files], NEW s \in Sources, NEW v \in SUBSET Files
    PROVE  LET h == [g EXCEPT ![s] = v] IN
           /\ h \in [Sources -> SUBSET Files] /\ h[s] = v
           /\ \A t \in Sources : t # s => h[t] = g[t]
  OBVIOUS

LEMMA Tables ==
    ASSUME TypeOK
    PROVE  /\ rows \in [Sources -> [Files -> Versions]]
           /\ chunks \in [Sources -> [Files -> Seq(Versions)]]
           /\ vectors \in [Sources -> SUBSET Files]
           /\ leftover \in [Sources -> SUBSET Files]
  BY DEF TypeOK

\* What is known of the file a worker is at.
LEMMA AtFile ==
    ASSUME ImportIInv, NEW w \in Workers,
           worker[w].at \in {"read", "cleared", "stored", "inserted"}
    PROVE  /\ TypeOK /\ worker[w] \in Working /\ JobSource(w) \in Sources
           /\ worker[w].entries # <<>>
           /\ FileOf(w) \in Files /\ VersionOf(w) \in Versions /\ worker[w].text \in Versions
           /\ Fresh(worker[w], disk[JobSource(w)], chunks[JobSource(w)], rows[JobSource(w)],
                    leftover[JobSource(w)], JobSource(w) \in loose)
           /\ 1 <= VersionOf(w)
           /\ worker[w].text = 0 \/ VersionOf(w) <= worker[w].text
           /\ worker[w].text <= disk[JobSource(w)][FileOf(w)].ver
  <1>1. TypeOK /\ worker[w].at # "idle"
    BY ImportParts
  <1>2. worker[w] \in Working /\ JobSource(w) \in Sources /\ FreshWorker(w)
    BY <1>1, WorkersJob
  <1>3. Fresh(worker[w], disk[JobSource(w)], chunks[JobSource(w)], rows[JobSource(w)],
              leftover[JobSource(w)], JobSource(w) \in loose)
    BY <1>2 DEF FreshWorker
  <1>4. worker[w].entries # <<>>
    BY <1>3 DEF Fresh
  <1>5. /\ Head(worker[w].entries).file \in Files /\ Head(worker[w].entries).ver \in Versions
        /\ 1 \in DOMAIN worker[w].entries /\ Head(worker[w].entries) = worker[w].entries[1]
        /\ worker[w].text \in Versions
    BY <1>2, <1>4, FirstFile DEF Working
  <1>6. /\ 1 <= Head(worker[w].entries).ver
        /\ worker[w].text = 0 \/ Head(worker[w].entries).ver <= worker[w].text
        /\ worker[w].text <= disk[JobSource(w)][Head(worker[w].entries).file].ver
    BY <1>3, <1>5 DEF Fresh
  <1>7. QED
    BY <1>1, <1>2, <1>3, <1>4, <1>5, <1>6 DEF FileOf, VersionOf

\* The batches of a source before the step.
LEMMA BatchesNow ==
    ASSUME ImportIInv, NEW s \in Sources
    PROVE  \A f \in Files : Batch(disk[s][f], chunks[s][f], rows[s][f],
                                  s \notin loose /\ f \notin leftover[s])
  BY ImportParts, FileSideParts DEF BatchOf, Undisturbed

LEMMA DeleteOldChunksInv ==
    ASSUME ImportIInv, NEW w \in Workers, DeleteOldChunks(w)
    PROVE  ImportIInv'
  <1> DEFINE s == JobSource(w)
             f == FileOf(w)
             x == worker[w]
             y == worker'[w]
  <1>1. /\ TypeOK /\ s \in Sources /\ f \in Files /\ x.at = "read"
        /\ Fresh(x, disk[s], chunks[s], rows[s], leftover[s], s \in loose)
    BY AtFile DEF DeleteOldChunks
  <1>2. GoesOn(w) /\ y.at = "cleared" /\ y.entries = x.entries /\ y.text = x.text
    BY <1>1, Moves DEF DeleteOldChunks, Places
  <1>3. UNCHANGED <<disk, source, jobs, req, queue, crashes, loose, unrecorded, rows, vectors>>
    BY DEF DeleteOldChunks, history
  <1>4. \A k \in Files : Batch(disk[s][k], chunks[s][k], rows[s][k],
                               s \notin loose /\ k \notin leftover[s])
    BY <1>1, BatchesNow
  <1>5. CASE /\ chunks' = [chunks EXCEPT ![s][f] = <<>>]
             /\ leftover' = [leftover EXCEPT ![s] = leftover[s] \ {f}]
    <2>1. /\ chunks' \in [Sources -> [Files -> Seq(Versions)]] /\ chunks'[s][f] = <<>>
          /\ \A k \in Files : k # f => chunks'[s][k] = chunks[s][k]
          /\ \A t \in Sources : t # s => chunks'[t] = chunks[t]
      <3>1. <<>> \in Seq(Versions)
        OBVIOUS
      <3>2. QED
        BY <1>1, <1>5, <3>1, Tables, UpdateAt
    <2>2. /\ leftover' \in [Sources -> SUBSET Files] /\ leftover'[s] = leftover[s] \ {f}
          /\ \A t \in Sources : t # s => leftover'[t] = leftover[t]
      <3>1. leftover[s] \ {f} \in SUBSET Files
        BY <1>1, Tables
      <3>2. QED
        BY <1>1, <1>5, <3>1, Tables, UpdateSet
    <2>3. Fresh(y, disk[s], chunks'[s], rows'[s], leftover'[s], s \in loose)
      BY <1>1, <1>2, <2>1 DEF Fresh, FileOf
    <2>4. \A k \in Files : Batch(disk[s][k], chunks'[s][k], rows'[s][k],
                                 s \notin loose /\ k \notin leftover'[s])
      BY <1>3, <1>4, <2>1, <2>2 DEF Batch
    <2>5. QED
      BY <1>1, <1>2, <1>3, <2>1, <2>2, <2>3, <2>4, Tables, OwnStep
  <1>6. CASE /\ leftover' = [leftover EXCEPT ![s] =
                               IF chunks[s][f] = <<>> THEN leftover[s] ELSE leftover[s] \union {f}]
             /\ UNCHANGED chunks
    <2> DEFINE new == IF chunks[s][f] = <<>> THEN leftover[s] ELSE leftover[s] \union {f}
    <2>1. new \in SUBSET Files /\ leftover[s] \subseteq new /\ (chunks[s][f] = <<>> \/ f \in new)
      BY <1>1, Tables
    <2>2. leftover' = [leftover EXCEPT ![s] = new]
      BY <1>6
    <2> HIDE DEF new
    <2>3. /\ leftover' \in [Sources -> SUBSET Files] /\ leftover'[s] = new
          /\ \A t \in Sources : t # s => leftover'[t] = leftover[t]
      BY <1>1, <2>1, <2>2, Tables, UpdateSet
    <2>4. Fresh(y, disk[s], chunks'[s], rows'[s], leftover'[s], s \in loose)
      BY <1>1, <1>2, <1>6, <2>1, <2>3 DEF Fresh, FileOf
    <2>5. \A k \in Files : Batch(disk[s][k], chunks'[s][k], rows'[s][k],
                                 s \notin loose /\ k \notin leftover'[s])
      BY <1>3, <1>4, <1>6, <2>1, <2>3 DEF Batch
    <2>6. QED
      BY <1>1, <1>2, <1>3, <1>6, <2>3, <2>4, <2>5, Tables, OwnStep
  <1>7. QED
    BY <1>5, <1>6 DEF DeleteOldChunks

\* A worker that gives its file up.
LEMMA DoneInv ==
    ASSUME ImportIInv, NEW w \in Workers, Done(w),
           worker[w].at \in {"read", "cleared", "stored", "inserted"},
           UNCHANGED <<disk, source, jobs, rows, chunks, leftover, req, queue, crashes, history>>,
           vectors' \in [Sources -> SUBSET Files]
    PROVE  ImportIInv'
  <1> DEFINE s == JobSource(w)
  <1>1. /\ TypeOK /\ s \in Sources /\ worker[w] \in Working /\ worker[w].entries # <<>>
        /\ Fresh(worker[w], disk[s], chunks[s], rows[s], leftover[s], s \in loose)
    BY AtFile
  <1>2. GoesOn(w) /\ worker'[w].at = "scan" /\ worker'[w].entries = Tail(worker[w].entries)
    BY <1>1, DoneDoes
  <1>3. Fresh(worker'[w], disk[s], chunks'[s], rows'[s], leftover'[s], s \in loose)
    <2>1. Fresh(worker'[w], disk[s], chunks[s], rows[s], leftover[s], s \in loose)
      BY <1>1, <1>2, FreshTail
    <2>2. QED
      BY <2>1
  <1>4. \A f \in Files : Batch(disk[s][f], chunks'[s][f], rows'[s][f],
                               s \notin loose /\ f \notin leftover'[s])
    BY <1>1, BatchesNow
  <1>5. /\ rows' \in [Sources -> [Files -> Versions]]
        /\ chunks' \in [Sources -> [Files -> Seq(Versions)]]
        /\ leftover' \in [Sources -> SUBSET Files]
    BY <1>1, Tables
  <1>6. UNCHANGED <<loose, unrecorded>>
    BY DEF history
  <1>7. QED
    BY <1>1, <1>2, <1>3, <1>4, <1>5, <1>6, OwnStep

LEMMA UpsertInv ==
    ASSUME ImportIInv, NEW w \in Workers, Upsert(w)
    PROVE  ImportIInv'
  <1> DEFINE s == JobSource(w)
             f == FileOf(w)
             x == worker[w]
             y == worker'[w]
  <1>1. /\ TypeOK /\ s \in Sources /\ f \in Files /\ x.at = "cleared"
        /\ Fresh(x, disk[s], chunks[s], rows[s], leftover[s], s \in loose)
        /\ VersionOf(w) \in Versions /\ 1 <= VersionOf(w)
    BY AtFile DEF Upsert
  <1>2. CASE Done(w) /\ UNCHANGED rows
    BY <1>1, <1>2, Tables, DoneInv DEF Upsert
  <1>3. CASE /\ rows' = [rows EXCEPT ![s][f] = VersionOf(w)]
             /\ worker' = [worker EXCEPT ![w].at = "stored"]
    <2>1. GoesOn(w) /\ y.at = "stored" /\ y.entries = x.entries /\ y.text = x.text
      BY <1>1, <1>3, Moves DEF Places
    <2>2. /\ rows' \in [Sources -> [Files -> Versions]] /\ rows'[s][f] = VersionOf(w)
          /\ \A k \in Files : k # f => rows'[s][k] = rows[s][k]
          /\ \A t \in Sources : t # s => rows'[t] = rows[t]
      BY <1>1, <1>3, Tables, UpdateAt
    <2>3. UNCHANGED <<disk, source, jobs, req, queue, crashes, loose, unrecorded, chunks,
                      vectors, leftover>>
      BY DEF Upsert, history
    <2>4. Fresh(y, disk[s], chunks'[s], rows'[s], leftover'[s], s \in loose)
      BY <1>1, <2>1, <2>2, <2>3 DEF Fresh, FileOf, VersionOf
    <2>5. ASSUME NEW k \in Files
          PROVE  Batch(disk[s][k], chunks'[s][k], rows'[s][k],
                       s \notin loose /\ k \notin leftover'[s])
      <3>1. Batch(disk[s][k], chunks[s][k], rows[s][k], s \notin loose /\ k \notin leftover[s])
        BY <1>1, BatchesNow
      <3>2. CASE k # f
        BY <2>2, <2>3, <3>1, <3>2
      <3>3. CASE k = f
        <4>1. s \in loose \/ f \in leftover[s] \/ chunks[s][f] = <<>>
          BY <1>1 DEF Fresh, FileOf
        <4>2. VersionOf(w) # 0
          BY <1>1
        <4>3. QED
          BY <2>2, <2>3, <3>1, <3>3, <4>1, <4>2 DEF Batch
      <3>4. QED
        BY <3>2, <3>3
    <2>6. QED
      BY <1>1, <2>1, <2>2, <2>3, <2>4, <2>5, Tables, OwnStep
  <1>4. QED
    BY <1>2, <1>3 DEF Upsert


LEMMA InsertChunksInv ==
    ASSUME ImportIInv, NEW w \in Workers, InsertChunks(w)
    PROVE  ImportIInv'
  <1> DEFINE s == JobSource(w)
             f == FileOf(w)
             x == worker[w]
             y == worker'[w]
  <1>1. /\ TypeOK /\ s \in Sources /\ f \in Files /\ x.at = "stored"
        /\ Fresh(x, disk[s], chunks[s], rows[s], leftover[s], s \in loose)
        /\ x.text \in Versions /\ VersionOf(w) \in Versions
        /\ x.text = 0 \/ VersionOf(w) <= x.text
        /\ x.text <= disk[s][f].ver
    BY AtFile DEF InsertChunks
  <1>2. CASE Done(w) /\ UNCHANGED chunks
    BY <1>1, <1>2, Tables, DoneInv DEF InsertChunks
  <1>3. CASE /\ rows[s][f] # 0 /\ x.text # 0
             /\ chunks' = [chunks EXCEPT ![s][f] = Append(chunks[s][f], x.text)]
             /\ worker' = [worker EXCEPT ![w].at = "inserted"]
    <2> DEFINE c == Append(chunks[s][f], x.text)
    <2>1. GoesOn(w) /\ y.at = "inserted" /\ y.entries = x.entries /\ y.text = x.text
      BY <1>1, <1>3, Moves DEF Places
    <2>2. c \in Seq(Versions)
      <3>1. chunks[s][f] \in Seq(Versions)
        BY <1>1, Tables
      <3>2. QED
        BY <1>1, <3>1
    <2>3. chunks[s][f] = <<>> => c = <<x.text>>
      OBVIOUS
    <2> HIDE DEF c
    <2>4. chunks' = [chunks EXCEPT ![s][f] = c]
      BY <1>3 DEF c
    <2>5. /\ chunks' \in [Sources -> [Files -> Seq(Versions)]] /\ chunks'[s][f] = c
          /\ \A k \in Files : k # f => chunks'[s][k] = chunks[s][k]
          /\ \A t \in Sources : t # s => chunks'[t] = chunks[t]
      BY <1>1, <2>2, <2>4, Tables, UpdateAt
    <2>6. UNCHANGED <<disk, source, jobs, req, queue, crashes, loose, unrecorded, rows,
                      vectors, leftover>>
      BY DEF InsertChunks, history
    <2>7. Fresh(y, disk[s], chunks'[s], rows'[s], leftover'[s], s \in loose)
      BY <1>1, <2>1, <2>6 DEF Fresh
    <2>8. ASSUME NEW k \in Files
          PROVE  Batch(disk[s][k], chunks'[s][k], rows'[s][k],
                       s \notin loose /\ k \notin leftover'[s])
      <3>1. Batch(disk[s][k], chunks[s][k], rows[s][k], s \notin loose /\ k \notin leftover[s])
        BY <1>1, BatchesNow
      <3>2. CASE k # f
        BY <2>5, <2>6, <3>1, <3>2
      <3>3. CASE k = f
        <4>1. ASSUME s \notin loose, f \notin leftover[s]
              PROVE  c = <<x.text>> /\ rows[s][f] <= x.text
          <5>1. chunks[s][f] = <<>> /\ rows[s][f] \in {0, VersionOf(w)}
            BY <1>1, <4>1 DEF Fresh, FileOf, VersionOf
          <5>2. QED
            BY <1>1, <1>3, <2>3, <5>1
        <4>2. QED
          BY <1>1, <1>3, <2>5, <2>6, <3>1, <3>3, <4>1 DEF Batch
      <3>4. QED
        BY <3>2, <3>3
    <2>9. QED
      BY <1>1, <2>1, <2>5, <2>6, <2>7, <2>8, Tables, OwnStep
  <1>4. QED
    BY <1>2, <1>3 DEF InsertChunks

LEMMA EmbedInv ==
    ASSUME ImportIInv, NEW w \in Workers, Embed(w)
    PROVE  ImportIInv'
  <1>1. TypeOK /\ JobSource(w) \in Sources /\ FileOf(w) \in Files
    BY AtFile DEF Embed
  <1>2. vectors' \in [Sources -> SUBSET Files]
    <2>1. CASE UNCHANGED vectors
      BY <1>1, <2>1, Tables
    <2>2. CASE vectors' = [vectors EXCEPT ![JobSource(w)] = vectors[JobSource(w)] \union {FileOf(w)}]
      <3>1. vectors[JobSource(w)] \union {FileOf(w)} \in SUBSET Files
        BY <1>1, Tables
      <3>2. QED
        BY <1>1, <2>2, <3>1, Tables, UpdateSet
    <2>3. QED
      BY <2>1, <2>2 DEF Embed
  <1>3. QED
    BY <1>2, DoneInv DEF Embed

LEMMA PruneInv ==
    ASSUME ImportIInv, NEW w \in Workers, Prune(w)
    PROVE  ImportIInv'
  <1> DEFINE s == JobSource(w)
             x == worker[w]
             y == worker'[w]
  <1>1. TypeOK /\ x.at = "prune"
    BY ImportParts DEF Prune
  <1>2. /\ x \in Working /\ s \in Sources
        /\ Fresh(x, disk[s], chunks[s], rows[s], leftover[s], s \in loose)
    BY <1>1, WorkersJob DEF FreshWorker
  <1>3. PICK f \in x.gone :
           /\ worker' = [worker EXCEPT ![w].gone = x.gone \ {f}]
           /\ \/ /\ chunks' = [chunks EXCEPT ![s][f] = <<>>]
                 /\ leftover' = [leftover EXCEPT ![s] = leftover[s] \ {f}]
                 /\ \E row \in {0, rows[s][f]} : rows' = [rows EXCEPT ![s][f] = row]
              \/ UNCHANGED <<rows, chunks, leftover>>
    BY DEF Prune
  <1>4. f \in Files /\ x.gone \subseteq Files
    BY <1>2 DEF Working
  <1>5. GoesOn(w) /\ y.at = "prune" /\ y.entries = x.entries
    <2> DEFINE z == [x EXCEPT !.gone = x.gone \ {f}]
    <2>1. z \in Working /\ z.job = x.job /\ z.at = x.at /\ z.entries = x.entries
      BY <1>2, <1>4 DEF Working
    <2>2. worker' = [worker EXCEPT ![w] = z]
      BY <1>3
    <2> HIDE DEF z
    <2>3. QED
      BY <1>1, <2>1, <2>2, Proceeds
  <1>6. UNCHANGED <<disk, source, jobs, req, queue, crashes, loose, unrecorded, vectors>>
    BY DEF Prune, history
  <1>7. \A k \in Files : Batch(disk[s][k], chunks[s][k], rows[s][k],
                               s \notin loose /\ k \notin leftover[s])
    BY <1>2, BatchesNow
  <1>8. ASSUME \E row \in {0, rows[s][f]} : rows' = [rows EXCEPT ![s][f] = row],
               chunks' = [chunks EXCEPT ![s][f] = <<>>],
               leftover' = [leftover EXCEPT ![s] = leftover[s] \ {f}]
        PROVE  ImportIInv'
    <2>1. PICK row \in {0, rows[s][f]} : rows' = [rows EXCEPT ![s][f] = row]
      BY <1>8
    <2>2. row \in Versions /\ <<>> \in Seq(Versions) /\ leftover[s] \ {f} \in SUBSET Files
      <3>1. rows[s][f] \in Versions /\ leftover[s] \in SUBSET Files
        BY <1>1, <1>2, <1>4, Tables
      <3>2. QED
        BY <3>1, ImportAssumption DEF Versions
    <2>3. /\ rows' \in [Sources -> [Files -> Versions]]
          /\ \A k \in Files : k # f => rows'[s][k] = rows[s][k]
          /\ \A t \in Sources : t # s => rows'[t] = rows[t]
      BY <1>1, <1>2, <1>4, <2>1, <2>2, Tables, UpdateAt
    <2>4. /\ chunks' \in [Sources -> [Files -> Seq(Versions)]] /\ chunks'[s][f] = <<>>
          /\ \A k \in Files : k # f => chunks'[s][k] = chunks[s][k]
          /\ \A t \in Sources : t # s => chunks'[t] = chunks[t]
      BY <1>1, <1>2, <1>4, <1>8, <2>2, Tables, UpdateAt
    <2>5. /\ leftover' \in [Sources -> SUBSET Files] /\ leftover'[s] = leftover[s] \ {f}
          /\ \A t \in Sources : t # s => leftover'[t] = leftover[t]
      BY <1>1, <1>2, <1>8, <2>2, Tables, UpdateSet
    <2>6. Fresh(y, disk[s], chunks'[s], rows'[s], leftover'[s], s \in loose)
      BY <1>2, <1>5 DEF Fresh
    <2>7. \A k \in Files : Batch(disk[s][k], chunks'[s][k], rows'[s][k],
                                 s \notin loose /\ k \notin leftover'[s])
      BY <1>7, <2>3, <2>4, <2>5 DEF Batch
    <2>8. QED
      BY <1>1, <1>5, <1>6, <2>3, <2>4, <2>5, <2>6, <2>7, Tables, OwnStep
  <1>9. ASSUME UNCHANGED <<rows, chunks, leftover>>
        PROVE  ImportIInv'
    <2>1. Fresh(y, disk[s], chunks[s], rows[s], leftover[s], s \in loose)
      BY <1>2, <1>5 DEF Fresh
    <2>2. UNCHANGED <<disk, db, req, queue, crashes, history>>
      BY <1>9 DEF Prune, db, files, history
    <2>3. QED
      BY <1>5, <2>1, <2>2, WorkerOnly
  <1>10. QED
    BY <1>3, <1>8, <1>9

-----------------------------------------------------------------------------
(* A step that changes the status of jobs.                                  *)

\* The jobs of jobs2 are those of jobs, with other statuses.
LEMMA JobRecord ==
    ASSUME NEW x \in Job, NEW status \in Active \union Ended
    PROVE  LET y == [x EXCEPT !.status = status] IN
           y \in Job /\ y.source = x.source /\ y.status = status
  BY DEF Job

Restated(jobs2) ==
    /\ jobs2 \in Seq(Job) /\ DOMAIN jobs2 = DOMAIN jobs /\ Len(jobs2) = Len(jobs)
    /\ \A k \in DOMAIN jobs : jobs2[k].source = jobs[k].source

\* One job gets another status.
LEMMA StatusChanges ==
    ASSUME TypeOK, NEW j \in DOMAIN jobs, NEW status \in Active \union Ended,
           SetStatus(j, status)
    PROVE  /\ Restated(jobs')
           /\ \A k \in DOMAIN jobs : k # j => jobs'[k] = jobs[k]
           /\ jobs'[j].status = IF jobs[j].status = "deleted" THEN "deleted" ELSE status
  <1> DEFINE st == IF jobs[j].status = "deleted" THEN jobs[j].status ELSE status
             y == [jobs[j] EXCEPT !.status = st]
  <1>1. jobs \in Seq(Job) /\ jobs[j] \in Job
    BY DEF TypeOK
  <1>2. st \in Active \union Ended
    BY <1>1 DEF Ended, Job
  <1>3. jobs' = [jobs EXCEPT ![j] = y]
    BY DEF SetStatus
  <1>4. st = IF jobs[j].status = "deleted" THEN "deleted" ELSE status
    OBVIOUS
  <1> HIDE DEF st
  <1>5. y \in Job /\ y.source = jobs[j].source /\ y.status = st
    BY <1>1, <1>2, JobRecord
  <1> HIDE DEF y
  <1>6. jobs' \in Seq(Job) /\ DOMAIN jobs' = DOMAIN jobs /\ Len(jobs') = Len(jobs)
    BY <1>1, <1>3, <1>5
  <1>7. jobs'[j] = y /\ \A k \in DOMAIN jobs : k # j => jobs'[k] = jobs[k]
    BY <1>1, <1>3
  <1>8. QED
    BY <1>4, <1>5, <1>6, <1>7 DEF Restated

\* Some jobs get another status at once.
LEMMA JobsRewritten ==
    ASSUME TypeOK, NEW P, P \subseteq DOMAIN jobs, NEW status \in Active \union Ended,
           jobs' = [k \in DOMAIN jobs |->
                       IF k \in P THEN [jobs[k] EXCEPT !.status = status] ELSE jobs[k]]
    PROVE  /\ Restated(jobs')
           /\ \A k \in DOMAIN jobs : k \notin P => jobs'[k] = jobs[k]
           /\ \A k \in P : jobs'[k].status = status
  <1>1. jobs \in Seq(Job) /\ Len(jobs) \in Nat /\ DOMAIN jobs = 1 .. Len(jobs)
    BY DEF TypeOK
  <1>2. \A k \in DOMAIN jobs : jobs[k] \in Job
    BY <1>1
  <1>3. DOMAIN jobs' = DOMAIN jobs
    OBVIOUS
  <1>4. ASSUME NEW k \in DOMAIN jobs
        PROVE  /\ jobs'[k] \in Job /\ jobs'[k].source = jobs[k].source
               /\ k \notin P => jobs'[k] = jobs[k]
               /\ k \in P => jobs'[k].status = status
    <2>1. CASE k \in P
      <3>1. jobs'[k] = [jobs[k] EXCEPT !.status = status]
        BY <2>1
      <3>2. QED
        BY <1>2, <2>1, <3>1, JobRecord
    <2>2. CASE k \notin P
      BY <1>2, <2>2
    <2>3. QED
      BY <2>1, <2>2
  <1>5. jobs' = [k \in 1 .. Len(jobs) |-> jobs'[k]] /\ \A k \in 1 .. Len(jobs) : jobs'[k] \in Job
    <2>1. jobs' = [k \in DOMAIN jobs |->
                      IF k \in P THEN [jobs[k] EXCEPT !.status = status] ELSE jobs[k]]
      OBVIOUS
    <2>2. QED
      BY <1>1, <1>4, <2>1
  <1>6. jobs' \in Seq(Job) /\ Len(jobs') = Len(jobs)
    <2>1. jobs' \in [1 .. Len(jobs) -> Job]
      BY <1>5
    <2>2. jobs' \in Seq(Job)
      BY <1>1, <2>1
    <2>3. QED
      BY <1>1, <1>3, <2>2
  <1>7. QED
    BY <1>3, <1>4, <1>6 DEF Restated


\* The files when no worker writes: a worker goes on as it was, begins, or leaves.
LEMMA FilesKept ==
    ASSUME ImportIInv, UNCHANGED <<disk, rows, chunks, leftover>>, loose \subseteq loose',
           \A w \in Workers : worker'[w] # IdleWorker =>
              \/ worker[w] # IdleWorker /\ worker'[w] = worker[w] /\ JobSource(w)' = JobSource(w)
              \/ worker'[w].at = "scan" /\ worker'[w].entries = <<>>
    PROVE  FileSide'
  <1>1. TypeOK /\ FileSide
    BY ImportParts
  <1>2. ASSUME NEW w \in Workers, worker'[w] # IdleWorker PROVE FreshWorker(w)'
    <2>1. CASE worker[w] # IdleWorker /\ worker'[w] = worker[w] /\ JobSource(w)' = JobSource(w)
      <3>1. FreshWorker(w)
        BY <1>1, <2>1, FileSideParts
      <3>2. QED
        BY <2>1, <3>1 DEF FreshWorker, Fresh
    <2>2. CASE worker'[w].at = "scan" /\ worker'[w].entries = <<>>
      BY <2>2 DEF FreshWorker, Fresh
    <2>3. QED
      BY <1>2, <2>1, <2>2
  <1>3. ASSUME NEW s \in Sources, NEW f \in Files PROVE BatchOf(s, f)'
    <2>1. BatchOf(s, f)
      BY <1>1, FileSideParts
    <2>2. Undisturbed(s, f)' => Undisturbed(s, f)
      BY DEF Undisturbed
    <2>3. QED
      BY <2>1, <2>2 DEF BatchOf, Batch
  <1>4. QED
    BY <1>2, <1>3, FileSideNext

\* What the end of a run does to its job.
LEMMA JobEnds ==
    ASSUME TypeOK, NEW j \in DOMAIN jobs, j \in JobIds,
           RunFails(j) \/ (SetStatus(j, "completed") /\ UNCHANGED unrecorded)
    PROVE  /\ Restated(jobs') /\ unrecorded' \subseteq JobIds
           /\ \A k \in DOMAIN jobs : k # j => jobs'[k] = jobs[k]
           /\ \/ jobs'[j] = jobs[j]
              \/ jobs'[j].status = "deleted" /\ jobs[j].status = "deleted"
              \/ jobs'[j].status \in {"failed", "completed"} /\ jobs[j].status # "deleted"
  <1>1. unrecorded \subseteq JobIds
    BY DEF TypeOK
  <1>2. ASSUME NEW status \in {"failed", "completed"}, SetStatus(j, status), UNCHANGED unrecorded
        PROVE  /\ Restated(jobs') /\ unrecorded' \subseteq JobIds
               /\ \A k \in DOMAIN jobs : k # j => jobs'[k] = jobs[k]
               /\ \/ jobs'[j].status = "deleted" /\ jobs[j].status = "deleted"
                  \/ jobs'[j].status \in {"failed", "completed"} /\ jobs[j].status # "deleted"
    <2>1. status \in Active \union Ended
      BY DEF Ended
    <2>2. QED
      BY <1>1, <1>2, <2>1, StatusChanges
  <1>3. CASE UNCHANGED jobs /\ unrecorded' = unrecorded \union {j}
    BY <1>1, <1>3 DEF Restated, TypeOK
  <1>4. QED
    BY <1>2, <1>3 DEF RunFails

LEMMA WorkerLeaves ==
    ASSUME ImportIInv, NEW w \in Workers, worker[w].at # "idle",
           worker' = [worker EXCEPT ![w] = IdleWorker],
           RunFails(worker[w].job) \/ (SetStatus(worker[w].job, "completed") /\ UNCHANGED unrecorded),
           UNCHANGED <<disk, source, files, req, queue, crashes, loose>>
    PROVE  ImportIInv'
  <1> DEFINE j == worker[w].job
  <1>1. TypeOK /\ JobSide /\ worker[w] # IdleWorker /\ worker[w] \in Working
    BY ImportParts, WorkersJob
  <1>2. j \in JobIds /\ j \in DOMAIN jobs /\ jobs[j].status \in {"running", "stale", "deleted"}
    BY <1>1 DEF Working, JobSide, WorkersRun
  <1>3. /\ Restated(jobs') /\ unrecorded' \subseteq JobIds
        /\ \A k \in DOMAIN jobs : k # j => jobs'[k] = jobs[k]
        /\ \/ jobs'[j] = jobs[j]
           \/ jobs'[j].status = "deleted" /\ jobs[j].status = "deleted"
           \/ jobs'[j].status \in {"failed", "completed"} /\ jobs[j].status # "deleted"
    BY <1>1, <1>2, JobEnds
  <1>4. UNCHANGED <<rows, chunks, vectors, leftover>>
    BY DEF files
  <1>5. /\ worker' \in [Workers -> {IdleWorker} \union Working] /\ worker'[w] = IdleWorker
        /\ \A v \in Workers \ {w} : worker'[v] = worker[v]
    BY <1>1, WorkerChanges
  <1>6. TypeOK'
    BY <1>1, <1>3, <1>4, <1>5 DEF TypeOK, Restated
  <1>7. \A v \in Workers : worker'[v] # IdleWorker =>
            /\ v # w /\ worker'[v] = worker[v] /\ worker[v].job # j
            /\ worker[v].job \in DOMAIN jobs
    BY <1>1, <1>5 DEF JobSide, OneWorkerUnlessLoose, WorkersRun
  <1>8. \A v \in Workers : worker'[v] # IdleWorker =>
            /\ jobs'[worker[v].job] = jobs[worker[v].job] /\ JobSource(v)' = JobSource(v)
            /\ worker[v].job \in DOMAIN jobs'
    BY <1>3, <1>7 DEF Restated, JobSource
  <1>9. FileSide'
    BY <1>4, <1>7, <1>8, FilesKept
  <1>10. JobsOfSources'
    BY <1>1, <1>3 DEF JobSide, JobsOfSources, Restated, Active
  <1>11. \A k \in DOMAIN jobs : Waiting(k) => Waiting(k)'
    BY <1>2, <1>3 DEF Waiting, Restated
  <1>12. WaitingOnce'
    BY <1>1, <1>11 DEF JobSide, WaitingOnce, Waiting
  <1>13. Listed'
    BY <1>1, <1>2, <1>3 DEF JobSide, Listed, Restated
  <1>14. WorkersRun'
    BY <1>1, <1>7, <1>8 DEF JobSide, WorkersRun
  <1>15. OneWorkerUnlessLoose'
    BY <1>1, <1>7, <1>8 DEF JobSide, OneWorkerUnlessLoose
  <1>16. QED
    BY <1>6, <1>9, <1>10, <1>12, <1>13, <1>14, <1>15 DEF ImportIInv, FileSide

LEMMA CompleteInv ==
    ASSUME ImportIInv, NEW w \in Workers, Complete(w)
    PROVE  ImportIInv'
  BY WorkerLeaves DEF Complete

LEMMA TimeoutInv ==
    ASSUME ImportIInv, NEW w \in Workers, Timeout(w)
    PROVE  ImportIInv'
  BY WorkerLeaves DEF Timeout

\* The queue without its first job.
LEMMA QueueTail ==
    ASSUME NEW e \in Seq(JobIds), e # <<>>
    PROVE  /\ Tail(e) \in Seq(JobIds) /\ Head(e) \in JobIds /\ Len(Tail(e)) <= Len(e)
           /\ 1 \in DOMAIN e /\ Head(e) = e[1]
           /\ \A i \in DOMAIN Tail(e) : i + 1 \in DOMAIN e /\ Tail(e)[i] = e[i + 1] /\ i + 1 # 1
           /\ \A i, k \in DOMAIN Tail(e) : i + 1 = k + 1 => i = k
  <1>1. Len(e) \in Nat /\ DOMAIN e = 1 .. Len(e) /\ Len(e) # 0
    BY EmptySeq
  <1>2. Tail(e) \in Seq(JobIds) /\ Len(Tail(e)) = Len(e) - 1
        /\ \A i \in 1 .. Len(Tail(e)) : Tail(e)[i] = e[i + 1]
    BY <1>1
  <1>3. DOMAIN Tail(e) = 1 .. Len(Tail(e)) /\ Head(e) = e[1] /\ 1 \in DOMAIN e /\ e[1] \in JobIds
    BY <1>1, <1>2
  <1>4. QED
    BY <1>1, <1>2, <1>3

\* A worker has taken the first job of the queue.
LEMMA Taken ==
    ASSUME ImportIInv, queue # <<>>, queue' = Tail(queue), UNCHANGED <<req, source>>,
           Restated(jobs'),
           \A k \in DOMAIN jobs : k # Head(queue) => jobs'[k] = jobs[k],
           jobs[Head(queue)].status = "deleted" => jobs'[Head(queue)].status = "deleted",
           jobs[Head(queue)].status = "queued" =>
              jobs'[Head(queue)].status \in {"queued", "running", "failed"}
    PROVE  /\ queue' \in Seq(JobIds) /\ Len(queue') <= QueueCap
           /\ JobsOfSources' /\ WaitingOnce' /\ Listed'
  <1> DEFINE j == Head(queue)
  <1>1. TypeOK /\ JobSide
    BY ImportParts
  <1>2. queue \in Seq(JobIds) /\ Len(queue) <= QueueCap
    BY <1>1 DEF TypeOK
  <1>3. /\ queue' \in Seq(JobIds) /\ Len(queue') <= Len(queue)
        /\ 1 \in DOMAIN queue /\ j = queue[1]
        /\ \A i \in DOMAIN queue' : i + 1 \in DOMAIN queue /\ queue'[i] = queue[i + 1] /\ i + 1 # 1
        /\ \A i, k \in DOMAIN queue' : i + 1 = k + 1 => i = k
    BY <1>2, QueueTail
  <1>4. Len(queue') <= QueueCap
    <2>1. Len(queue) \in Nat /\ Len(queue') \in Nat /\ QueueCap \in Nat
      BY <1>2, <1>3, ImportAssumption
    <2>2. QED
      BY <1>2, <1>3, <2>1
  <1>5. j \in DOMAIN jobs /\ jobs[j].status \in {"queued", "deleted"}
    BY <1>1, <1>3 DEF JobSide, WaitingOnce, Waiting
  <1>6. JobsOfSources'
    BY <1>1, <1>5 DEF JobSide, JobsOfSources, Restated, Active
  <1>7. \A k \in DOMAIN jobs : k # j /\ Waiting(k) => Waiting(k)'
    BY DEF Waiting, Restated
  <1>8. \A i \in DOMAIN queue' : queue'[i] # j
    BY <1>1, <1>3 DEF JobSide, WaitingOnce
  <1>9. WaitingOnce'
    <2>1. (\A i \in DOMAIN queue : Waiting(queue[i]))'
      <3>1. ASSUME NEW i \in DOMAIN queue'
            PROVE  queue'[i] \in DOMAIN jobs' /\ jobs'[queue'[i]].status \in {"queued", "deleted"}
        <4>1. queue'[i] # j /\ Waiting(queue[i + 1]) /\ queue'[i] = queue[i + 1]
          BY <1>1, <1>3, <1>8, <3>1 DEF JobSide, WaitingOnce
        <4>2. QED
          BY <1>7, <4>1 DEF Waiting
      <3>2. QED
        BY <3>1 DEF Waiting
    <2>2. \A i, k \in DOMAIN queue' : queue'[i] = queue'[k] => i = k
      BY <1>1, <1>3 DEF JobSide, WaitingOnce
    <2>3. ASSUME NEW q \in Reqs, req[q].at = "created"
          PROVE  /\ Waiting(req[q].job)'
                 /\ \A i \in DOMAIN queue' : queue'[i] # req[q].job
                 /\ \A r \in Reqs \ {q} : req[r].at = "created" => req[r].job # req[q].job
      <3>1. /\ Waiting(req[q].job)
            /\ \A i \in DOMAIN queue : queue[i] # req[q].job
            /\ \A r \in Reqs \ {q} : req[r].at = "created" => req[r].job # req[q].job
        BY <1>1, <2>3 DEF JobSide, WaitingOnce
      <3>2. Waiting(req[q].job)'
        BY <1>3, <1>7, <3>1 DEF Waiting
      <3>3. QED
        BY <1>3, <3>1, <3>2
    <2>4. QED
      BY <2>1, <2>2, <2>3 DEF WaitingOnce
  <1>10. Listed'
    BY <1>1, <1>5 DEF JobSide, Listed, Restated
  <1>11. QED
    BY <1>3, <1>4, <1>6, <1>9, <1>10


\* The workers that do not take part keep their jobs, which nobody else has.
LEMMA TakeFailsInv ==
    ASSUME ImportIInv, NEW w \in Workers, TakeFails(w)
    PROVE  ImportIInv'
  <1> DEFINE j == Head(queue)
  <1>1. TypeOK /\ JobSide /\ queue # <<>> /\ queue' = Tail(queue)
    BY ImportParts DEF TakeFails
  <1>2. j = queue[1] /\ 1 \in DOMAIN queue /\ j \in JobIds
    BY <1>1, QueueTail DEF TypeOK
  <1>3. j \in DOMAIN jobs /\ jobs[j].status \in {"queued", "deleted"}
    BY <1>1, <1>2 DEF JobSide, WaitingOnce, Waiting
  <1>4. /\ Restated(jobs') /\ unrecorded' \subseteq JobIds
        /\ \A k \in DOMAIN jobs : k # j => jobs'[k] = jobs[k]
        /\ jobs[j].status = "deleted" => jobs'[j].status = "deleted"
        /\ jobs[j].status = "queued" => jobs'[j].status \in {"queued", "running", "failed"}
    <2>1. "running" \in Active \union Ended /\ "failed" \in Active \union Ended
      BY DEF Active, Ended
    <2>2. unrecorded \subseteq JobIds
      BY <1>1 DEF TypeOK
    <2>3. CASE RunFails(j)
      <3>1. CASE SetStatus(j, "failed") /\ UNCHANGED unrecorded
        BY <1>1, <1>3, <2>1, <2>2, <3>1, StatusChanges
      <3>2. CASE UNCHANGED jobs /\ unrecorded' = unrecorded \union {j}
        BY <1>1, <1>2, <2>2, <3>2 DEF Restated, TypeOK
      <3>3. QED
        BY <2>3, <3>1, <3>2 DEF RunFails
    <2>4. CASE SetStatus(j, "running") /\ unrecorded' = unrecorded \union {j}
      BY <1>1, <1>2, <1>3, <2>1, <2>2, <2>4, StatusChanges
    <2>5. QED
      BY <2>3, <2>4 DEF TakeFails
  <1>5. UNCHANGED <<disk, source, rows, chunks, vectors, leftover, req, worker, crashes, loose>>
    BY DEF TakeFails, files
  <1>6. /\ queue' \in Seq(JobIds) /\ Len(queue') <= QueueCap
        /\ JobsOfSources' /\ WaitingOnce' /\ Listed'
    BY <1>1, <1>4, <1>5, Taken
  <1>7. TypeOK'
    BY <1>1, <1>4, <1>5, <1>6 DEF TypeOK, Restated
  <1>8. \A v \in Workers : worker[v] # IdleWorker =>
            /\ worker[v].job \in DOMAIN jobs' /\ JobSource(v)' = JobSource(v)
            /\ \/ jobs'[worker[v].job] = jobs[worker[v].job]
               \/ jobs'[worker[v].job].status = "deleted"
    <2>1. ASSUME NEW v \in Workers, worker[v] # IdleWorker
          PROVE  /\ worker[v].job \in DOMAIN jobs' /\ JobSource(v)' = JobSource(v)
                 /\ \/ jobs'[worker[v].job] = jobs[worker[v].job]
                    \/ jobs'[worker[v].job].status = "deleted"
      <3>1. /\ worker[v].job \in DOMAIN jobs
            /\ jobs[worker[v].job].status \in {"running", "stale", "deleted"}
        BY <1>1, <2>1 DEF JobSide, WorkersRun
      <3>2. worker[v].job = j => jobs[j].status = "deleted"
        BY <1>3, <3>1
      <3>3. QED
        BY <1>4, <1>5, <3>1, <3>2 DEF Restated, JobSource
    <2>2. QED
      BY <2>1
  <1>9. FileSide'
    BY <1>5, <1>8, FilesKept
  <1>10. WorkersRun'
    BY <1>1, <1>5, <1>8 DEF JobSide, WorkersRun
  <1>11. OneWorkerUnlessLoose'
    BY <1>1, <1>5, <1>8 DEF JobSide, OneWorkerUnlessLoose
  <1>12. QED
    BY <1>6, <1>7, <1>9, <1>10, <1>11 DEF ImportIInv, FileSide

LEMMA TakeInv ==
    ASSUME ImportIInv, NEW w \in Workers, Take(w)
    PROVE  ImportIInv'
  <1> DEFINE j == Head(queue)
             s == jobs[j].source
             x == [at |-> "scan", job |-> j, next |-> 1, entries |-> <<>>, errs |-> 0,
                   bad |-> {}, seen |-> {}, text |-> 0, gone |-> {}]
  <1>1. TypeOK /\ JobSide /\ queue # <<>> /\ queue' = Tail(queue) /\ worker[w] = IdleWorker
    BY ImportParts DEF Take
  <1>2. j = queue[1] /\ 1 \in DOMAIN queue /\ j \in JobIds
    BY <1>1, QueueTail DEF TypeOK
  <1>3. j \in DOMAIN jobs /\ jobs[j].status = "queued" /\ s \in Sources
    <2>1. j \in DOMAIN jobs /\ jobs[j].status \in {"queued", "deleted"}
      BY <1>1, <1>2 DEF JobSide, WaitingOnce, Waiting
    <2>2. jobs[j].status # "deleted"
      BY <2>1, <1>1 DEF JobSide, JobsOfSources, Take
    <2>3. jobs[j] \in Job
      BY <1>1, <2>1 DEF TypeOK
    <2>4. QED
      BY <2>1, <2>2, <2>3 DEF Job
  <1>4. /\ Restated(jobs') /\ jobs'[j].status = "running"
        /\ \A k \in DOMAIN jobs : k # j => jobs'[k] = jobs[k]
    <2>1. "running" \in Active \union Ended /\ SetStatus(j, "running")
      BY DEF Active, Take
    <2>2. QED
      BY <1>1, <1>3, <2>1, StatusChanges
  <1>5. UNCHANGED <<disk, source, rows, chunks, vectors, leftover, req, crashes, loose, unrecorded>>
    BY DEF Take, files, history
  <1>6. x \in Working
    <2>1. /\ 1 \in 1 .. NumPaths + 1 /\ 0 \in 0 .. ErrCap /\ 0 \in Versions
          /\ <<>> \in Seq(Entry)
      BY ImportAssumption DEF Versions
    <2>2. QED
      BY <1>2, <2>1 DEF Working
  <1>7. worker' = [worker EXCEPT ![w] = x]
    BY DEF Take
  <1>8. x.at = "scan" /\ x.entries = <<>> /\ x.job = j
    OBVIOUS
  <1> HIDE DEF x
  <1>9. /\ worker' \in [Workers -> {IdleWorker} \union Working] /\ worker'[w] = x
        /\ \A v \in Workers \ {w} : worker'[v] = worker[v]
    BY <1>1, <1>6, <1>7, WorkerChanges
  <1>10. /\ queue' \in Seq(JobIds) /\ Len(queue') <= QueueCap
         /\ JobsOfSources' /\ WaitingOnce' /\ Listed'
    BY <1>1, <1>3, <1>4, <1>5, Taken
  <1>11. TypeOK'
    BY <1>1, <1>4, <1>5, <1>9, <1>10 DEF TypeOK, Restated
  <1>12. ASSUME NEW v \in Workers, v # w, worker[v] # IdleWorker
         PROVE  /\ worker'[v] = worker[v]
                /\ worker[v].job # j /\ worker[v].job \in DOMAIN jobs'
                /\ jobs'[worker[v].job] = jobs[worker[v].job]
                /\ JobSource(v)' = JobSource(v)
                /\ JobSource(v) = s => s \in loose
    <2> DEFINE k == worker[v].job
    <2>1. /\ k \in DOMAIN jobs /\ jobs[k].status \in {"running", "stale", "deleted"}
          /\ jobs[k].status = "stale" => JobSource(v) \in loose
      BY <1>1, <1>12 DEF JobSide, WorkersRun
    <2>2. k # j
      BY <1>3, <2>1
    <2>3. JobSource(v) = s => jobs[k].status = "stale"
      <3>1. source[s].there
        BY DEF Take
      <3>2. QED
        BY <1>1, <1>3, <2>1, <2>2, <3>1 DEF JobSide, JobsOfSources, JobSource, Active
    <2>4. QED
      BY <1>4, <1>9, <1>12, <2>1, <2>2, <2>3 DEF Restated, JobSource
  <1>13. JobSource(w)' = s /\ worker'[w].job = j /\ worker'[w].entries = <<>>
         /\ worker'[w].at = "scan"
    BY <1>3, <1>4, <1>8, <1>9 DEF JobSource, Restated
  <1>14. FileSide'
    BY <1>5, <1>9, <1>12, <1>13, FilesKept
  <1>15. WorkersRun'
    BY <1>1, <1>3, <1>4, <1>5, <1>9, <1>12, <1>13 DEF JobSide, WorkersRun, Restated
  <1>16. OneWorkerUnlessLoose'
    <2>1. SUFFICES ASSUME NEW u \in Workers, NEW v \in Workers, u # v,
                          worker'[u] # IdleWorker, worker'[v] # IdleWorker
                   PROVE  /\ worker'[u].job # worker'[v].job
                          /\ JobSource(u)' = JobSource(v)' => JobSource(u)' \in loose
      BY <1>5 DEF OneWorkerUnlessLoose
    <2>2. CASE u = w
      <3>1. worker[v] # IdleWorker /\ v # w
        BY <1>9, <2>1, <2>2
      <3>2. QED
        BY <1>12, <1>13, <2>2, <3>1
    <2>3. CASE v = w
      <3>1. worker[u] # IdleWorker /\ u # w
        BY <1>9, <2>1, <2>3
      <3>2. QED
        BY <1>12, <1>13, <2>3, <3>1
    <2>4. CASE u # w /\ v # w
      <3>1. worker[u] # IdleWorker /\ worker[v] # IdleWorker
        BY <1>9, <2>1, <2>4
      <3>2. /\ worker'[u] = worker[u] /\ JobSource(u)' = JobSource(u)
            /\ worker'[v] = worker[v] /\ JobSource(v)' = JobSource(v)
        BY <1>12, <2>4, <3>1
      <3>3. QED
        BY <1>1, <2>1, <3>1, <3>2 DEF JobSide, OneWorkerUnlessLoose
    <2>5. QED
      BY <2>2, <2>3, <2>4
  <1>17. QED
    BY <1>10, <1>11, <1>14, <1>15, <1>16 DEF ImportIInv, FileSide


-----------------------------------------------------------------------------
(* The handlers.                                                            *)

LEMMA ReqChanges ==
    ASSUME TypeOK, NEW q \in Reqs, NEW x \in {IdleReq} \union Handling,
           req' = [req EXCEPT ![q] = x]
    PROVE  /\ req' \in [Reqs -> {IdleReq} \union Handling]
           /\ req'[q] = x
           /\ \A r \in Reqs \ {q} : req'[r] = req[r]
  BY DEF TypeOK

\* A request in the middle of its handling.
LEMMA Handled ==
    ASSUME TypeOK, NEW q \in Reqs
    PROVE  /\ req[q].at \in {"checked", "created", "deleting"} => req[q].source \in Sources
           /\ req[q].at = "created" => req[q].job \in JobIds
           /\ req[q].at = "deleting" => req[q].running \subseteq JobIds
           /\ IdleReq.at = "idle"
  BY DEF TypeOK, Handling, IdleReq

\* The workers and files when a handler leaves them and the statuses of the jobs alone.
LEMMA WorkersKept ==
    ASSUME ImportIInv, UNCHANGED <<disk, rows, chunks, leftover, worker>>,
           loose \subseteq loose',
           \A k \in DOMAIN jobs : k \in DOMAIN jobs' /\ jobs'[k] = jobs[k]
    PROVE  FileSide' /\ WorkersRun' /\ OneWorkerUnlessLoose'
  <1>1. TypeOK /\ JobSide
    BY ImportParts
  <1>2. \A w \in Workers : worker[w] # IdleWorker =>
           /\ worker[w].job \in DOMAIN jobs' /\ jobs'[worker[w].job] = jobs[worker[w].job]
           /\ JobSource(w)' = JobSource(w)
    BY <1>1 DEF JobSide, WorkersRun, JobSource
  <1>3. FileSide'
    BY <1>2, FilesKept
  <1>4. WorkersRun'
    BY <1>1, <1>2 DEF JobSide, WorkersRun
  <1>5. OneWorkerUnlessLoose'
    BY <1>1, <1>2 DEF JobSide, OneWorkerUnlessLoose
  <1>6. QED
    BY <1>3, <1>4, <1>5

LEMMA ReqOnly ==
    ASSUME ImportIInv, UNCHANGED <<disk, db, queue, worker, crashes, history>>,
           NEW q \in Reqs, NEW x \in {IdleReq} \union Handling,
           req' = [req EXCEPT ![q] = x], x.at # "created",
           x.at = "deleting" => \A j \in x.running :
              j \in DOMAIN jobs /\ jobs[j].source = x.source /\ jobs[j].status # "queued"
    PROVE  ImportIInv'
  <1>1. TypeOK /\ JobSide
    BY ImportParts
  <1>2. UNCHANGED <<disk, source, jobs, queue, worker, crashes, loose, unrecorded, rows, chunks,
                    vectors, leftover>>
    BY DEF db, files, history
  <1>3. /\ req' \in [Reqs -> {IdleReq} \union Handling]
        /\ req'[q] = x /\ \A r \in Reqs \ {q} : req'[r] = req[r]
    BY <1>1, ReqChanges
  <1>4. TypeOK'
    BY <1>1, <1>2, <1>3 DEF TypeOK
  <1>5. JobsOfSources'
    BY <1>1, <1>2 DEF JobSide, JobsOfSources
  <1>6. WaitingOnce'
    BY <1>1, <1>2, <1>3 DEF JobSide, WaitingOnce, Waiting
  <1>7. Listed'
    BY <1>1, <1>2, <1>3 DEF JobSide, Listed
  <1>8. FileSide' /\ WorkersRun' /\ OneWorkerUnlessLoose'
    BY <1>2, WorkersKept
  <1>9. QED
    BY <1>4, <1>5, <1>6, <1>7, <1>8 DEF ImportIInv, FileSide

LEMMA SyncCheckInv ==
    ASSUME ImportIInv, NEW q \in Reqs, NEW s \in Sources, SyncCheck(q, s)
    PROVE  ImportIInv'
  <1> DEFINE x == [at |-> "checked", source |-> s]
  <1>1. x \in {IdleReq} \union Handling /\ x.at = "checked"
    BY DEF Handling
  <1>2. req' = [req EXCEPT ![q] = x]
    BY DEF SyncCheck
  <1> HIDE DEF x
  <1>3. QED
    BY <1>1, <1>2, ReqOnly DEF SyncCheck

LEMMA DeleteSourceInv ==
    ASSUME ImportIInv, NEW q \in Reqs, NEW s \in Sources, DeleteSource(q, s)
    PROVE  ImportIInv'
  <1>1. TypeOK
    BY ImportParts
  <1>2. PICK running \in {{}, {j \in DOMAIN jobs : jobs[j].source = s /\ jobs[j].status = "running"}} :
           req' = [req EXCEPT ![q] = [at |-> "deleting", source |-> s, running |-> running]]
    BY DEF DeleteSource
  <1> DEFINE x == [at |-> "deleting", source |-> s, running |-> running]
  <1>3. \A j \in running : j \in DOMAIN jobs /\ jobs[j].source = s /\ jobs[j].status # "queued"
    OBVIOUS
  <1>4. running \subseteq JobIds
    <2>1. Len(jobs) <= MaxJobs /\ MaxJobs \in Nat /\ Len(jobs) \in Nat /\ DOMAIN jobs = 1 .. Len(jobs)
      BY <1>1, ImportParts, ImportAssumption DEF JobSide, JobsOfSources, TypeOK
    <2>2. DOMAIN jobs \subseteq JobIds
      BY <2>1 DEF JobIds
    <2>3. QED
      BY <1>3, <2>2
  <1>5. x \in {IdleReq} \union Handling /\ x.at = "deleting" /\ x.source = s /\ x.running = running
    BY <1>4 DEF Handling
  <1>6. req' = [req EXCEPT ![q] = x]
    BY <1>2
  <1> HIDE DEF x
  <1>7. QED
    BY <1>3, <1>5, <1>6, ReqOnly DEF DeleteSource

LEMMA CreateInv ==
    ASSUME ImportIInv, NEW q \in Reqs, Create(q)
    PROVE  ImportIInv'
  <1> DEFINE s == req[q].source
             new == [source |-> s, status |-> "queued"]
             n == Len(jobs) + 1
  <1>1. TypeOK /\ JobSide /\ s \in Sources
    BY ImportParts, Handled DEF Create
  <1>2. UNCHANGED <<disk, source, queue, worker, crashes, loose, unrecorded, rows, chunks, vectors,
                    leftover>>
    BY DEF Create, files, history
  <1>3. CASE req' = [req EXCEPT ![q] = IdleReq] /\ UNCHANGED jobs
    <2>1. UNCHANGED <<disk, db, queue, worker, crashes, history>>
      BY <1>3 DEF Create, db
    <2>2. QED
      BY <1>1, <1>3, <2>1, Handled, ReqOnly
  <1>4. CASE /\ Len(jobs) < MaxJobs /\ source[s].there /\ ActiveJobs(s) = {}
             /\ jobs' = Append(jobs, new)
             /\ req' = [req EXCEPT ![q] = [at |-> "created", source |-> s, job |-> n]]
    <2> DEFINE x == [at |-> "created", source |-> s, job |-> n]
    <2>1. jobs \in Seq(Job) /\ Len(jobs) \in Nat /\ DOMAIN jobs = 1 .. Len(jobs) /\ MaxJobs \in Nat
      BY <1>1, ImportAssumption DEF TypeOK
    <2>2. new \in Job /\ new.source = s /\ new.status = "queued"
      BY <1>1 DEF Job, Active
    <2> HIDE DEF new
    <2>3. /\ jobs' \in Seq(Job) /\ Len(jobs') = n /\ DOMAIN jobs' = 1 .. n
          /\ \A k \in DOMAIN jobs : k \in DOMAIN jobs' /\ jobs'[k] = jobs[k]
          /\ jobs'[n] = new /\ n \in DOMAIN jobs' /\ n \notin DOMAIN jobs
          /\ \A k \in DOMAIN jobs' : k \in DOMAIN jobs \/ k = n
      BY <1>4, <2>1, <2>2
    <2>4. n \in JobIds /\ n <= MaxJobs
      BY <1>4, <2>1 DEF JobIds
    <2> HIDE DEF n
    <2>5. x \in {IdleReq} \union Handling /\ x.at = "created" /\ x.job = n
      BY <1>1, <2>4 DEF Handling
    <2>6. req' = [req EXCEPT ![q] = x]
      BY <1>4
    <2> HIDE DEF x
    <2>7. /\ req' \in [Reqs -> {IdleReq} \union Handling]
          /\ req'[q] = x /\ \A r \in Reqs \ {q} : req'[r] = req[r]
      BY <1>1, <2>5, <2>6, ReqChanges
    <2>8. TypeOK'
      BY <1>1, <1>2, <2>3, <2>7 DEF TypeOK
    <2>9. JobsOfSources'
      <3>1. \A k \in DOMAIN jobs : jobs[k].source = s => jobs[k].status \notin Active
        BY <1>4 DEF ActiveJobs
      <3>2. Len(jobs') <= MaxJobs
        BY <2>3, <2>4
      <3>3. \A k \in DOMAIN jobs' : jobs'[k].status = "deleted" <=> ~source'[jobs'[k].source].there
        BY <1>1, <1>2, <1>4, <2>2, <2>3 DEF JobSide, JobsOfSources
      <3>4. \A k, l \in DOMAIN jobs' :
              /\ jobs'[k].source = jobs'[l].source
              /\ jobs'[k].status \in Active /\ jobs'[l].status \in Active
              => k = l
        BY <1>1, <2>2, <2>3, <3>1 DEF JobSide, JobsOfSources
      <3>5. QED
        BY <3>2, <3>3, <3>4 DEF JobsOfSources
    <2>10. \A k : Waiting(k) => k # n
      BY <2>2, <2>3 DEF Waiting
    <2>11. WaitingOnce'
      <3>1. (\A i \in DOMAIN queue : Waiting(queue[i]))'
        BY <1>1, <1>2, <2>3 DEF JobSide, WaitingOnce, Waiting
      <3>2. \A r \in Reqs \ {q} : req'[r].at = "created" =>
              /\ Waiting(req[r].job) /\ req'[r] = req[r]
              /\ \A i \in DOMAIN queue : queue[i] # req[r].job
              /\ \A t \in Reqs \ {r} : req[t].at = "created" => req[t].job # req[r].job
        BY <1>1, <2>7 DEF JobSide, WaitingOnce
      <3>3. \A i \in DOMAIN queue : queue[i] # n
        BY <1>1, <2>10 DEF JobSide, WaitingOnce
      <3>4. (\A r \in Reqs : req[r].at = "created" => Waiting(req[r].job))'
        <4>1. ASSUME NEW r \in Reqs, req'[r].at = "created"
              PROVE  req'[r].job \in DOMAIN jobs' /\ jobs'[req'[r].job].status \in {"queued", "deleted"}
          <5>1. CASE r = q
            BY <2>2, <2>3, <2>5, <2>7, <5>1
          <5>2. CASE r # q
            BY <2>3, <3>2, <4>1, <5>2 DEF Waiting
          <5>3. QED
            BY <5>1, <5>2
        <4>2. QED
          BY <4>1 DEF Waiting
      <3>5. \A r \in Reqs : req'[r].at = "created" =>
              /\ \A i \in DOMAIN queue : queue[i] # req'[r].job
              /\ \A t \in Reqs \ {r} : req'[t].at = "created" => req'[t].job # req'[r].job
        BY <2>5, <2>7, <2>10, <3>2, <3>3
      <3>6. \A i, k \in DOMAIN queue : queue[i] = queue[k] => i = k
        BY <1>1 DEF JobSide, WaitingOnce
      <3>7. QED
        BY <1>2, <3>1, <3>4, <3>5, <3>6 DEF WaitingOnce
    <2>12. Listed'
      BY <1>1, <2>3, <2>5, <2>7 DEF JobSide, Listed
    <2>13. FileSide' /\ WorkersRun' /\ OneWorkerUnlessLoose'
      BY <1>2, <2>3, WorkersKept
    <2>14. QED
      BY <2>8, <2>9, <2>11, <2>12, <2>13 DEF ImportIInv, FileSide
  <1>5. QED
    BY <1>3, <1>4 DEF Create

LEMMA EnqueueInv ==
    ASSUME ImportIInv, NEW q \in Reqs, Enqueue(q)
    PROVE  ImportIInv'
  <1> DEFINE j == req[q].job
  <1>1. TypeOK /\ JobSide /\ j \in JobIds /\ req[q].at = "created"
    BY ImportParts, Handled DEF Enqueue
  <1>2. UNCHANGED <<disk, db, worker, crashes, history>>
    BY DEF Enqueue
  <1>3. req' = [req EXCEPT ![q] = IdleReq] /\ IdleReq.at = "idle"
    BY Handled, <1>1 DEF Enqueue
  <1>4. CASE UNCHANGED queue
    BY <1>2, <1>3, <1>4, ReqOnly
  <1>5. CASE Len(queue) < QueueCap /\ queue' = Append(queue, j)
    <2>1. UNCHANGED <<disk, source, jobs, worker, crashes, loose, unrecorded, rows, chunks,
                      vectors, leftover>>
      BY <1>2 DEF db, files, history
    <2>2. /\ req' \in [Reqs -> {IdleReq} \union Handling]
          /\ req'[q] = IdleReq /\ \A r \in Reqs \ {q} : req'[r] = req[r]
      BY <1>1, <1>3, ReqChanges
    <2>3. queue \in Seq(JobIds) /\ Len(queue) \in Nat /\ DOMAIN queue = 1 .. Len(queue)
          /\ QueueCap \in Nat
      BY <1>1, ImportAssumption DEF TypeOK
    <2> DEFINE n == Len(queue) + 1
    <2>4. /\ queue' \in Seq(JobIds) /\ Len(queue') <= QueueCap
          /\ DOMAIN queue' = 1 .. n /\ queue'[n] = j /\ n \notin DOMAIN queue
          /\ \A i \in DOMAIN queue' : (i \in DOMAIN queue /\ queue'[i] = queue[i]) \/ i = n
      BY <1>1, <1>5, <2>3
    <2> HIDE DEF n
    <2>5. TypeOK'
      BY <1>1, <2>1, <2>2, <2>4 DEF TypeOK
    <2>6. JobsOfSources' /\ Listed'
      BY <1>1, <1>3, <2>1, <2>2 DEF JobSide, JobsOfSources, Listed
    <2>7. /\ Waiting(j) /\ \A i \in DOMAIN queue : queue[i] # j /\ Waiting(queue[i])
          /\ \A i, k \in DOMAIN queue : queue[i] = queue[k] => i = k
          /\ \A r \in Reqs \ {q} : req[r].at = "created" =>
                /\ Waiting(req[r].job) /\ req[r].job # j
                /\ \A i \in DOMAIN queue : queue[i] # req[r].job
                /\ \A t \in Reqs \ {r} : req[t].at = "created" => req[t].job # req[r].job
      BY <1>1 DEF JobSide, WaitingOnce
    <2>8. WaitingOnce'
      <3>1. (\A i \in DOMAIN queue : Waiting(queue[i]))'
        <4>1. \A i \in DOMAIN queue' : queue'[i] \in DOMAIN jobs /\
                 jobs[queue'[i]].status \in {"queued", "deleted"}
          BY <2>4, <2>7 DEF Waiting
        <4>2. QED
          BY <2>1, <4>1 DEF Waiting
      <3>2. \A i, k \in DOMAIN queue' : queue'[i] = queue'[k] => i = k
        BY <2>4, <2>7
      <3>3. \A r \in Reqs : req'[r].at = "created" => r # q /\ req'[r] = req[r]
        BY <1>3, <2>2
      <3>4. (\A r \in Reqs : req[r].at = "created" => Waiting(req[r].job))'
        BY <2>1, <2>7, <3>3 DEF Waiting
      <3>5. \A r \in Reqs : req'[r].at = "created" =>
              /\ \A i \in DOMAIN queue' : queue'[i] # req'[r].job
              /\ \A t \in Reqs \ {r} : req'[t].at = "created" => req'[t].job # req'[r].job
        BY <2>4, <2>7, <3>3
      <3>6. QED
        BY <3>1, <3>2, <3>4, <3>5 DEF WaitingOnce
    <2>9. FileSide' /\ WorkersRun' /\ OneWorkerUnlessLoose'
      BY <2>1, WorkersKept
    <2>10. QED
      BY <2>5, <2>6, <2>8, <2>9 DEF ImportIInv, FileSide
  <1>6. QED
    BY <1>4, <1>5 DEF Enqueue


LEMMA PatchSourceInv ==
    ASSUME ImportIInv, NEW s \in Sources, PatchSource(s)
    PROVE  ImportIInv'
  <1>1. TypeOK /\ JobSide
    BY ImportParts
  <1>2. UNCHANGED <<disk, jobs, req, queue, worker, crashes, loose, unrecorded, rows, chunks,
                    vectors, leftover>>
    BY DEF PatchSource, files, memory, history
  <1>3. /\ source' \in [Sources -> [there : BOOLEAN, enabled : BOOLEAN]]
        /\ \A t \in Sources : source'[t].there = source[t].there
    BY <1>1 DEF PatchSource, TypeOK
  <1>4. TypeOK'
    BY <1>1, <1>2, <1>3 DEF TypeOK
  <1>5. \A j \in DOMAIN jobs : jobs[j].source \in Sources
    <2>1. \A j \in DOMAIN jobs : jobs[j] \in Job
      BY <1>1 DEF TypeOK
    <2>2. QED
      BY <2>1 DEF Job
  <1>6. JobsOfSources'
    BY <1>1, <1>2, <1>3, <1>5 DEF JobSide, JobsOfSources
  <1>7. WaitingOnce' /\ Listed'
    BY <1>1, <1>2 DEF JobSide, WaitingOnce, Waiting, Listed
  <1>8. FileSide' /\ WorkersRun' /\ OneWorkerUnlessLoose'
    BY <1>2, WorkersKept
  <1>9. QED
    BY <1>4, <1>6, <1>7, <1>8 DEF ImportIInv, FileSide

LEMMA MarkStaleInv ==
    ASSUME ImportIInv, NEW q \in Reqs, MarkStale(q)
    PROVE  ImportIInv'
  <1> DEFINE s == req[q].source
             x == [req[q] EXCEPT !.running = {}]
  <1>1. TypeOK /\ JobSide /\ s \in Sources /\ req[q].at = "deleting"
    BY ImportParts, Handled DEF MarkStale
  <1>2. PICK marked \in SUBSET req[q].running :
           /\ jobs' = [j \in DOMAIN jobs |->
                IF j \in marked /\ jobs[j].status # "deleted"
                THEN [jobs[j] EXCEPT !.status = "stale"] ELSE jobs[j]]
           /\ loose' = IF marked = {} THEN loose ELSE loose \union {s}
    BY DEF MarkStale
  <1>3. PICK P : P = {j \in marked : jobs[j].status # "deleted"}
    OBVIOUS
  <1>4. \A j \in marked : j \in DOMAIN jobs /\ jobs[j].source = s /\ jobs[j].status # "queued"
    BY <1>1 DEF JobSide, Listed
  <1>5. P \subseteq DOMAIN jobs /\ \A j \in P : /\ jobs[j].source = s
                                                /\ jobs[j].status \notin {"queued", "deleted"}
    BY <1>3, <1>4
  <1>6. jobs' = [j \in DOMAIN jobs |->
                    IF j \in P THEN [jobs[j] EXCEPT !.status = "stale"] ELSE jobs[j]]
    BY <1>2, <1>3
  <1>7. /\ Restated(jobs') /\ \A j \in DOMAIN jobs : j \notin P => jobs'[j] = jobs[j]
        /\ \A j \in P : jobs'[j].status = "stale"
    BY <1>1, <1>5, <1>6, JobsRewritten DEF Ended
  <1>8. loose \subseteq loose' /\ loose' \subseteq Sources /\ (P # {} => s \in loose')
    BY <1>1, <1>2, <1>3 DEF TypeOK
  <1>9. UNCHANGED <<disk, source, queue, worker, crashes, unrecorded, rows, chunks, vectors,
                    leftover>>
    BY DEF MarkStale, files
  <1>10. x \in Handling /\ x.at = "deleting" /\ x.running = {} /\ x.source = s
    <2>1. req[q] \in [at : {"deleting"}, source : Sources, running : SUBSET JobIds]
      BY <1>1 DEF TypeOK, Handling, IdleReq
    <2>2. /\ x \in [at : {"deleting"}, source : Sources, running : SUBSET JobIds]
          /\ x.at = "deleting" /\ x.running = {} /\ x.source = s
      BY <2>1
    <2>3. QED
      BY <2>2 DEF Handling
  <1>11. req' = [req EXCEPT ![q] = x]
    BY DEF MarkStale
  <1> HIDE DEF x
  <1>12. /\ req' \in [Reqs -> {IdleReq} \union Handling]
         /\ req'[q] = x /\ \A r \in Reqs \ {q} : req'[r] = req[r]
    BY <1>1, <1>10, <1>11, ReqChanges
  <1>13. TypeOK'
    BY <1>1, <1>7, <1>8, <1>9, <1>12 DEF TypeOK, Restated
  <1>14. JobsOfSources'
    BY <1>1, <1>5, <1>7, <1>9 DEF JobSide, JobsOfSources, Restated, Active
  <1>15. \A k : Waiting(k) => Waiting(k)'
    BY <1>5, <1>7 DEF Waiting, Restated
  <1>16. WaitingOnce'
    BY <1>1, <1>9, <1>10, <1>12, <1>15 DEF JobSide, WaitingOnce
  <1>17. Listed'
    BY <1>1, <1>5, <1>7, <1>10, <1>12 DEF JobSide, Listed, Restated
  <1>18. \A w \in Workers : worker[w] # IdleWorker =>
            /\ worker[w].job \in DOMAIN jobs' /\ JobSource(w)' = JobSource(w)
            /\ jobs'[worker[w].job].status \in {"running", "stale", "deleted"}
            /\ jobs'[worker[w].job].status = "stale" => JobSource(w) \in loose'
    <2>1. SUFFICES ASSUME NEW w \in Workers, worker[w] # IdleWorker
                   PROVE  /\ worker[w].job \in DOMAIN jobs' /\ JobSource(w)' = JobSource(w)
                          /\ jobs'[worker[w].job].status \in {"running", "stale", "deleted"}
                          /\ jobs'[worker[w].job].status = "stale" => JobSource(w) \in loose'
      OBVIOUS
    <2>2. /\ worker[w].job \in DOMAIN jobs
          /\ jobs[worker[w].job].status \in {"running", "stale", "deleted"}
          /\ jobs[worker[w].job].status = "stale" => JobSource(w) \in loose
      BY <1>1, <2>1 DEF JobSide, WorkersRun
    <2>3. CASE worker[w].job \in P
      BY <1>5, <1>7, <1>8, <1>9, <2>2, <2>3 DEF Restated, JobSource
    <2>4. CASE worker[w].job \notin P
      BY <1>7, <1>8, <1>9, <2>2, <2>4 DEF Restated, JobSource
    <2>5. QED
      BY <2>3, <2>4
  <1>19. FileSide'
    BY <1>8, <1>9, <1>18, FilesKept
  <1>20. WorkersRun'
    BY <1>9, <1>18 DEF WorkersRun
  <1>21. OneWorkerUnlessLoose'
    BY <1>1, <1>8, <1>9, <1>18 DEF JobSide, OneWorkerUnlessLoose
  <1>22. QED
    BY <1>13, <1>14, <1>16, <1>17, <1>19, <1>20, <1>21 DEF ImportIInv, FileSide

LEMMA DeleteRowInv ==
    ASSUME ImportIInv, NEW q \in Reqs, DeleteRow(q)
    PROVE  ImportIInv'
  <1> DEFINE s == req[q].source
  <1>1. TypeOK /\ JobSide /\ s \in Sources
    BY ImportParts, Handled DEF DeleteRow
  <1>2. UNCHANGED <<disk, vectors, queue, worker, crashes, loose, unrecorded>>
    BY DEF DeleteRow, history
  <1>3. req' = [req EXCEPT ![q] = IdleReq] /\ IdleReq.at = "idle"
    BY <1>1, Handled DEF DeleteRow
  <1>4. CASE UNCHANGED <<source, jobs, rows, chunks, leftover>>
    <2>1. UNCHANGED <<disk, db, queue, worker, crashes, history>>
      BY <1>2, <1>4 DEF db, files, history
    <2>2. QED
      BY <1>3, <2>1, ReqOnly
  <1>5. CASE /\ source' = [source EXCEPT ![s].there = FALSE]
             /\ jobs' = [j \in DOMAIN jobs |->
                  IF jobs[j].source = s THEN [jobs[j] EXCEPT !.status = "deleted"] ELSE jobs[j]]
             /\ rows' = [rows EXCEPT ![s] = [f \in Files |-> 0]]
             /\ chunks' = [chunks EXCEPT ![s] = [f \in Files |-> <<>>]]
             /\ leftover' = [leftover EXCEPT ![s] = {}]
    <2>1. PICK P : P = {j \in DOMAIN jobs : jobs[j].source = s}
      OBVIOUS
    <2>2. jobs' = [j \in DOMAIN jobs |->
                      IF j \in P THEN [jobs[j] EXCEPT !.status = "deleted"] ELSE jobs[j]]
      BY <1>5, <2>1
    <2>3. /\ Restated(jobs') /\ \A j \in DOMAIN jobs : j \notin P => jobs'[j] = jobs[j]
          /\ \A j \in P : jobs'[j].status = "deleted"
      <3>1. P \subseteq DOMAIN jobs /\ "deleted" \in Active \union Ended
        BY <2>1 DEF Ended
      <3>2. QED
        BY <1>1, <2>2, <3>1, JobsRewritten
    <2>4. \A j \in DOMAIN jobs : jobs[j].source \in Sources /\ (j \in P <=> jobs[j].source = s)
      <3>1. \A j \in DOMAIN jobs : jobs[j] \in Job
        BY <1>1 DEF TypeOK
      <3>2. QED
        BY <2>1, <3>1 DEF Job
    <2>5. /\ source' \in [Sources -> [there : BOOLEAN, enabled : BOOLEAN]]
          /\ ~source'[s].there
          /\ \A t \in Sources : t # s => source'[t] = source[t]
      BY <1>1, <1>5 DEF TypeOK
    <2>6. 0 \in Versions /\ <<>> \in Seq(Versions)
      BY ImportAssumption DEF Versions
    <2>7. /\ rows' \in [Sources -> [Files -> Versions]]
          /\ \A f \in Files : rows'[s][f] = 0
          /\ \A t \in Sources : t # s => rows'[t] = rows[t]
      <3>1. [f \in Files |-> 0] \in [Files -> Versions]
        BY <2>6
      <3>2. QED
        BY <1>1, <1>5, <3>1, Tables
    <2>8. /\ chunks' \in [Sources -> [Files -> Seq(Versions)]]
          /\ \A f \in Files : chunks'[s][f] = <<>>
          /\ \A t \in Sources : t # s => chunks'[t] = chunks[t]
      <3>1. [f \in Files |-> <<>>] \in [Files -> Seq(Versions)]
        BY <2>6
      <3>2. QED
        BY <1>1, <1>5, <3>1, Tables
    <2>9. /\ leftover' \in [Sources -> SUBSET Files]
          /\ \A t \in Sources : t # s => leftover'[t] = leftover[t]
      BY <1>1, <1>5, Tables, UpdateSet
    <2>10. /\ req' \in [Reqs -> {IdleReq} \union Handling]
           /\ req'[q] = IdleReq /\ \A r \in Reqs \ {q} : req'[r] = req[r]
      BY <1>1, <1>3, ReqChanges
    <2>11. TypeOK'
      BY <1>1, <1>2, <2>3, <2>5, <2>7, <2>8, <2>9, <2>10 DEF TypeOK, Restated
    <2>12. JobsOfSources'
      BY <1>1, <2>3, <2>4, <2>5 DEF JobSide, JobsOfSources, Restated, Active
    <2>13. \A k : Waiting(k) => Waiting(k)'
      BY <2>3 DEF Waiting, Restated
    <2>14. WaitingOnce'
      BY <1>1, <1>2, <1>3, <2>10, <2>13 DEF JobSide, WaitingOnce
    <2>15. Listed'
      BY <1>1, <1>3, <2>3, <2>10 DEF JobSide, Listed, Restated
    <2>16. \A w \in Workers : worker[w] # IdleWorker =>
              /\ worker[w].job \in DOMAIN jobs' /\ JobSource(w)' = JobSource(w)
              /\ \/ jobs'[worker[w].job] = jobs[worker[w].job]
                 \/ jobs'[worker[w].job].status = "deleted"
      BY <1>1, <1>2, <2>3 DEF JobSide, WorkersRun, JobSource, Restated
    <2>17. WorkersRun'
      BY <1>1, <1>2, <2>16 DEF JobSide, WorkersRun
    <2>18. OneWorkerUnlessLoose'
      BY <1>1, <1>2, <2>16 DEF JobSide, OneWorkerUnlessLoose
    <2>19. ASSUME NEW w \in Workers, worker'[w] # IdleWorker PROVE FreshWorker(w)'
      <3>1. worker[w] # IdleWorker /\ worker'[w] = worker[w] /\ JobSource(w)' = JobSource(w)
        BY <1>2, <2>16, <2>19
      <3>2. /\ worker[w] \in Working /\ JobSource(w) \in Sources
            /\ Fresh(worker[w], disk[JobSource(w)], chunks[JobSource(w)], rows[JobSource(w)],
                     leftover[JobSource(w)], JobSource(w) \in loose)
        BY <1>1, <3>1, BusyWorker, WorkersJob DEF FreshWorker
      <3>3. CASE JobSource(w) # s
        BY <1>2, <2>7, <2>8, <2>9, <3>1, <3>2, <3>3 DEF FreshWorker
      <3>4. CASE JobSource(w) = s
        <4>1. worker[w].at \in {"cleared", "stored"} => Head(worker[w].entries).file \in Files
          BY <3>2, FirstFile DEF Fresh
        <4>2. Fresh(worker[w], disk[s], chunks'[s], rows'[s], leftover'[s], s \in loose)
          BY <2>7, <2>8, <3>2, <3>4, <4>1 DEF Fresh
        <4>3. QED
          BY <1>2, <3>1, <3>4, <4>2 DEF FreshWorker
      <3>5. QED
        BY <3>3, <3>4
    <2>20. ASSUME NEW t \in Sources, NEW f \in Files PROVE BatchOf(t, f)'
      <3>1. BatchOf(t, f)
        BY ImportParts, FileSideParts
      <3>2. CASE t = s
        BY <1>2, <2>8, <3>1, <3>2 DEF BatchOf, Batch
      <3>3. CASE t # s
        BY <1>2, <2>7, <2>8, <2>9, <3>1, <3>3 DEF BatchOf, Undisturbed
      <3>4. QED
        BY <3>2, <3>3
    <2>21. FileSide'
      BY <2>19, <2>20, FileSideNext
    <2>22. QED
      BY <2>11, <2>12, <2>14, <2>15, <2>17, <2>18, <2>21 DEF ImportIInv, FileSide
  <1>6. QED
    BY <1>4, <1>5 DEF DeleteRow


-----------------------------------------------------------------------------
(* The environment.                                                         *)

LEMMA DiskInv ==
    ASSUME ImportIInv, NEW s \in Sources, NEW f \in Files, WriteFile(s, f) \/ RemoveFile(s, f)
    PROVE  ImportIInv'
  <1>1. TypeOK /\ JobSide
    BY ImportParts
  <1>2. UNCHANGED <<source, jobs, req, queue, worker, crashes, loose, unrecorded, rows, chunks,
                    vectors, leftover>>
    BY DEF WriteFile, RemoveFile, db, files, memory, history
  <1>3. \A t \in Sources, g \in Files : disk[t][g].ver \in Nat
    <2>1. \A t \in Sources, g \in Files : disk[t][g].ver \in Versions
      BY <1>1 DEF TypeOK
    <2>2. QED
      BY <2>1, ImportAssumption DEF Versions
  <1>4. PICK new \in [ver : Versions, there : BOOLEAN] :
           disk' = [disk EXCEPT ![s][f] = new] /\ disk[s][f].ver <= new.ver
    <2>1. disk[s][f] \in [ver : Versions, there : BOOLEAN]
      BY <1>1 DEF TypeOK
    <2>2. CASE WriteFile(s, f)
      <3>1. disk[s][f].ver + 1 \in Versions
        BY <2>1, <2>2, ImportAssumption DEF WriteFile, Versions
      <3>2. [ver |-> disk[s][f].ver + 1, there |-> TRUE] \in [ver : Versions, there : BOOLEAN]
        BY <3>1
      <3>3. disk[s][f].ver <= disk[s][f].ver + 1
        BY <1>3
      <3>4. QED
        BY <2>2, <3>2, <3>3 DEF WriteFile
    <2>3. CASE RemoveFile(s, f)
      <3> DEFINE z == [disk[s][f] EXCEPT !.there = FALSE]
      <3>1. z \in [ver : Versions, there : BOOLEAN] /\ z.ver = disk[s][f].ver
        BY <2>1
      <3>2. disk' = [disk EXCEPT ![s][f] = z]
        BY <2>3 DEF RemoveFile
      <3> HIDE DEF z
      <3>3. disk[s][f].ver <= z.ver
        BY <1>3, <3>1
      <3>4. QED
        BY <3>1, <3>2, <3>3
    <2>4. QED
      BY <2>2, <2>3
  <1>5. /\ disk' \in [Sources -> [Files -> [ver : Versions, there : BOOLEAN]]]
        /\ disk'[s][f] = new
        /\ \A g \in Files : g # f => disk'[s][g] = disk[s][g]
        /\ \A t \in Sources : t # s => disk'[t] = disk[t]
    BY <1>1, <1>4, UpdateAt DEF TypeOK
  <1>6. \A t \in Sources, g \in Files :
           disk'[t][g].ver \in Nat /\ disk[t][g].ver <= disk'[t][g].ver
    BY <1>3, <1>4, <1>5, ImportAssumption DEF Versions
  <1>7. TypeOK'
    BY <1>1, <1>2, <1>5 DEF TypeOK
  <1>8. JobSide'
    BY <1>1, <1>2 DEF JobSide, JobsOfSources, WaitingOnce, Waiting, Listed, WorkersRun,
                      OneWorkerUnlessLoose, JobSource
  <1>9. ASSUME NEW w \in Workers, worker'[w] # IdleWorker PROVE FreshWorker(w)'
    <2> DEFINE x == worker[w]
               t == JobSource(w)
    <2>1. /\ x \in Working /\ t \in Sources /\ worker'[w] = x /\ JobSource(w)' = t
          /\ Fresh(x, disk[t], chunks[t], rows[t], leftover[t], t \in loose)
      BY <1>1, <1>2, <1>9, BusyWorker, WorkersJob DEF FreshWorker, JobSource
    <2>2. x.entries \in Seq(Entry) /\ x.text \in Versions
      BY <2>1 DEF Working
    <2>3. \A i \in DOMAIN x.entries : x.entries[i].file \in Files /\ x.entries[i].ver \in Nat
      <3>1. \A i \in DOMAIN x.entries : x.entries[i] \in Entry
        BY <2>2
      <3>2. QED
        BY <3>1, ImportAssumption DEF Entry, Versions
    <2>4. x.text \in Nat
      BY <2>2, ImportAssumption DEF Versions
    <2>5. \A i \in DOMAIN x.entries : /\ 1 <= x.entries[i].ver
                                      /\ x.entries[i].ver <= disk'[t][x.entries[i].file].ver
      <3>1. ASSUME NEW i \in DOMAIN x.entries
            PROVE  1 <= x.entries[i].ver /\ x.entries[i].ver <= disk'[t][x.entries[i].file].ver
        <4>1. 1 <= x.entries[i].ver /\ x.entries[i].ver <= disk[t][x.entries[i].file].ver
          BY <2>1 DEF Fresh
        <4>2. /\ disk[t][x.entries[i].file].ver \in Nat /\ disk'[t][x.entries[i].file].ver \in Nat
              /\ disk[t][x.entries[i].file].ver <= disk'[t][x.entries[i].file].ver
              /\ x.entries[i].ver \in Nat
          BY <1>3, <1>6, <2>1, <2>3
        <4>3. QED
          BY <4>1, <4>2
      <3>2. QED
        BY <3>1
    <2>6. x.at \in {"read", "cleared", "stored", "inserted"} =>
             x.text <= disk'[t][Head(x.entries).file].ver
      <3>1. SUFFICES ASSUME x.at \in {"read", "cleared", "stored", "inserted"}
                     PROVE  x.text <= disk'[t][Head(x.entries).file].ver
        OBVIOUS
      <3>2. x.entries # <<>> /\ x.text <= disk[t][Head(x.entries).file].ver
        BY <2>1, <3>1 DEF Fresh
      <3>3. Head(x.entries).file \in Files
        BY <2>1, <3>2, FirstFile
      <3>4. /\ disk[t][Head(x.entries).file].ver \in Nat
            /\ disk'[t][Head(x.entries).file].ver \in Nat
            /\ disk[t][Head(x.entries).file].ver <= disk'[t][Head(x.entries).file].ver
        BY <1>3, <1>6, <2>1, <3>3
      <3>5. QED
        BY <2>4, <3>2, <3>4
    <2>7. Fresh(x, disk'[t], chunks[t], rows[t], leftover[t], t \in loose)
      BY <2>1, <2>5, <2>6 DEF Fresh
    <2>8. QED
      BY <1>2, <2>1, <2>7 DEF FreshWorker
  <1>10. ASSUME NEW t \in Sources, NEW g \in Files PROVE BatchOf(t, g)'
    <2>1. BatchOf(t, g)
      BY ImportParts, FileSideParts
    <2>2. /\ disk[t][g].ver \in Nat /\ disk'[t][g].ver \in Nat
          /\ disk[t][g].ver <= disk'[t][g].ver
      BY <1>3, <1>6
    <2>3. \A k \in Versions : k <= disk[t][g].ver => k <= disk'[t][g].ver
      BY <2>2, ImportAssumption DEF Versions
    <2>4. 1 <= disk[t][g].ver => 1 <= disk'[t][g].ver
      BY <2>2
    <2>5. QED
      BY <1>2, <2>1, <2>3, <2>4 DEF BatchOf, Batch, Undisturbed
  <1>11. FileSide'
    BY <1>9, <1>10, FileSideNext
  <1>12. QED
    BY <1>7, <1>8, <1>11 DEF ImportIInv, JobSide, FileSide

LEMMA RestartInv ==
    ASSUME ImportIInv, Restart
    PROVE  ImportIInv'
  <1>1. TypeOK /\ JobSide
    BY ImportParts
  <1>2. UNCHANGED <<disk, source, rows, chunks, vectors, leftover, loose>>
    BY DEF Restart, files
  <1>3. PICK P : P = {j \in DOMAIN jobs : jobs[j].status = "running"}
    OBVIOUS
  <1>4. P \subseteq DOMAIN jobs /\ P \subseteq JobIds /\ "stale" \in Active \union Ended
        /\ \A j \in P : jobs[j].status = "running"
    <2>1. Len(jobs) <= MaxJobs /\ MaxJobs \in Nat /\ Len(jobs) \in Nat /\ DOMAIN jobs = 1 .. Len(jobs)
      BY <1>1, ImportAssumption DEF JobSide, JobsOfSources, TypeOK
    <2>2. DOMAIN jobs \subseteq JobIds
      BY <2>1 DEF JobIds
    <2>3. QED
      BY <1>3, <2>2 DEF Ended
  <1>5. /\ Restated(jobs') /\ \A j \in DOMAIN jobs : j \notin P => jobs'[j] = jobs[j]
        /\ \A j \in P : jobs'[j] = jobs[j] \/ jobs'[j].status = "stale"
    <2>1. CASE jobs' = [j \in DOMAIN jobs |->
                  IF jobs[j].status = "running" THEN [jobs[j] EXCEPT !.status = "stale"] ELSE jobs[j]]
      <3>1. jobs' = [j \in DOMAIN jobs |->
                        IF j \in P THEN [jobs[j] EXCEPT !.status = "stale"] ELSE jobs[j]]
        BY <1>3, <2>1
      <3>2. QED
        BY <1>1, <1>4, <3>1, JobsRewritten
    <2>2. CASE UNCHANGED jobs
      BY <1>1, <2>2 DEF Restated, TypeOK
    <2>3. QED
      BY <2>1, <2>2 DEF Restart
  <1>6. unrecorded' \subseteq JobIds
    BY <1>1, <1>3, <1>4 DEF Restart, TypeOK
  <1>7. /\ req' = [q \in Reqs |-> IdleReq] /\ queue' = <<>>
        /\ worker' = [w \in Workers |-> IdleWorker] /\ crashes' \in 0 .. MaxCrashes
    BY <1>1, ImportAssumption DEF Restart, TypeOK
  <1>8. IdleReq.at = "idle" /\ \A q \in Reqs : req'[q] = IdleReq
    BY <1>7 DEF IdleReq
  <1>9. queue' \in Seq(JobIds) /\ Len(queue') <= QueueCap /\ DOMAIN queue' = {}
    BY <1>7, ImportAssumption
  <1>10. TypeOK'
    BY <1>1, <1>2, <1>5, <1>6, <1>7, <1>9 DEF TypeOK, Restated
  <1>11. JobsOfSources'
    BY <1>1, <1>2, <1>4, <1>5 DEF JobSide, JobsOfSources, Restated, Active
  <1>12. WaitingOnce' /\ Listed'
    BY <1>8, <1>9 DEF WaitingOnce, Listed
  <1>13. WorkersRun' /\ OneWorkerUnlessLoose'
    BY <1>7 DEF WorkersRun, OneWorkerUnlessLoose
  <1>14. FileSide'
    BY <1>2, <1>7, FilesKept
  <1>15. QED
    BY <1>10, <1>11, <1>12, <1>13, <1>14 DEF ImportIInv, FileSide

-----------------------------------------------------------------------------
(* The theorems.                                                            *)

LEMMA ImportInit == Init => ImportIInv
  <1> SUFFICES ASSUME Init PROVE ImportIInv
    OBVIOUS
  <1>1. 0 \in Versions /\ 1 \in Versions /\ <<>> \in Seq(Versions) /\ <<>> \in Seq(Job)
        /\ <<>> \in Seq(JobIds) /\ 0 \in 0 .. MaxCrashes
    BY ImportAssumption DEF Versions
  <1>2. Len(jobs) <= MaxJobs /\ Len(queue) <= QueueCap /\ DOMAIN jobs = {} /\ DOMAIN queue = {}
    BY ImportAssumption DEF Init
  <1>3. IdleReq.at = "idle"
    BY DEF IdleReq
  <1>4. TypeOK
    BY <1>1, <1>2 DEF Init, TypeOK
  <1>5. JobsOfSources /\ WaitingOnce /\ Listed
    BY <1>2, <1>3 DEF Init, JobsOfSources, WaitingOnce, Listed
  <1>6. WorkersRun /\ OneWorkerUnlessLoose /\ Importing
    BY DEF Init, WorkersRun, OneWorkerUnlessLoose, Importing
  <1>7. OneBatch
    BY DEF Init, OneBatch
  <1>8. QED
    BY <1>4, <1>5, <1>6, <1>7 DEF ImportIInv

LEMMA ImportStep ==
    ASSUME ImportIInv, [Next]_vars
    PROVE  ImportIInv'
  <1>1. CASE UNCHANGED vars
    <2>1. UNCHANGED <<disk, source, jobs, rows, chunks, vectors, req, queue, worker, crashes,
                      leftover, loose, unrecorded>>
      BY <1>1 DEF vars
    <2>2. TypeOK /\ JobSide
      BY ImportParts
    <2>3. TypeOK'
      BY <2>1, <2>2 DEF TypeOK
    <2>4. JobSide'
      BY <2>1, <2>2 DEF JobSide, JobsOfSources, WaitingOnce, Waiting, Listed, WorkersRun,
                        OneWorkerUnlessLoose, JobSource
    <2>5. FileSide'
      BY <2>1, FilesKept DEF JobSource
    <2>6. QED
      BY <2>3, <2>4, <2>5 DEF ImportIInv, JobSide, FileSide
  <1>2. ASSUME NEW q \in Reqs, NEW s \in Sources, SyncCheck(q, s) \/ DeleteSource(q, s)
        PROVE  ImportIInv'
    BY <1>2, SyncCheckInv, DeleteSourceInv
  <1>3. ASSUME NEW q \in Reqs, Create(q) \/ Enqueue(q) \/ MarkStale(q) \/ DeleteRow(q)
        PROVE  ImportIInv'
    BY <1>3, CreateInv, EnqueueInv, MarkStaleInv, DeleteRowInv
  <1>4. ASSUME NEW s \in Sources, PatchSource(s) PROVE ImportIInv'
    BY <1>4, PatchSourceInv
  <1>5. ASSUME NEW w \in Workers, WorkerStep(w) PROVE ImportIInv'
    <2>1. CASE Take(w) \/ TakeFails(w) \/ Walk(w) \/ WalkError(w) \/ Hang(w) \/ Answers(w)
      BY <2>1, TakeInv, TakeFailsInv, WalkInv, HangInv
    <2>2. CASE ScanError(w) \/ Classify(w) \/ DeleteOldChunks(w) \/ Upsert(w)
      BY <2>2, ScanErrorInv, ClassifyInv, DeleteOldChunksInv, UpsertInv
    <2>3. CASE InsertChunks(w) \/ Embed(w) \/ ListGone(w) \/ Prune(w) \/ Complete(w) \/ Timeout(w)
      BY <2>3, InsertChunksInv, EmbedInv, ListGoneInv, PruneInv, CompleteInv, TimeoutInv
    <2>4. QED
      BY <1>5, <2>1, <2>2, <2>3 DEF WorkerStep
  <1>6. ASSUME NEW s \in Sources, NEW f \in Files, WriteFile(s, f) \/ RemoveFile(s, f)
        PROVE  ImportIInv'
    BY <1>6, DiskInv
  <1>7. CASE Restart
    BY <1>7, RestartInv
  <1>8. QED
    BY <1>1, <1>2, <1>3, <1>4, <1>5, <1>6, <1>7 DEF Next

\* Whatever statement of the database fails, and however requests, workers, writes to the
\* folders and restarts interleave: jobs, requests, queue and workers fit together, no
\* version a run has seen is newer than the file, and what is stored for a file is a
\* whole batch beside its row.
THEOREM ImportSafety == Spec => []ImportIInv
  <1>1. Init => ImportIInv
    BY ImportInit
  <1>2. ImportIInv /\ [Next]_vars => ImportIInv'
    BY ImportStep
  <1>3. QED
    BY <1>1, <1>2, PTL DEF Spec

\* A source has one active job at most (uq_import_jobs_active), a file without a row has no
\* chunks, and a file whose old chunks were deleted each time has one batch at most, unless
\* a deletion of its source had marked a job stale.
THEOREM ImportInvAlways == Spec => []ImportInv
  <1>1. ImportIInv => ImportInv
    <2> SUFFICES ASSUME ImportIInv PROVE ImportInv
      OBVIOUS
    <2>1. TypeOK /\ JobSide /\ OneBatch
      BY ImportParts DEF FileSide
    <2>2. ASSUME NEW s \in Sources PROVE Cardinality(ActiveJobs(s)) <= 1
      <3>1. \A j, k \in ActiveJobs(s) : j = k
        BY <2>1 DEF JobSide, JobsOfSources, ActiveJobs
      <3>2. CASE ActiveJobs(s) = {}
        <4>1. Cardinality(ActiveJobs(s)) = 0
          BY <3>2, FS_EmptySet
        <4>2. QED
          BY <4>1
      <3>3. CASE ActiveJobs(s) # {}
        <4>1. PICK j : j \in ActiveJobs(s)
          BY <3>3
        <4>2. ActiveJobs(s) = {j}
          BY <3>1, <4>1
        <4>3. Cardinality({j}) = 1
          BY FS_Singleton
        <4>4. QED
          BY <4>2, <4>3
      <3>4. QED
        BY <3>2, <3>3
    <2>3. ASSUME NEW s \in Sources, NEW f \in Files
          PROVE  /\ rows[s][f] = 0 => chunks[s][f] = <<>>
                 /\ Undisturbed(s, f) => Len(chunks[s][f]) <= 1
      <3>1. rows[s][f] = 0 => chunks[s][f] = <<>>
        BY <2>1 DEF OneBatch
      <3>2. ASSUME Undisturbed(s, f) PROVE Len(chunks[s][f]) <= 1
        <4>1. CASE chunks[s][f] = <<>>
          BY <4>1
        <4>2. CASE chunks[s][f] # <<>>
          <5>1. PICK t : chunks[s][f] = <<t>>
            BY <2>1, <3>2, <4>2 DEF OneBatch
          <5>2. QED
            BY <5>1
        <4>3. QED
          BY <4>1, <4>2
      <3>3. QED
        BY <3>1, <3>2
    <2>4. QED
      BY <2>1, <2>2, <2>3 DEF ImportInv
  <1>2. QED
    BY <1>1, ImportSafety, PTL

\* A change is never overlooked: chunks beside a row that has the version on disk are the
\* one batch of that version, however the file was written while it was read.
THEOREM StaleIsDetectedAlways == Spec => []StaleIsDetected
  <1>1. ImportIInv => StaleIsDetected
    <2> SUFFICES ASSUME ImportIInv PROVE StaleIsDetected
      OBVIOUS
    <2>1. TypeOK /\ OneBatch
      BY ImportParts DEF FileSide
    <2>2. ASSUME NEW s \in Sources, NEW f \in Files, Undisturbed(s, f),
                 rows[s][f] = disk[s][f].ver, chunks[s][f] # <<>>
          PROVE  chunks[s][f] = <<disk[s][f].ver>>
      <3>1. PICK t \in Versions :
               chunks[s][f] = <<t>> /\ rows[s][f] <= t /\ t <= disk[s][f].ver
        BY <2>1, <2>2 DEF OneBatch
      <3>2. disk[s][f].ver \in Nat /\ t \in Nat
        BY <2>1, ImportAssumption DEF TypeOK, Versions
      <3>3. t = disk[s][f].ver
        BY <2>2, <3>1, <3>2
      <3>4. QED
        BY <3>1, <3>3
    <2>3. QED
      BY <2>2 DEF StaleIsDetected
  <1>2. QED
    BY <1>1, ImportSafety, PTL

\* Two workers never have the same job, and are on one source only when a deletion of the
\* source has marked a job of it stale.
THEOREM OneWorkerUnlessLooseAlways == Spec => []OneWorkerUnlessLoose
  <1>1. ImportIInv => OneWorkerUnlessLoose
    BY DEF ImportIInv
  <1>2. QED
    BY <1>1, ImportSafety, PTL

=============================================================================
