------------------------ MODULE BackgroundJobsProofs ------------------------
(***************************************************************************)
(* Proofs about BackgroundJobs, for every set of requests, devices and      *)
(* metadata, every chunk size, number of attempts and bound.                *)
(***************************************************************************)
EXTENDS BackgroundJobs, TLAPS

Stages == {"none", "putting", "stored", "queueing", "answered", "stuck", "cut"}
JobStages == {"none", "adding", "waiting", "active", "done", "failed"}
Job == [at: JobStages, failures: 0..MaxAttempts]

\* A job that has not failed for good has attempts left.
AttemptsLeft == \A i \in Requests : job[i].at # "failed" => job[i].failures < MaxAttempts

\* Actions on uploads and actions on pushes, whatever they do with the queue.
MediaStep(i) ==
    \/ Upload(i) \/ PutStores(i) \/ PutFails(i)
    \/ \E k \in Keys : Insert(i, k) \/ ReplaceMeta(i, k)
    \/ ReadMedia(i) \/ WriteMedia(i) \/ MediaFails(i) \/ FinishMedia(i)

PushStep(i) ==
    AskPush(i) \/ StartPush(i) \/ SendChunk(i) \/ SendFails(i) \/ FinishPush(i)

SettingStep ==
    \/ \E d \in Devices : Register(d) \/ Unregister({d})
    \/ Unregister(Devices)
    \/ \E b \in BOOLEAN : SetMute(b)

LEMMA NextCases ==
    ASSUME [Next]_vars
    PROVE  \/ \E i \in Uploads : MediaStep(i)
           \/ \E i \in Pushes : PushStep(i)
           \/ SettingStep
           \/ \E i \in Requests : AddSettles(i) \/ ApiCrash(i)
           \/ MediaWorkerCrash \/ PushWorkerCrash
           \/ UNCHANGED vars
BY DEF Next, Media, Push, Queue, MediaStep, PushStep, SettingStep

-----------------------------------------------------------------------------
(* Types.                                                                  *)

LEMMA FailedType ==
    ASSUME NEW j \in Job, j.failures < MaxAttempts
    PROVE  /\ Failed(j) \in Job
           /\ Failed(j).at \in {"waiting", "failed"}
           /\ Failed(j).failures = j.failures + 1
           /\ Failed(j).at # "failed" => Failed(j).failures < MaxAttempts
BY QueueAssumption DEF Failed, Exhausted, Job, JobStages

LEMMA NewJobType == NewJob \in Job /\ NoJob \in Job /\ 0 < MaxAttempts
BY QueueAssumption DEF NewJob, NoJob, Job, JobStages

\* A job moved to another stage keeps its count of failures.
LEMMA MovedType ==
    ASSUME NEW i \in Requests, NEW a \in JobStages, job \in [Requests -> Job]
    PROVE  LET new == [job EXCEPT ![i].at = a] IN
           /\ new \in [Requests -> Job]
           /\ \A j \in Requests : new[j].failures = job[j].failures
           /\ new[i].at = a
           /\ \A j \in Requests \ {i} : new[j] = job[j]
<1>1. job[i] \in Job
  OBVIOUS
<1>2. [job[i] EXCEPT !.at = a] = [at |-> a, failures |-> job[i].failures]
  BY <1>1 DEF Job
<1>3. [job EXCEPT ![i].at = a] = [job EXCEPT ![i] = [at |-> a, failures |-> job[i].failures]]
  BY <1>2
<1>4. [at |-> a, failures |-> job[i].failures] \in Job
  BY <1>1 DEF Job
<1> QED BY <1>3, <1>4

LEMMA MovedLeavesAttempts ==
    ASSUME AttemptsLeft, job \in [Requests -> Job], NEW i \in Requests, job[i].at # "failed",
           NEW a \in JobStages, job' = [job EXCEPT ![i].at = a]
    PROVE  job' \in [Requests -> Job] /\ AttemptsLeft'
BY MovedType DEF AttemptsLeft

LEMMA ReceivedType ==
    ASSUME TypeOK, NEW i \in Pushes, NEW c
    PROVE  /\ Received(i, c) \in [Pushes -> [Devices -> Nat]]
           /\ \A p \in Pushes, d \in Devices :
                  Received(i, c)[p][d] = IF p = i /\ d \in c THEN pushed[p][d] + 1 ELSE pushed[p][d]
<1>1. pushed \in [Pushes -> [Devices -> Nat]]
  BY DEF TypeOK
<1>2. [d \in Devices |-> IF d \in c THEN pushed[i][d] + 1 ELSE pushed[i][d]] \in [Devices -> Nat]
  BY <1>1
<1>3. Received(i, c) = [pushed EXCEPT ![i] = [d \in Devices |->
                            IF d \in c THEN pushed[i][d] + 1 ELSE pushed[i][d]]]
  BY DEF Received
<1> QED BY <1>1, <1>2, <1>3

TypeInv == TypeOK /\ AttemptsLeft

LEMMA JobTyped ==
    ASSUME TypeOK
    PROVE  job \in [Requests -> Job] /\ request \in [Requests -> Stages]
BY DEF TypeOK, Job, JobStages, Stages

LEMMA MediaTypes ==
    ASSUME TypeInv, NEW i \in Uploads, MediaStep(i)
    PROVE  TypeInv'
<1> USE DEF TypeInv, TypeOK
<1>0. i \in Requests /\ job[i] \in Job
  BY JobTyped DEF Requests
<1>1. CASE Upload(i)
  BY <1>1 DEF Upload, media, push, AttemptsLeft
<1>2. CASE PutStores(i) \/ PutFails(i)
  BY <1>2 DEF PutStores, PutFails, push, AttemptsLeft
<1>3. ASSUME NEW k \in Keys, Insert(i, k) PROVE TypeInv'
  <2>1. job' \in [Requests -> Job] /\ AttemptsLeft'
    BY <1>3, <1>0, JobTyped, NewJobType DEF Insert, AttemptsLeft, NewJob
  <2>2. [keys |-> k, storage |-> TRUE] \in Meta
    BY DEF Meta
  <2> QED BY <1>3, <2>1, <2>2 DEF Insert, push, Job, JobStages
<1>4. ASSUME NEW k \in Keys, ReplaceMeta(i, k) PROVE TypeInv'
  <2>1. [keys |-> k, storage |-> FALSE] \in Meta
    BY DEF Meta
  <2> QED BY <1>4, <2>1, BoundAssumption DEF ReplaceMeta, push, AttemptsLeft
<1>5. CASE ReadMedia(i) \/ FinishMedia(i)
  <2>1. PICK a \in {"done", "active"} : job' = [job EXCEPT ![i].at = a]
    BY <1>5 DEF ReadMedia, FinishMedia
  <2>2. job[i].at # "failed" /\ a \in JobStages
    BY <1>5 DEF ReadMedia, FinishMedia, Active, JobStages
  <2>3. job' \in [Requests -> Job] /\ AttemptsLeft'
    BY <1>0, <2>1, <2>2, JobTyped, MovedLeavesAttempts
  <2> QED BY <1>5, <2>3 DEF ReadMedia, FinishMedia, media, push, Job, JobStages
<1>6. CASE WriteMedia(i)
  <2>1. Previewed(read[i]) \in Meta
    BY <1>6 DEF WriteMedia, Previewed, Meta
  <2> QED BY <1>6, <2>1 DEF WriteMedia, push, AttemptsLeft
<1>7. CASE MediaFails(i)
  <2>1. job[i].failures < MaxAttempts
    BY <1>7, <1>0 DEF MediaFails, Active, AttemptsLeft
  <2>2. job' \in [Requests -> Job] /\ AttemptsLeft'
    BY <1>7, <1>0, <2>1, JobTyped, FailedType DEF MediaFails, AttemptsLeft
  <2> QED BY <1>7, <2>2 DEF MediaFails, push, Job, JobStages
<1> QED BY <1>1, <1>2, <1>3, <1>4, <1>5, <1>6, <1>7 DEF MediaStep

LEMMA PushTypes ==
    ASSUME TypeInv, NEW i \in Pushes, PushStep(i)
    PROVE  TypeInv'
<1> USE DEF TypeInv, TypeOK
<1>0. i \in Requests /\ job[i] \in Job
  BY JobTyped DEF Requests
<1>1. CASE AskPush(i)
  <2>1. job' \in [Requests -> Job] /\ AttemptsLeft'
    BY <1>1, <1>0, JobTyped, NewJobType DEF AskPush, AttemptsLeft, NewJob
  <2>2. steady' \in [Pushes -> SUBSET Devices]
    BY <1>1 DEF AskPush
  <2> QED BY <1>1, <2>1, <2>2 DEF AskPush, media, Job, JobStages
<1>2. CASE StartPush(i) \/ FinishPush(i)
  <2>1. PICK a \in {"done", "active"} : job' = [job EXCEPT ![i].at = a]
    BY <1>2 DEF StartPush, FinishPush
  <2>2. job[i].at # "failed" /\ a \in JobStages
    BY <1>2 DEF StartPush, FinishPush, Active, JobStages
  <2>3. job' \in [Requests -> Job] /\ AttemptsLeft'
    BY <1>0, <2>1, <2>2, JobTyped, MovedLeavesAttempts
  <2>4. left' \in [Pushes -> SUBSET Devices] /\ withdrawn' \in [Pushes -> SUBSET Devices]
    <3>1. CASE StartPush(i)
      <4>1. Sendable(tokens) \subseteq Devices
        BY DEF Sendable
      <4> QED BY <3>1, <4>1 DEF StartPush
    <3>2. CASE FinishPush(i)
      BY <3>2 DEF FinishPush, push
    <3> QED BY <1>2, <3>1, <3>2
  <2>5. CASE StartPush(i)
    BY <2>5, <2>3, <2>4 DEF StartPush, media, Job, JobStages
  <2>6. CASE FinishPush(i)
    BY <2>6, <2>3 DEF FinishPush, media, push, Job, JobStages
  <2> QED BY <1>2, <2>5, <2>6
<1>3. CASE SendChunk(i)
  <2>1. PICK c \in Chunks(left[i]) : /\ pushed' = Received(i, c)
                                     /\ left' = [left EXCEPT ![i] = @ \ c]
    BY <1>3 DEF SendChunk
  <2>2. pushed' \in [Pushes -> [Devices -> Nat]] /\ left' \in [Pushes -> SUBSET Devices]
    BY <2>1, ReceivedType
  <2> QED BY <1>3, <2>2 DEF SendChunk, media, AttemptsLeft
<1>4. CASE SendFails(i)
  <2>1. PICK c \in Chunks(left[i]) \cup {{}} : pushed' = Received(i, c)
    BY <1>4 DEF SendFails
  <2>2. pushed' \in [Pushes -> [Devices -> Nat]]
    BY <2>1, ReceivedType
  <2>3. left' \in [Pushes -> SUBSET Devices]
    BY <1>4 DEF SendFails
  <2>4. job[i].failures < MaxAttempts
    BY <1>4, <1>0 DEF SendFails, Active, AttemptsLeft
  <2>5. job' \in [Requests -> Job] /\ AttemptsLeft'
    BY <1>4, <1>0, <2>4, JobTyped, FailedType DEF SendFails, AttemptsLeft
  <2> QED BY <1>4, <2>2, <2>3, <2>5 DEF SendFails, media, Job, JobStages
<1> QED BY <1>1, <1>2, <1>3, <1>4 DEF PushStep

LEMMA OtherTypes ==
    ASSUME TypeInv, \/ SettingStep
                    \/ \E i \in Requests : AddSettles(i) \/ ApiCrash(i)
                    \/ MediaWorkerCrash \/ PushWorkerCrash \/ UNCHANGED vars
    PROVE  TypeInv'
<1> USE DEF TypeInv, TypeOK
<1>1. ASSUME NEW ds \in SUBSET Devices, Unregister(ds) PROVE TypeInv'
  BY <1>1, BoundAssumption DEF Unregister, Withdraw, media, AttemptsLeft
<1>2. ASSUME NEW d \in Devices, Register(d) PROVE TypeInv'
  BY <1>2, BoundAssumption DEF Register, media, AttemptsLeft
<1>3. ASSUME NEW b \in BOOLEAN, SetMute(b) PROVE TypeInv'
  <2>1. {withdrawn', steady'} \subseteq [Pushes -> SUBSET Devices]
    BY <1>3 DEF SetMute, Withdraw
  <2> QED BY <1>3, <2>1, BoundAssumption DEF SetMute, media, AttemptsLeft
<1>4. ASSUME NEW i \in Requests, AddSettles(i) PROVE TypeInv'
  <2>1. PICK result \in {"added", "disabled", "refused"} :
            /\ job' = [job EXCEPT ![i].at = IF result = "added" THEN "waiting" ELSE "none"]
            /\ request' = [request EXCEPT ![i] =
                   IF @ = "cut" THEN @ ELSE IF result = "refused" THEN "stuck" ELSE "answered"]
    BY <1>4 DEF AddSettles
  <2>2. job' \in [Requests -> Job] /\ AttemptsLeft'
    <3>1. job[i].at # "failed"
      BY <1>4 DEF AddSettles
    <3>2. PICK a \in {"waiting", "none"} : job' = [job EXCEPT ![i].at = a]
      BY <2>1
    <3>3. a \in JobStages
      BY DEF JobStages
    <3> QED BY <3>1, <3>2, <3>3, JobTyped, MovedLeavesAttempts
  <2>3. request' \in [Requests -> Stages]
    BY <2>1, JobTyped DEF Stages
  <2>4. UNCHANGED <<media, push, changes, crashes>>
    BY <1>4 DEF AddSettles
  <2> QED BY <2>2, <2>3, <2>4 DEF media, push, Job, JobStages, Stages
<1>5. ASSUME NEW i \in Requests, ApiCrash(i) PROVE TypeInv'
  <2>1. job' \in [Requests -> Job] /\ AttemptsLeft'
    <3>1. CASE UNCHANGED job
      BY <3>1, JobTyped DEF AttemptsLeft
    <3>2. CASE job' = [job EXCEPT ![i] = NoJob]
      <4>1. NoJob \in Job /\ NoJob.failures < MaxAttempts
        BY NewJobType DEF NoJob
      <4> QED BY <3>2, <4>1, JobTyped DEF AttemptsLeft
    <3> QED BY <1>5, <3>1, <3>2 DEF ApiCrash
  <2>2. request' \in [Requests -> Stages]
    BY <1>5, JobTyped DEF ApiCrash, Stages
  <2>3. crashes' \in 0..MaxCrashes /\ UNCHANGED <<media, push, changes>>
    BY <1>5, BoundAssumption DEF ApiCrash
  <2> QED BY <2>1, <2>2, <2>3 DEF media, push, Job, JobStages, Stages
<1>6. \A mine : Stalled(mine) \in [Requests -> Job]
               /\ \A i \in Requests : Stalled(mine)[i].at # "failed"
                      => Stalled(mine)[i].failures < MaxAttempts
  BY JobTyped DEF Stalled, Job, JobStages, AttemptsLeft, Active
<1>7. CASE MediaWorkerCrash
  <2>1. job' \in [Requests -> Job] /\ AttemptsLeft'
    BY <1>6, <1>7 DEF MediaWorkerCrash, AttemptsLeft
  <2> QED BY <1>7, <2>1, BoundAssumption DEF MediaWorkerCrash, push, Job, JobStages
<1>8. CASE PushWorkerCrash
  <2>1. job' \in [Requests -> Job] /\ AttemptsLeft'
    BY <1>6, <1>8 DEF PushWorkerCrash, AttemptsLeft
  <2> QED BY <1>8, <2>1, BoundAssumption DEF PushWorkerCrash, media, Job, JobStages
<1>9. CASE UNCHANGED vars
  BY <1>9 DEF vars, media, push, AttemptsLeft
<1> QED BY <1>1, <1>2, <1>3, <1>4, <1>5, <1>7, <1>8, <1>9 DEF SettingStep

LEMMA TypeInvariant == Spec => []TypeInv
<1>1. Init => TypeInv
  <2> SUFFICES ASSUME Init PROVE TypeInv
    OBVIOUS
  <2>1. job \in [Requests -> Job] /\ AttemptsLeft
    BY NewJobType DEF Init, AttemptsLeft, NoJob
  <2>2. pushed \in [Pushes -> [Devices -> Nat]]
    BY DEF Init
  <2>3. {left, withdrawn, steady} \subseteq [Pushes -> SUBSET Devices]
    BY DEF Init
  <2>4. request \in [Requests -> Stages]
    BY DEF Init, Stages
  <2> QED BY <2>1, <2>2, <2>3, <2>4, BoundAssumption
          DEF Init, TypeInv, TypeOK, Job, JobStages, Stages
<1>2. TypeInv /\ [Next]_vars => TypeInv'
  BY NextCases, MediaTypes, PushTypes, OtherTypes
<1> QED BY <1>1, <1>2, PTL DEF Spec

\* Every variable keeps its type.
THEOREM TypeCorrect == Spec => []TypeOK
BY TypeInvariant, PTL DEF TypeInv

-----------------------------------------------------------------------------
(* Uploads.  An invariant per upload: what exists at each stage of its      *)
(* request, and what the worker has in hand during its run.                 *)

UploadInv(i) ==
    /\ request[i] \in {"none", "putting", "stored"} =>
           meta[i] = NoRow /\ read[i] = NoRow /\ job[i].at = "none"
    /\ request[i] = "stored" => i \in objects
    /\ request[i] \in {"queueing", "answered"} => meta[i] # NoRow
    /\ meta[i] # NoRow => i \in objects
    /\ job[i].at # "none" => meta[i] # NoRow
    /\ read[i] # NoRow => /\ Active(i)
                          /\ i \notin raced => read[i].keys = latest[i]
    /\ meta[i] # NoRow => /\ i \notin raced => meta[i].keys = latest[i]
                          /\ i \notin replaced => meta[i].storage

UploadsInv == \A i \in Uploads : UploadInv(i)

\* What an upload's invariant reads.
SameUpload(i) ==
    /\ request'[i] = request[i] /\ job'[i] = job[i]
    /\ meta'[i] = meta[i] /\ read'[i] = read[i] /\ latest'[i] = latest[i]
    /\ i \in objects' <=> i \in objects
    /\ i \in raced' <=> i \in raced
    /\ i \in replaced' <=> i \in replaced

LEMMA SameUploadKeeps ==
    ASSUME NEW i, UploadInv(i), SameUpload(i)
    PROVE  UploadInv(i)'
BY DEF UploadInv, SameUpload, Active

LEMMA RowsAreRows == [keys: Keys, storage: BOOLEAN] = Meta /\ NoRow \notin Meta
BY RowAssumption DEF Meta

LEMMA OthersUntouched ==
    ASSUME TypeInv, NEW i \in Uploads, MediaStep(i), NEW j \in Uploads \ {i}
    PROVE  SameUpload(j)
<1> USE DEF TypeInv, TypeOK, SameUpload, Requests
<1>1. CASE Upload(i) \/ PutStores(i) \/ PutFails(i)
  BY <1>1 DEF Upload, PutStores, PutFails, media
<1>2. CASE \E k \in Keys : Insert(i, k)
  BY <1>2 DEF Insert
<1>3. CASE \E k \in Keys : ReplaceMeta(i, k)
  BY <1>3 DEF ReplaceMeta
<1>4. CASE ReadMedia(i) \/ FinishMedia(i)
  BY <1>4 DEF ReadMedia, FinishMedia, media
<1>5. CASE WriteMedia(i) \/ MediaFails(i)
  BY <1>5 DEF WriteMedia, MediaFails
<1> QED BY <1>1, <1>2, <1>3, <1>4, <1>5 DEF MediaStep

LEMMA UploadSteps ==
    ASSUME TypeInv, NEW i \in Uploads, UploadInv(i), MediaStep(i)
    PROVE  UploadInv(i)'
<1> USE DEF UploadInv, Active
<1>0. /\ i \in Requests /\ job \in [Requests -> Job] /\ request \in [Requests -> Stages]
      /\ meta \in [Uploads -> Meta \cup {NoRow}] /\ read \in [Uploads -> Meta \cup {NoRow}]
      /\ latest \in [Uploads -> Keys \cup {NoRow}]
  BY JobTyped DEF Requests, TypeInv, TypeOK
<1>1. CASE Upload(i)
  BY <1>0, <1>1 DEF Upload, media
<1>2. CASE PutStores(i) \/ PutFails(i)
  BY <1>0, <1>2 DEF PutStores, PutFails
<1>3. ASSUME NEW k \in Keys, Insert(i, k) PROVE UploadInv(i)'
  <2>1. meta'[i] = [keys |-> k, storage |-> TRUE] /\ latest'[i] = k
    BY <1>0, <1>3 DEF Insert
  <2>2. meta'[i] # NoRow
    <3>1. [keys |-> k, storage |-> TRUE] \in Meta
      BY DEF Meta
    <3> QED BY <2>1, <3>1, RowsAreRows
  <2>3. request[i] = "stored" /\ request'[i] = "queueing" /\ job'[i].at = "adding"
    BY <1>0, <1>3 DEF Insert, MayInsert, NewJob
  <2> QED BY <2>1, <2>2, <2>3, <1>3 DEF Insert
<1>4. ASSUME NEW k \in Keys, ReplaceMeta(i, k) PROVE UploadInv(i)'
  <2>1. meta'[i] = [keys |-> k, storage |-> FALSE] /\ latest'[i] = k
    BY <1>0, <1>4 DEF ReplaceMeta
  <2>2. meta'[i] # NoRow
    <3>1. [keys |-> k, storage |-> FALSE] \in Meta
      BY DEF Meta
    <3> QED BY <2>1, <3>1, RowsAreRows
  <2>3. i \in replaced' /\ (read[i] # NoRow => i \in raced')
    BY <1>4 DEF ReplaceMeta
  <2> QED BY <2>1, <2>2, <2>3, <1>4 DEF ReplaceMeta
<1>5. CASE ReadMedia(i)
  <2>1. /\ read'[i] = meta[i]
        /\ job'[i].at = IF meta[i] = NoRow THEN "done" ELSE "active"
    BY <1>0, <1>5, MovedType DEF ReadMedia, JobStages
  <2>2. job[i].at = "waiting" /\ UNCHANGED <<request, objects, meta, latest, raced, replaced>>
    BY <1>5 DEF ReadMedia
  <2> QED BY <2>1, <2>2
<1>6. CASE WriteMedia(i)
  <2>1. read[i] \in Meta /\ Previewed(read[i]) \in Meta
    BY <1>0, <1>6 DEF WriteMedia, Previewed, Meta
  <2>2. Previewed(read[i]).keys = read[i].keys /\ Previewed(read[i]).storage = TRUE
    BY <2>1 DEF Previewed, Meta
  <2>3. /\ meta'[i] = Previewed(read[i]) /\ read'[i] = NoRow
        /\ UNCHANGED <<request, job, objects, latest, raced>>
    BY <1>0, <1>6 DEF WriteMedia
  <2>4. meta'[i] # NoRow
    BY <2>1, <2>3, RowsAreRows
  <2> QED BY <2>2, <2>3, <2>4, <1>6 DEF WriteMedia
<1>7. CASE MediaFails(i)
  BY <1>0, <1>7 DEF MediaFails
<1>8. CASE FinishMedia(i)
  <2>1. job'[i].at = "done"
    BY <1>0, <1>8, MovedType DEF FinishMedia, JobStages
  <2> QED BY <2>1, <1>8 DEF FinishMedia, media
<1> QED BY <1>1, <1>2, <1>3, <1>4, <1>5, <1>6, <1>7, <1>8 DEF MediaStep

LEMMA UploadsElsewhere ==
    ASSUME TypeInv, UploadsInv,
           \/ \E i \in Pushes : PushStep(i)
           \/ SettingStep \/ PushWorkerCrash \/ UNCHANGED vars
    PROVE  UploadsInv'
<1> SUFFICES ASSUME NEW j \in Uploads PROVE SameUpload(j)
  BY SameUploadKeeps DEF UploadsInv
<1> USE DEF SameUpload, media
<1>0. j \in Requests /\ j \notin Pushes /\ job \in [Requests -> Job] /\ request \in [Requests -> Stages]
  BY JobTyped, RequestAssumption DEF Requests, TypeInv
<1>1. ASSUME NEW i \in Pushes, PushStep(i) PROVE SameUpload(j)
  <2>1. UNCHANGED media
    BY <1>1 DEF PushStep, AskPush, StartPush, SendChunk, SendFails, FinishPush
  <2>2. request'[j] = request[j] /\ job'[j] = job[j]
    BY <1>0, <1>1 DEF PushStep, AskPush, StartPush, SendChunk, SendFails, FinishPush
  <2> QED BY <2>1, <2>2
<1>2. CASE SettingStep
  BY <1>2 DEF SettingStep, Register, Unregister, SetMute
<1>3. CASE PushWorkerCrash
  <2>1. job'[j] = job[j]
    BY <1>0, <1>3 DEF PushWorkerCrash, Stalled
  <2> QED BY <2>1, <1>3 DEF PushWorkerCrash
<1>4. CASE UNCHANGED vars
  BY <1>4 DEF vars
<1> QED BY <1>1, <1>2, <1>3, <1>4

LEMMA UploadsQueue ==
    ASSUME TypeInv, UploadsInv,
           \/ \E i \in Requests : AddSettles(i) \/ ApiCrash(i)
           \/ MediaWorkerCrash
    PROVE  UploadsInv'
<1> SUFFICES ASSUME NEW j \in Uploads, UploadInv(j) PROVE UploadInv(j)'
  BY DEF UploadsInv
<1>0. j \in Requests /\ job \in [Requests -> Job] /\ request \in [Requests -> Stages]
  BY JobTyped DEF Requests, TypeInv
<1>1. ASSUME NEW i \in Requests, AddSettles(i) PROVE UploadInv(j)'
  <2>1. UNCHANGED media
    BY <1>1 DEF AddSettles
  <2>2. CASE i = j
    <3>1. job[j].at = "adding" /\ request'[j] \in {"cut", "stuck", "answered"}
      BY <1>0, <1>1, <2>2 DEF AddSettles
    <3>2. job'[j].at \in {"waiting", "none"}
      BY <1>0, <1>1, <2>2, MovedType DEF AddSettles, JobStages
    <3> QED BY <2>1, <3>1, <3>2 DEF UploadInv, media, Active
  <2>3. CASE i # j
    BY <1>0, <1>1, <2>1, <2>3, SameUploadKeeps DEF AddSettles, SameUpload, media
  <2> QED BY <2>2, <2>3
<1>2. ASSUME NEW i \in Requests, ApiCrash(i) PROVE UploadInv(j)'
  <2>1. UNCHANGED media
    BY <1>2 DEF ApiCrash
  <2>2. CASE i = j
    <3>1. request'[j] = "cut" /\ (job'[j] = job[j] \/ (job[j].at = "adding" /\ job'[j].at = "none"))
      BY <1>0, <1>2, <2>2 DEF ApiCrash, NoJob
    <3> QED BY <2>1, <3>1 DEF UploadInv, media, Active
  <2>3. CASE i # j
    BY <1>0, <1>2, <2>1, <2>3, SameUploadKeeps DEF ApiCrash, SameUpload, media
  <2> QED BY <2>2, <2>3
<1>3. CASE MediaWorkerCrash
  <2>1. job'[j] = job[j] \/ (Active(j) /\ job'[j].at = "waiting")
    BY <1>0, <1>3 DEF MediaWorkerCrash, Stalled, Job, JobStages
  <2>2. read'[j] = NoRow /\ UNCHANGED <<request, objects, meta, latest, raced, replaced>>
    BY <1>3 DEF MediaWorkerCrash
  <2> QED BY <2>1, <2>2 DEF UploadInv, Active
<1> QED BY <1>1, <1>2, <1>3

LEMMA UploadsInvariant == Spec => []UploadsInv
<1>1. Init => UploadsInv
  BY DEF Init, UploadsInv, UploadInv, NoJob, Requests
<1>2. TypeInv /\ UploadsInv /\ [Next]_vars => UploadsInv'
  <2> SUFFICES ASSUME TypeInv, UploadsInv, [Next]_vars PROVE UploadsInv'
    OBVIOUS
  <2>1. ASSUME NEW i \in Uploads, MediaStep(i) PROVE UploadsInv'
    BY <2>1, OthersUntouched, SameUploadKeeps, UploadSteps DEF UploadsInv
  <2> QED BY <2>1, NextCases, UploadsElsewhere, UploadsQueue
<1> QED BY <1>1, <1>2, TypeInvariant, PTL DEF Spec

\* An answered upload has its row, a row its object and a job its row, whatever
\* is cut off, refused or repeated.
THEOREM RowsHaveObjects == Spec => []NothingDangles
<1>1. UploadsInv => NothingDangles
  BY DEF UploadsInv, UploadInv, NothingDangles
<1> QED BY <1>1, UploadsInvariant, PTL

\* Preview jobs, however often they run, keep the owner's metadata and the
\* file's storage, but for replacements that overtake them.
THEOREM MetadataKept == Spec => []MetadataIsKept
<1>1. UploadsInv => MetadataIsKept
  BY DEF UploadsInv, UploadInv, MetadataIsKept
<1> QED BY <1>1, UploadsInvariant, PTL

-----------------------------------------------------------------------------
(* Pushes.  What a run has left is registered, unmuted or withdrawn; what    *)
(* it has not left is reached; and copies are counted stage by stage.       *)

Copies(p, d) ==
    LET bound == job[p].failures + crashes IN
    /\ job[p].at \in {"none", "adding"} => pushed[p][d] = 0
    /\ job[p].at \in {"waiting", "failed"} => pushed[p][d] <= bound
    /\ Active(p) /\ d \in left[p] => pushed[p][d] <= bound
    /\ Active(p) \/ job[p].at = "done" => pushed[p][d] <= bound + 1

Reached(p, d) ==
    /\ d \in left[p] => (d \in tokens /\ ~muted) \/ d \in withdrawn[p]
    /\ d \in steady[p] => d \in tokens /\ ~muted
    /\ Active(p) /\ d \in Sendable(steady[p]) /\ d \notin left[p] => pushed[p][d] >= 1
    /\ job[p].at = "done" /\ d \in Sendable(steady[p]) => pushed[p][d] >= 1

PushInv(p) ==
    /\ request[p] = "none" => job[p].at = "none"
    /\ left[p] # {} => Active(p)
    /\ \A d \in Devices : Copies(p, d) /\ Reached(p, d)

PushesInv == \A p \in Pushes : PushInv(p)

SamePush(p) ==
    /\ request'[p] = request[p] /\ job'[p] = job[p]
    /\ left'[p] = left[p] /\ pushed'[p] = pushed[p]
    /\ withdrawn'[p] = withdrawn[p] /\ steady'[p] = steady[p]

\* A death elsewhere only raises the bound.
LEMMA SamePushKeeps ==
    ASSUME TypeInv, TypeInv', NEW p \in Pushes, PushInv(p), SamePush(p),
           UNCHANGED <<sdk, tokens, muted>>, crashes' \in {crashes, crashes + 1}
    PROVE  PushInv(p)'
<1>1. /\ job[p].failures \in Nat /\ crashes \in Nat
      /\ \A d \in Devices : pushed[p][d] \in Nat
  BY BoundAssumption, QueueAssumption DEF TypeInv, TypeOK, Requests
<1> QED BY <1>1 DEF PushInv, SamePush, Copies, Reached, Sendable, Active

LEMMA PushTyped ==
    ASSUME TypeInv
    PROVE  /\ job \in [Requests -> Job] /\ request \in [Requests -> Stages]
           /\ left \in [Pushes -> SUBSET Devices]
           /\ withdrawn \in [Pushes -> SUBSET Devices]
           /\ steady \in [Pushes -> SUBSET Devices]
           /\ pushed \in [Pushes -> [Devices -> Nat]]
           /\ tokens \subseteq Devices /\ crashes \in Nat
           /\ \A i \in Requests : job[i].failures \in Nat
           /\ Pushes \subseteq Requests
BY JobTyped, BoundAssumption, QueueAssumption DEF TypeInv, TypeOK, Requests, Job

LEMMA OtherPushes ==
    ASSUME TypeInv, NEW i \in Pushes, PushStep(i), NEW p \in Pushes \ {i}
    PROVE  SamePush(p) /\ UNCHANGED <<sdk, tokens, muted, crashes>>
<1> USE PushTyped DEF SamePush, push
<1>1. CASE AskPush(i)
  BY <1>1 DEF AskPush
<1>2. CASE StartPush(i)
  BY <1>2 DEF StartPush
<1>3. CASE SendChunk(i)
  BY <1>3 DEF SendChunk, Received
<1>4. CASE SendFails(i)
  BY <1>4 DEF SendFails, Received
<1>5. CASE FinishPush(i)
  BY <1>5 DEF FinishPush
<1> QED BY <1>1, <1>2, <1>3, <1>4, <1>5 DEF PushStep

LEMMA PushSteps ==
    ASSUME TypeInv, NEW i \in Pushes, PushInv(i), PushStep(i)
    PROVE  PushInv(i)'
<1>0. i \in Requests /\ job[i].failures \in Nat /\ crashes \in Nat /\ left[i] \subseteq Devices
  BY PushTyped
<1>1. CASE AskPush(i)
  <2>1. job[i].at = "none" /\ left[i] = {} /\ \A d \in Devices : pushed[i][d] = 0
    BY <1>1, PushTyped DEF AskPush, PushInv, Active, Copies
  <2>2. /\ request'[i] = "queueing" /\ job'[i].at = "adding"
        /\ steady'[i] = IF muted THEN {} ELSE tokens
        /\ UNCHANGED <<sdk, tokens, muted, left, pushed, withdrawn, crashes>>
    BY <1>1, <1>0, PushTyped DEF AskPush, NewJob
  <2> QED BY <2>1, <2>2 DEF PushInv, Active, Copies, Reached, Sendable
<1>2. CASE StartPush(i)
  <2>1. /\ job[i].at = "waiting" /\ left[i] = {}
        /\ UNCHANGED <<request, sdk, tokens, muted, pushed, steady, crashes>>
    BY <1>2 DEF StartPush, PushInv, Active
  <2>2. CASE muted \/ Sendable(tokens) = {}
    <3>1. job'[i].at = "done" /\ job'[i].failures = job[i].failures /\ UNCHANGED <<left, withdrawn>>
      <4>1. job' = [job EXCEPT ![i].at = "done"] /\ UNCHANGED <<left, withdrawn>>
        BY <1>2, <2>2 DEF StartPush, Silenced
      <4> QED BY <1>0, <4>1, PushTyped, MovedType DEF JobStages
    <3>2. Sendable(steady[i]) = {}
      <4>1. \A d \in steady[i] : d \in Devices /\ d \in tokens /\ ~muted
        BY PushTyped DEF PushInv, Reached
      <4> QED BY <2>2, <4>1 DEF Sendable
    <3> QED BY <1>0, <2>1, <3>1, <3>2, PushTyped DEF PushInv, Active, Copies, Reached, Sendable
  <2>3. CASE ~muted /\ Sendable(tokens) # {}
    <3>1. job'[i].at = "active" /\ job'[i].failures = job[i].failures
      <4>1. job' = [job EXCEPT ![i].at = "active"]
        BY <1>2, <2>3 DEF StartPush, Silenced
      <4> QED BY <1>0, <4>1, PushTyped, MovedType DEF JobStages
    <3>2. left'[i] = Sendable(tokens) /\ withdrawn'[i] = {}
      BY <1>2, <2>3, PushTyped DEF StartPush, Silenced
    <3> QED BY <1>0, <2>1, <2>3, <3>1, <3>2, PushTyped DEF PushInv, Active, Copies, Reached, Sendable
  <2> QED BY <2>2, <2>3
<1>3. CASE SendChunk(i)
  <2>1. PICK c \in Chunks(left[i]) : /\ pushed' = Received(i, c)
                                     /\ left' = [left EXCEPT ![i] = @ \ c]
    BY <1>3 DEF SendChunk
  <2>2. /\ Active(i) /\ left'[i] = left[i] \ c
        /\ UNCHANGED <<request, job, sdk, tokens, muted, withdrawn, steady, crashes>>
    BY <1>3, <2>1, PushTyped DEF SendChunk
  <2>3. \A d \in Devices : pushed[i][d] \in Nat
           /\ pushed'[i][d] = IF d \in c THEN pushed[i][d] + 1 ELSE pushed[i][d]
    BY <2>1, ReceivedType, PushTyped DEF TypeInv
  <2>4. c \subseteq left[i]
    BY DEF Chunks
  <2> QED BY <1>0, <2>2, <2>3, <2>4 DEF PushInv, Active, Copies, Reached, Sendable
<1>4. CASE SendFails(i)
  <2>1. PICK c \in Chunks(left[i]) \cup {{}} : pushed' = Received(i, c)
    BY <1>4 DEF SendFails
  <2>2. /\ Active(i) /\ left'[i] = {} /\ job'[i] = Failed(job[i])
        /\ UNCHANGED <<request, sdk, tokens, muted, withdrawn, steady, crashes>>
    BY <1>0, <1>4, PushTyped DEF SendFails
  <2>3. \A d \in Devices : pushed[i][d] \in Nat
           /\ pushed'[i][d] = IF d \in c THEN pushed[i][d] + 1 ELSE pushed[i][d]
    BY <2>1, ReceivedType, PushTyped DEF TypeInv
  <2>4. c \subseteq left[i]
    BY DEF Chunks
  <2>5. job'[i].at \in {"waiting", "failed"} /\ job'[i].failures = job[i].failures + 1
    BY <2>2 DEF Failed
  <2>6. request[i] # "none"
    BY <2>2 DEF PushInv, Active
  <2> QED BY <1>0, <2>2, <2>3, <2>4, <2>5, <2>6 DEF PushInv, Active, Copies, Reached, Sendable
<1>5. CASE FinishPush(i)
  <2>1. /\ Active(i) /\ left[i] = {} /\ job'[i].at = "done" /\ job'[i].failures = job[i].failures
        /\ UNCHANGED <<request, push, crashes>>
    BY <1>0, <1>5, PushTyped, MovedType DEF FinishPush, JobStages
  <2> QED BY <1>0, <2>1 DEF PushInv, Active, Copies, Reached, Sendable, push
<1> QED BY <1>1, <1>2, <1>3, <1>4, <1>5 DEF PushStep

LEMMA PushesSettings ==
    ASSUME TypeInv, PushesInv, SettingStep
    PROVE  PushesInv'
<1> SUFFICES ASSUME NEW p \in Pushes, PushInv(p) PROVE PushInv(p)'
  BY DEF PushesInv
<1> USE DEF PushInv, Copies, Reached, Sendable, Active
<1>1. ASSUME NEW d \in Devices, Register(d) PROVE PushInv(p)'
  BY <1>1 DEF Register
<1>2. ASSUME NEW ds \in SUBSET Devices, Unregister(ds) PROVE PushInv(p)'
  <2>1. /\ tokens' = tokens \ ds /\ steady'[p] = steady[p] \ ds
        /\ Active(p) => withdrawn'[p] = withdrawn[p] \cup ds
        /\ withdrawn[p] \subseteq withdrawn'[p]
        /\ UNCHANGED <<request, job, sdk, muted, left, pushed, crashes>>
    BY <1>2 DEF Unregister, Withdraw
  <2> QED BY <2>1
<1>3. CASE SetMute(TRUE)
  <2>1. /\ muted' = TRUE /\ steady'[p] = steady[p] \ Devices
        /\ Active(p) => withdrawn'[p] = withdrawn[p] \cup Devices
        /\ withdrawn[p] \subseteq withdrawn'[p]
        /\ UNCHANGED <<request, job, sdk, tokens, left, pushed, crashes>>
    BY <1>3 DEF SetMute, Withdraw
  <2> QED BY <2>1
<1>4. CASE SetMute(FALSE)
  <2>1. /\ muted # FALSE /\ muted' = FALSE
        /\ UNCHANGED <<request, job, sdk, tokens, left, pushed, withdrawn, steady, crashes>>
    BY <1>4 DEF SetMute
  <2>2. muted = TRUE
    BY <2>1 DEF TypeInv, TypeOK
  <2> QED BY <2>1, <2>2
<1> QED BY <1>1, <1>2, <1>3, <1>4 DEF SettingStep

LEMMA PushesQueue ==
    ASSUME TypeInv, TypeInv', PushesInv,
           \/ \E i \in Requests : AddSettles(i) \/ ApiCrash(i)
           \/ PushWorkerCrash
    PROVE  PushesInv'
<1> SUFFICES ASSUME NEW p \in Pushes, PushInv(p) PROVE PushInv(p)'
  BY DEF PushesInv
<1>0. p \in Requests /\ job[p].failures \in Nat /\ crashes \in Nat
      /\ \A d \in Devices : pushed[p][d] \in Nat
  BY PushTyped
<1>1. ASSUME NEW i \in Requests, AddSettles(i) PROVE PushInv(p)'
  <2>1. UNCHANGED <<push, crashes>>
    BY <1>1 DEF AddSettles
  <2>2. CASE i = p
    <3>1. job[p].at = "adding" /\ request'[p] \in {"cut", "stuck", "answered"}
      BY <1>0, <1>1, <2>2, PushTyped DEF AddSettles
    <3>2. job'[p].at \in {"waiting", "none"} /\ job'[p].failures = job[p].failures
      BY <1>0, <1>1, <2>2, PushTyped, MovedType DEF AddSettles, JobStages
    <3> QED BY <1>0, <2>1, <3>1, <3>2 DEF PushInv, Copies, Reached, Sendable, Active, push
  <2>3. CASE i # p
    <3>1. SamePush(p)
      BY <1>0, <1>1, <2>1, <2>3, PushTyped DEF AddSettles, SamePush, push
    <3> QED BY <2>1, <3>1, SamePushKeeps DEF push
  <2> QED BY <2>2, <2>3
<1>2. ASSUME NEW i \in Requests, ApiCrash(i) PROVE PushInv(p)'
  <2>1. UNCHANGED push /\ crashes' = crashes + 1
    BY <1>2 DEF ApiCrash
  <2>2. CASE i = p
    <3>1. request'[p] = "cut"
      BY <1>0, <1>2, <2>2, PushTyped DEF ApiCrash
    <3>2. job'[p] = job[p] \/ (job[p].at = "adding" /\ job'[p].at = "none")
      BY <1>0, <1>2, <2>2, PushTyped DEF ApiCrash, NoJob
    <3> QED BY <1>0, <2>1, <3>1, <3>2 DEF PushInv, Copies, Reached, Sendable, Active, push
  <2>3. CASE i # p
    <3>1. SamePush(p)
      BY <1>0, <1>2, <2>1, <2>3, PushTyped DEF ApiCrash, SamePush, push
    <3> QED BY <2>1, <3>1, SamePushKeeps DEF push
  <2> QED BY <2>2, <2>3
<1>3. CASE PushWorkerCrash
  <2>1. /\ left'[p] = {} /\ crashes' = crashes + 1
        /\ UNCHANGED <<request, sdk, tokens, muted, pushed, withdrawn, steady>>
    BY <1>3 DEF PushWorkerCrash
  <2>2. \/ ~Active(p) /\ job'[p] = job[p]
        \/ Active(p) /\ job'[p].at = "waiting" /\ job'[p].failures = job[p].failures
    <3>1. job'[p] = IF Active(p) THEN [job[p] EXCEPT !.at = "waiting"] ELSE job[p]
      BY <1>0, <1>3 DEF PushWorkerCrash, Stalled
    <3>2. job[p] \in Job
      BY <1>0, PushTyped
    <3> QED BY <3>1, <3>2 DEF Job
  <2> QED BY <1>0, <2>1, <2>2 DEF PushInv, Copies, Reached, Sendable, Active
<1> QED BY <1>1, <1>2, <1>3

LEMMA PushesElsewhere ==
    ASSUME TypeInv, TypeInv', PushesInv,
           (\E i \in Uploads : MediaStep(i)) \/ MediaWorkerCrash \/ UNCHANGED vars
    PROVE  PushesInv'
<1> SUFFICES ASSUME NEW p \in Pushes
             PROVE  SamePush(p) /\ UNCHANGED <<sdk, tokens, muted>> /\ crashes' \in {crashes, crashes + 1}
  BY SamePushKeeps DEF PushesInv
<1>0. p \in Requests /\ p \notin Uploads
  BY RequestAssumption, PushTyped
<1>1. ASSUME NEW i \in Uploads, MediaStep(i)
      PROVE  SamePush(p) /\ UNCHANGED <<sdk, tokens, muted, crashes>>
  <2>1. UNCHANGED <<push, crashes>>
    BY <1>1 DEF MediaStep, Upload, PutStores, PutFails, Insert, ReplaceMeta, ReadMedia,
                WriteMedia, MediaFails, FinishMedia
  <2>2. job'[p] = job[p] /\ request'[p] = request[p]
    BY <1>0, <1>1, PushTyped DEF MediaStep, Upload, PutStores, PutFails, Insert, ReplaceMeta,
                ReadMedia, WriteMedia, MediaFails, FinishMedia
  <2> QED BY <2>1, <2>2 DEF push, SamePush
<1>2. CASE MediaWorkerCrash
  BY <1>0, <1>2, PushTyped DEF MediaWorkerCrash, Stalled, SamePush, push
<1>3. CASE UNCHANGED vars
  BY <1>3 DEF vars, push, SamePush
<1> QED BY <1>1, <1>2, <1>3

LEMMA PushesInvariant == Spec => []PushesInv
<1>1. Init => PushesInv
  BY DEF Init, PushesInv, PushInv, Copies, Reached, Sendable, Active, NoJob, Requests
<1>2. TypeInv /\ TypeInv' /\ PushesInv /\ [Next]_vars => PushesInv'
  <2> SUFFICES ASSUME TypeInv, TypeInv', PushesInv, [Next]_vars PROVE PushesInv'
    OBVIOUS
  <2>1. ASSUME NEW i \in Pushes, PushStep(i), NEW p \in Pushes PROVE PushInv(p)'
    <3>1. CASE p = i
      BY <2>1, <3>1, PushSteps DEF PushesInv
    <3>2. CASE p # i
      BY <2>1, <3>2, OtherPushes, SamePushKeeps DEF PushesInv
    <3> QED BY <3>1, <3>2
  <2>2. (\E i \in Pushes : PushStep(i)) => PushesInv'
    BY <2>1 DEF PushesInv
  <2> QED BY <2>2, NextCases, PushesSettings, PushesQueue, PushesElsewhere
<1> QED BY <1>1, <1>2, TypeInvariant, PTL DEF Spec

\* No device gets more copies of a push than there are attempts and stalls.
THEOREM PushesBounded == Spec => []BoundedPushes
<1>1. TypeInv /\ PushesInv => BoundedPushes
  <2> SUFFICES ASSUME TypeInv, PushesInv, NEW i \in Pushes, NEW d \in Devices
               PROVE  pushed[i][d] <= MaxAttempts + crashes
    BY DEF BoundedPushes
  <2>1. /\ job[i].at \in JobStages /\ job[i].failures \in 0..MaxAttempts
        /\ pushed[i][d] \in Nat /\ crashes \in Nat /\ MaxAttempts \in Nat
        /\ job[i].at # "failed" => job[i].failures < MaxAttempts
    BY PushTyped, QueueAssumption DEF TypeInv, AttemptsLeft, Job
  <2>2. Copies(i, d)
    BY DEF PushesInv, PushInv
  <2> QED BY <2>1, <2>2 DEF Copies, Active, JobStages
<1> QED BY <1>1, TypeInvariant, PushesInvariant, PTL

\* A push that is done has reached every device it was due to, over failures,
\* retries, stalls and changes of other devices, if the SDK is installed and as
\* far as they have Expo tokens.
THEOREM DoneReaches == Spec => []DoneReachesSteady
<1>1. TypeInv /\ PushesInv => DoneReachesSteady
  BY PushTyped DEF DoneReachesSteady, PushesInv, PushInv, Reached, Sendable
<1> QED BY <1>1, TypeInvariant, PushesInvariant, PTL

\* Whoever mutes or unregisters a device hears at most what the run under way
\* has left.
THEOREM WithdrawnQuiet == Spec => WithdrawnStaysQuiet
<1> DEFINE Quiet == \A i \in Pushes : \A d \in Devices :
               pushed'[i][d] # pushed[i][d] => \/ d \in tokens /\ ~muted
                                              \/ d \in withdrawn[i]
<1>1. TypeInv /\ PushesInv /\ [Next]_vars => [Quiet]_vars
  <2> SUFFICES ASSUME TypeInv, PushesInv, [Next]_vars,
                      NEW p \in Pushes, NEW d \in Devices, pushed'[p][d] # pushed[p][d]
               PROVE  d \in left[p]
    BY DEF PushesInv, PushInv, Reached
  <2>1. PICK i \in Pushes : SendChunk(i) \/ SendFails(i)
    <3>1. pushed' # pushed
      OBVIOUS
    <3>2. ASSUME NEW i \in Uploads, MediaStep(i) PROVE FALSE
      BY <3>1, <3>2 DEF MediaStep, Upload, PutStores, PutFails, Insert, ReplaceMeta, ReadMedia,
                WriteMedia, MediaFails, FinishMedia, push
    <3>3. ~SettingStep
      BY <3>1 DEF SettingStep, Register, Unregister, SetMute
    <3>4. ASSUME NEW i \in Requests, AddSettles(i) \/ ApiCrash(i) PROVE FALSE
      BY <3>1, <3>4 DEF AddSettles, ApiCrash, push
    <3>5. ~MediaWorkerCrash /\ ~PushWorkerCrash /\ ~UNCHANGED vars
      BY <3>1 DEF MediaWorkerCrash, PushWorkerCrash, vars, push
    <3>6. \E i \in Pushes : PushStep(i)
      BY <3>2, <3>3, <3>4, <3>5, NextCases
    <3> QED BY <3>1, <3>6 DEF PushStep, AskPush, StartPush, FinishPush, push
  <2>2. PICK c \in Chunks(left[i]) \cup {{}} : pushed' = Received(i, c)
    BY <2>1 DEF SendChunk, SendFails
  <2>3. p = i /\ d \in c
    BY <2>2, ReceivedType DEF TypeInv
  <2> QED BY <2>3 DEF Chunks
<1> QED BY <1>1, TypeInvariant, PushesInvariant, PTL DEF Spec, WithdrawnStaysQuiet

=============================================================================
