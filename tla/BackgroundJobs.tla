--------------------------- MODULE BackgroundJobs ---------------------------
(***************************************************************************)
(* Work that requests of one user hand to workers through infra/queues.js:  *)
(* an upload (routes/filesV2.js, storage/s3.js) whose preview is made by    *)
(* workers/mediaWorker.js, and a push notification (routes/notifications.js *)
(* and callsProduction.js) sent by workers/pushWorker.js to those of the    *)
(* user's devices that have an Expo token, if expo-server-sdk is installed. *)
(*                                                                         *)
(* API and workers are different processes on one SQLite file.  BullMQ, the *)
(* object store and Expo are external: a job is added, skipped or refused,  *)
(* and runs again after a failure or a stall; an object or a chunk of       *)
(* messages may have arrived although the call failed.                      *)
(***************************************************************************)
EXTENDS Integers, FiniteSets

CONSTANTS
    Uploads,      \* requests that upload a file
    Pushes,       \* requests for a push notification
    Devices,      \* push tokens the user's devices may register: any string
    ExpoTokens,   \* those that isExpoPushToken accepts
    ChunkSize,    \* messages Expo takes at once
    Keys,         \* encryption metadata of a file
    NoRow,        \* no row of media_files
    MaxAttempts,  \* QUEUE_ATTEMPTS
    MaxChanges,   \* bound: changes of tokens, mute and metadata
    MaxCrashes    \* bound: deaths of API processes and workers

ASSUME RequestAssumption == Uploads \cap Pushes = {}
ASSUME TokenAssumption == ExpoTokens \subseteq Devices
ASSUME RowAssumption == NoRow \notin [keys: Keys, storage: BOOLEAN]
ASSUME QueueAssumption == {ChunkSize, MaxAttempts} \subseteq Nat \ {0}
ASSUME BoundAssumption == {MaxChanges, MaxCrashes} \subseteq Nat

Requests == Uploads \cup Pushes

VARIABLES
    request,    \* request[i]: the handler of request i
    job,        \* job[i]: the job it added
    objects,    \* uploads whose object is in the store
    meta,       \* media_files.encryption_meta_json of upload i
    read,       \* the metadata the media worker has in hand, NoRow outside its run
    latest,     \* history: the metadata last accepted from the owner
    raced,      \* history: last replaced between the worker's SELECT and UPDATE
    replaced,   \* history: replaced since the row was inserted or previewed
    sdk,        \* whether optionalRequire finds expo-server-sdk: never changes
    tokens,     \* table push_tokens
    muted,      \* notification_settings.muted_until lies ahead
    left,       \* left[i]: devices the run of push i has yet to send to
    pushed,     \* history: copies of push i each device has received
    withdrawn,  \* history: devices unregistered or muted during the run of i
    steady,     \* history: registered and not muted since push i was asked for
    changes, crashes

media == <<objects, meta, read, latest, raced, replaced>>
push == <<sdk, tokens, muted, left, pushed, withdrawn, steady>>
vars == <<request, job, media, push, changes, crashes>>

Meta == [keys: Keys, storage: BOOLEAN]

TypeOK ==
    /\ request \in [Requests -> {"none", "putting", "stored", "queueing", "answered", "stuck", "cut"}]
    /\ job \in [Requests -> [at: {"none", "adding", "waiting", "active", "done", "failed"},
                        failures: 0..MaxAttempts]]
    /\ objects \subseteq Uploads
    /\ meta \in [Uploads -> Meta \cup {NoRow}]
    /\ read \in [Uploads -> Meta \cup {NoRow}]
    /\ latest \in [Uploads -> Keys \cup {NoRow}]
    /\ raced \subseteq Uploads /\ replaced \subseteq Uploads
    /\ sdk \in BOOLEAN
    /\ tokens \subseteq Devices
    /\ muted \in BOOLEAN
    /\ {left, withdrawn, steady} \subseteq [Pushes -> SUBSET Devices]
    /\ pushed \in [Pushes -> [Devices -> Nat]]
    /\ changes \in 0..MaxChanges
    /\ crashes \in 0..MaxCrashes

NoJob == [at |-> "none", failures |-> 0]
NewJob == [at |-> "adding", failures |-> 0]

Init ==
    /\ request = [i \in Requests |-> "none"]
    /\ job = [i \in Requests |-> NoJob]
    /\ objects = {}
    /\ meta = [i \in Uploads |-> NoRow]
    /\ read = [i \in Uploads |-> NoRow]
    /\ latest = [i \in Uploads |-> NoRow]
    /\ raced = {} /\ replaced = {}
    /\ sdk \in BOOLEAN
    /\ tokens \in SUBSET Devices
    /\ muted \in BOOLEAN
    /\ left = [i \in Pushes |-> {}]
    /\ pushed = [i \in Pushes |-> [d \in Devices |-> 0]]
    /\ withdrawn = [i \in Pushes |-> {}]
    /\ steady = [i \in Pushes |-> {}]
    /\ changes = 0
    /\ crashes = 0

-----------------------------------------------------------------------------
(* The queue, for both kinds.                                              *)

\* await addJob(...): without Redis it resolves to null and there is no job; if
\* the queue refuses it rejects, which no handler catches.  The handlers answer
\* when it resolves.
AddSettles(i) ==
    /\ job[i].at = "adding"
    /\ \E result \in {"added", "disabled", "refused"} :
           /\ job' = [job EXCEPT ![i].at = IF result = "added" THEN "waiting" ELSE "none"]
           /\ request' = [request EXCEPT ![i] =
                  IF @ = "cut" THEN @ ELSE IF result = "refused" THEN "stuck" ELSE "answered"]
    /\ UNCHANGED <<media, push, changes, crashes>>

Exhausted_OneMore(failures) == failures > MaxAttempts
Exhausted(failures) == failures >= MaxAttempts

\* A processor that throws: the job waits for its next attempt, if there is one.
Failed_Swallowed(j) == [j EXCEPT !.at = "done"]
Failed_Uncounted(j) == [j EXCEPT !.at = "waiting"]
Failed(j) == [at |-> IF Exhausted(j.failures + 1) THEN "failed" ELSE "waiting",
              failures |-> j.failures + 1]

\* createWorker runs up to its concurrency, more than there are jobs here.
Active(i) == job[i].at = "active"

-----------------------------------------------------------------------------
(* Uploads: POST /files-v2/upload.                                         *)

Upload(i) ==
    /\ request[i] = "none"
    /\ request' = [request EXCEPT ![i] = "putting"]
    /\ UNCHANGED <<job, media, push, changes, crashes>>

\* PutObjectCommand, or localSave, has stored the file, ...
PutStores(i) ==
    /\ request[i] = "putting"
    /\ request' = [request EXCEPT ![i] = "stored"]
    /\ objects' = objects \cup {i}
    /\ UNCHANGED <<job, meta, read, latest, raced, replaced, push, changes, crashes>>

\* ... or failed, perhaps after it had.
PutFails(i) ==
    /\ request[i] = "putting"
    /\ request' = [request EXCEPT ![i] = "stuck"]
    /\ objects' \in {objects, objects \cup {i}}
    /\ UNCHANGED <<job, meta, read, latest, raced, replaced, push, changes, crashes>>

MayInsert_NoAwait(i) == request[i] \in {"putting", "stored"}
MayInsert(i) == request[i] = "stored"

\* The INSERT, with storage in the metadata; addJob is called in the same go.
Insert(i, k) ==
    /\ MayInsert(i)
    /\ request' = [request EXCEPT ![i] = "queueing"]
    /\ meta' = [meta EXCEPT ![i] = [keys |-> k, storage |-> TRUE]]
    /\ latest' = [latest EXCEPT ![i] = k]
    /\ job' = [job EXCEPT ![i] = NewJob]
    /\ UNCHANGED <<objects, read, raced, replaced, push, changes, crashes>>

\* POST /privacy/encrypted-media-meta: the whole column is replaced, and
\* with it what it said of the storage.
ReplaceMeta(i, k) ==
    /\ changes < MaxChanges
    /\ meta[i] # NoRow
    /\ changes' = changes + 1
    /\ meta' = [meta EXCEPT ![i] = [keys |-> k, storage |-> FALSE]]
    /\ latest' = [latest EXCEPT ![i] = k]
    /\ raced' = IF read[i] # NoRow THEN raced \cup {i} ELSE raced \ {i}
    /\ replaced' = replaced \cup {i}
    /\ UNCHANGED <<request, job, objects, read, push, crashes>>

\* generatePreviews: the SELECT.  Without a row the job ends.
ReadMedia(i) ==
    /\ job[i].at = "waiting"
    /\ job' = [job EXCEPT ![i].at = IF meta[i] = NoRow THEN "done" ELSE "active"]
    /\ read' = [read EXCEPT ![i] = meta[i]]
    /\ UNCHANGED <<request, objects, meta, latest, raced, replaced, push, changes, crashes>>

\* { ...meta, storage, previewStatus, ... }: storage comes with the job.
Previewed_NoSpread(old) == [keys |-> CHOOSE k \in Keys : TRUE, storage |-> TRUE]
Previewed(old) == [old EXCEPT !.storage = TRUE]

\* The UPDATE, ...
WriteMedia(i) ==
    /\ Active(i)
    /\ read[i] # NoRow
    /\ meta' = [meta EXCEPT ![i] = Previewed(read[i])]
    /\ replaced' = replaced \ {i}
    /\ read' = [read EXCEPT ![i] = NoRow]
    /\ UNCHANGED <<request, job, objects, latest, raced, push, changes, crashes>>

\* ... which throws if the database is busy too long, ...
MediaFails(i) ==
    /\ Active(i)
    /\ read[i] # NoRow
    /\ job' = [job EXCEPT ![i] = Failed(@)]
    /\ read' = [read EXCEPT ![i] = NoRow]
    /\ UNCHANGED <<request, objects, meta, latest, raced, replaced, push, changes, crashes>>

\* ... and the queue is told.
FinishMedia(i) ==
    /\ Active(i)
    /\ read[i] = NoRow
    /\ job' = [job EXCEPT ![i].at = "done"]
    /\ UNCHANGED <<request, media, push, changes, crashes>>

-----------------------------------------------------------------------------
(* Push notifications.                                                     *)

\* POST /notifications/test-push, POST /calls-production/group-call.
AskPush(i) ==
    /\ request[i] = "none"
    /\ request' = [request EXCEPT ![i] = "queueing"]
    /\ job' = [job EXCEPT ![i] = NewJob]
    /\ steady' = [steady EXCEPT ![i] = IF muted THEN {} ELSE tokens]
    /\ UNCHANGED <<media, sdk, tokens, muted, left, pushed, withdrawn, changes, crashes>>

\* From now on the devices ds are not to be bothered: history only.
Withdraw(ds) ==
    /\ withdrawn' = [i \in Pushes |-> IF Active(i) THEN withdrawn[i] \cup ds ELSE withdrawn[i]]
    /\ steady' = [i \in Pushes |-> steady[i] \ ds]

\* POST /notifications/push-token.
Register(d) ==
    /\ changes < MaxChanges
    /\ changes' = changes + 1
    /\ tokens' = tokens \cup {d}
    /\ UNCHANGED <<request, job, media, sdk, muted, left, pushed, withdrawn, steady, crashes>>

\* DELETE /notifications/push-token of one device, POST /users/me/delete of all.
Unregister(ds) ==
    /\ changes < MaxChanges
    /\ changes' = changes + 1
    /\ tokens' = tokens \ ds
    /\ Withdraw(ds)
    /\ UNCHANGED <<request, job, media, sdk, muted, left, pushed, crashes>>

\* PUT /notifications/settings, and the lapse of mutedUntil.
SetMute(b) ==
    /\ changes < MaxChanges
    /\ muted # b
    /\ changes' = changes + 1
    /\ muted' = b
    /\ IF b THEN Withdraw(Devices) ELSE UNCHANGED <<withdrawn, steady>>
    /\ UNCHANGED <<request, job, media, sdk, tokens, left, pushed, crashes>>

Silenced_FirstTry(i) == muted /\ job[i].failures = 0
Silenced(i) == muted

\* sendExpo: nothing without the SDK, and nothing to tokens of another kind.
Sendable(ds) == IF sdk THEN ds \cap ExpoTokens ELSE {}

\* processPushJob up to the first await: isMuted, the SELECT of the tokens, the
\* filter.  With nobody left to send to, the job is done.
StartPush(i) ==
    /\ job[i].at = "waiting"
    /\ IF Silenced(i) \/ Sendable(tokens) = {}
         THEN /\ job' = [job EXCEPT ![i].at = "done"]
              /\ UNCHANGED <<left, withdrawn>>
         ELSE /\ job' = [job EXCEPT ![i].at = "active"]
              /\ left' = [left EXCEPT ![i] = Sendable(tokens)]
              /\ withdrawn' = [withdrawn EXCEPT ![i] = {}]
    /\ UNCHANGED <<request, media, sdk, tokens, muted, pushed, steady, changes, crashes>>

\* chunkPushNotifications, of the messages that the filter has left.
Chunks(ds) == {c \in SUBSET ds : Cardinality(c) = ChunkSize \/ (c = ds /\ Cardinality(c) < ChunkSize)}

Received(i, c) == [pushed EXCEPT ![i] = [d \in Devices |-> IF d \in c THEN @[d] + 1 ELSE @[d]]]

\* sendPushNotificationsAsync(chunk) resolves.
SendChunk(i) ==
    /\ Active(i)
    /\ left[i] # {}
    /\ \E c \in Chunks(left[i]) :
           /\ pushed' = Received(i, c)
           /\ left' = [left EXCEPT ![i] = @ \ c]
    /\ UNCHANGED <<request, job, media, sdk, tokens, muted, withdrawn, steady, changes, crashes>>

\* It rejects, the chunk having arrived or not: the job fails and its next
\* attempt begins again with all tokens.
SendFails(i) ==
    /\ Active(i)
    /\ left[i] # {}
    /\ \E c \in Chunks(left[i]) \cup {{}} : pushed' = Received(i, c)
    /\ left' = [left EXCEPT ![i] = {}]
    /\ job' = [job EXCEPT ![i] = Failed(@)]
    /\ UNCHANGED <<request, media, sdk, tokens, muted, withdrawn, steady, changes, crashes>>

FinishPush(i) ==
    /\ Active(i)
    /\ left[i] = {}
    /\ job' = [job EXCEPT ![i].at = "done"]
    /\ UNCHANGED <<request, media, push, changes, crashes>>

-----------------------------------------------------------------------------
(* Deaths.                                                                 *)

\* An API process dies: requests it serves are cut off, a job on its way to
\* Redis may be lost.
ApiCrash(i) ==
    /\ crashes < MaxCrashes
    /\ request[i] \in {"putting", "stored", "queueing"}
    /\ crashes' = crashes + 1
    /\ request' = [request EXCEPT ![i] = "cut"]
    /\ \/ UNCHANGED job
       \/ /\ job[i].at = "adding"
          /\ job' = [job EXCEPT ![i] = NoJob]
    /\ UNCHANGED <<media, push, changes>>

\* A worker dies: BullMQ finds its jobs stalled and runs them again.
Stalled(mine) == [i \in Requests |->
    IF i \in mine /\ Active(i) THEN [job[i] EXCEPT !.at = "waiting"] ELSE job[i]]

MediaWorkerCrash ==
    /\ crashes < MaxCrashes
    /\ \E i \in Uploads : Active(i)
    /\ crashes' = crashes + 1
    /\ job' = Stalled(Uploads)
    /\ read' = [i \in Uploads |-> NoRow]
    /\ UNCHANGED <<request, objects, meta, latest, raced, replaced, push, changes>>

PushWorkerCrash ==
    /\ crashes < MaxCrashes
    /\ \E i \in Pushes : Active(i)
    /\ crashes' = crashes + 1
    /\ job' = Stalled(Pushes)
    /\ left' = [i \in Pushes |-> {}]
    /\ UNCHANGED <<request, media, sdk, tokens, muted, pushed, withdrawn, steady, changes>>

Media ==
    \E i \in Uploads :
        \/ Upload(i) \/ PutStores(i) \/ PutFails(i)
        \/ \E k \in Keys : Insert(i, k) \/ ReplaceMeta(i, k)
        \/ ReadMedia(i) \/ WriteMedia(i) \/ MediaFails(i) \/ FinishMedia(i)

Push ==
    \/ \E i \in Pushes :
           \/ AskPush(i) \/ StartPush(i) \/ SendChunk(i) \/ SendFails(i) \/ FinishPush(i)
    \/ \E d \in Devices : Register(d) \/ Unregister({d})
    \/ Unregister(Devices)
    \/ \E b \in BOOLEAN : SetMute(b)

Queue == \E i \in Requests : AddSettles(i) \/ ApiCrash(i)

Next == Media \/ Push \/ Queue \/ MediaWorkerCrash \/ PushWorkerCrash

Spec == Init /\ [][Next]_vars

\* The media worker takes a waiting job, and its processor, which awaits
\* nothing, ends.  Nothing is assumed of Expo, which may keep a push waiting.
FairSpec ==
    /\ Spec
    /\ \A i \in Uploads : /\ WF_vars(ReadMedia(i))
                          /\ WF_vars(WriteMedia(i) \/ MediaFails(i))
                          /\ WF_vars(FinishMedia(i))

-----------------------------------------------------------------------------
(* Properties.                                                             *)

\* The three stores agree in one direction, whatever is cut off or fails: an
\* answered upload has its row, a row its object, and a job finds its row
\* (filesV2.js:37).  The other direction does not hold: objects are left behind.
NothingDangles ==
    \A i \in Uploads :
        /\ request[i] = "answered" => meta[i] # NoRow
        /\ meta[i] # NoRow => i \in objects
        /\ job[i].at # "none" => meta[i] # NoRow

\* A preview job, run once or several times, leaves the owner's encryption
\* metadata as last accepted, except when it is replaced between the SELECT and
\* the UPDATE of the job (mediaWorker.js:20); and the file's storage, which
\* signed-url needs, is lost only by a replacement (privacy.js:58).
MetadataIsKept ==
    \A i \in Uploads :
        meta[i] # NoRow => /\ i \notin raced => meta[i].keys = latest[i]
                           /\ i \notin replaced => meta[i].storage

\* A push that fails half-way is sent again from the beginning, but to no device
\* more often than there are attempts and stalls (pushWorker.js:30).
BoundedPushes ==
    \A i \in Pushes : \A d \in Devices : pushed[i][d] <= MaxAttempts + crashes

\* A push job that is done has reached every device with an Expo token that has
\* been registered, and not muted, since the push was asked for: no chunk is
\* forgotten over failures, retries, stalls and changes of other devices.  This
\* is with the SDK installed: without it, and for devices with other tokens, a
\* job is done that has reached nobody (pushWorker.js:16).
DoneReachesSteady ==
    \A i \in Pushes : \A d \in Sendable(steady[i]) : job[i].at = "done" => pushed[i][d] >= 1

\* Whoever mutes or unregisters a device hears no more than the run under way
\* has left: later attempts ask again (docs/PRODUCTION_RUNBOOK.md:39).
WithdrawnStaysQuiet ==
    [][\A i \in Pushes : \A d \in Devices :
           pushed'[i][d] # pushed[i][d] => \/ d \in tokens /\ ~muted
                                          \/ d \in withdrawn[i]]_vars

\* Every preview job is settled, though the worker dies and pushes hang.
PreviewsSettle ==
    \A i \in Uploads :
        job[i].at \in {"waiting", "active"} ~> job[i].at \in {"done", "failed"}

=============================================================================
