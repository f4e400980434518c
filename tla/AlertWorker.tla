----------------------------- MODULE AlertWorker -----------------------------
(***************************************************************************)
(* The detection -> watchlist match -> alert pipeline of                   *)
(* backend/alert_worker.py: the Redis stream `detection_events` with its   *)
(* consumer group, the worker task that runs inside the alert service, and *)
(* the Postgres tables it writes.  The registry and watchlist services     *)
(* edit cameras and watchlist rows while the worker runs; Redis, Postgres  *)
(* and the service's process may fail between any two awaits of the worker.*)
(*                                                                         *)
(* An event is named by its position in the stream: Redis gives entries    *)
(* increasing ids and XADD is the only writer, so event e is the e-th      *)
(* XADD since the installation.                                            *)
(***************************************************************************)
EXTENDS Integers

CONSTANTS
    MaxEvents,      \* bound on the events ever published
    BatchSize,      \* COUNT of XREADGROUP
    MaxLen,         \* MAXLEN of XADD
    Cameras,        \* camera ids that are UUIDs
    NoCamera,       \* a camera_id that is empty or no UUID
    Plates,         \* normalised plates of at least 6 characters
    NoPlate,        \* no plate, or one of fewer than 6 characters
    Entries,        \* ids of 'vehicle' watchlist rows
    NoEntry,        \* no watchlist row
    CameraOf,       \* event -> its camera_id field
    PlateOf,        \* event -> its normalised plate_number field
    EntryPlate,     \* watchlist row -> its plate_normalized
    FaultKinds,     \* the faults explored: {"redis", "db", "stream", "crash"}
    MaxFaults,      \* bound on the faults of a behaviour
    MaxEdits        \* bound on the operators' edits of a behaviour

Ids == 1..MaxEvents

ASSUME BoundsAssumption ==
    /\ MaxEvents \in Nat
    /\ BatchSize \in Nat \ {0}
    /\ MaxLen \in Nat \ {0}
    /\ MaxFaults \in Nat
    /\ MaxEdits \in Nat

ASSUME FieldsAssumption ==
    /\ NoCamera \notin Cameras
    /\ NoPlate \notin Plates
    /\ NoEntry \notin Entries
    /\ CameraOf \in [Ids -> Cameras \cup {NoCamera}]
    /\ PlateOf \in [Ids -> Plates \cup {NoPlate}]
    /\ EntryPlate \in [Entries -> Plates]

VARIABLES
    \* Redis
    published,      \* number of XADDs so far: the last id of the stream
    first,          \* id of the oldest entry the stream still holds
    group,          \* does the consumer group exist?
    cursor,         \* the group's last-delivered-id
    pel,            \* the group's pending entries: delivered, not acknowledged
    redisUp,
    \* Postgres
    cameras,        \* rows of cameras
    watch,          \* state of each watchlist row
    detections,     \* event -> rows of detections it produced
    alerts,         \* event -> watchlist row -> rows of alerts they produced
    dbUp,
    \* the worker task
    pc,
    cur,            \* the message process_detection works on (0: none)
    last,           \* the last message of the batch
    matches,        \* watchlist rows still to be alerted on
    match,          \* the row whose alert is being published
    \* ghosts
    handled,        \* events on which process_detection has returned
    announced,      \* event -> rows whose alert went out on ws_broadcast
    touched,        \* cameras and watchlist rows edited since Init
    disturbed,      \* events during whose processing Postgres was away, or
                    \* whose camera was deleted after the lookup
    abandoned,      \* events given to the worker that a crash or a failure of
                    \* Redis kept it from processing
    faults, edits   \* counters for the bounds

redisVars  == <<published, first, group, cursor, pel, redisUp>>
dbVars     == <<cameras, watch, detections, alerts, dbUp>>
workerVars == <<pc, cur, last, matches, match>>
marks      == <<disturbed, abandoned>>
ghostVars  == <<handled, announced, touched, marks, faults, edits>>
vars == <<redisVars, dbVars, workerVars, ghostVars>>

Processing == {"camera", "provision", "store"}         \* before the detection's commit
Alerting   == {"match", "alert", "announce"}           \* after it
LookedUp   == {"store"} \cup Alerting                   \* its INSERTs refer to the camera's row
InBatch    == Processing \cup Alerting \cup {"ack"}
PCs == {"down", "start", "subscribe", "dead", "poll", "sleep"} \cup InBatch

RowStates == {"absent", "active", "inactive", "deleted"}

RedisTypeOK ==
    /\ published \in 0..MaxEvents
    /\ first \in 1..(MaxEvents + 1)
    /\ cursor \in 0..MaxEvents
    /\ pel \in SUBSET Ids

FlagTypeOK == group \in BOOLEAN /\ redisUp \in BOOLEAN /\ dbUp \in BOOLEAN

DbTypeOK ==
    /\ cameras \in SUBSET Cameras
    /\ watch \in [Entries -> RowStates]
    /\ detections \in [Ids -> Nat]
    /\ alerts \in [Ids -> [Entries -> Nat]]

WorkerTypeOK ==
    /\ pc \in PCs
    /\ cur \in 0..MaxEvents
    /\ last \in 0..MaxEvents
    /\ matches \in SUBSET Entries
    /\ match \in Entries \cup {NoEntry}
    /\ pc \in InBatch => cur \in Ids
    /\ pc = "announce" => match \in Entries
    /\ pc \in {"provision", "store"} => CameraOf[cur] \in Cameras

GhostTypeOK ==
    /\ handled \in SUBSET Ids
    /\ announced \in [Ids -> SUBSET Entries]
    /\ touched \in SUBSET (Entries \cup Cameras)
    /\ disturbed \in SUBSET Ids
    /\ abandoned \in SUBSET Ids
    /\ faults \in Nat
    /\ edits \in Nat

TypeOK == FlagTypeOK /\ RedisTypeOK /\ DbTypeOK /\ WorkerTypeOK /\ GhostTypeOK

Init ==
    /\ published = 0
    /\ first = 1
    /\ group = FALSE
    /\ cursor = 0
    /\ pel = {}
    /\ redisUp = TRUE
    /\ cameras \in SUBSET Cameras
    /\ watch \in [Entries -> {"absent", "active"}]
    /\ detections = [e \in Ids |-> 0]
    /\ alerts = [e \in Ids |-> [w \in Entries |-> 0]]
    /\ dbUp = TRUE
    /\ pc = "start"
    /\ cur = 0
    /\ last = 0
    /\ matches = {}
    /\ match = NoEntry
    /\ handled = {}
    /\ announced = [e \in Ids |-> {}]
    /\ touched = {}
    /\ disturbed = {}
    /\ abandoned = {}
    /\ faults = 0
    /\ edits = 0

-----------------------------------------------------------------------------
(***************************************************************************)
(* Redis.                                                                  *)
(***************************************************************************)

\* Mutant of NextId: the last delivered entry is delivered again.
NextIdRereads == IF cursor > first THEN cursor ELSE first

\* The id from which XREADGROUP with ">" delivers.
NextId == IF cursor + 1 > first THEN cursor + 1 ELSE first

Queued(e) == NextId <= e /\ e <= published

\* The last id of the batch that XREADGROUP COUNT BatchSize returns.
BatchEnd == IF NextId + BatchSize - 1 < published THEN NextId + BatchSize - 1
                                                  ELSE published

\* XADD, by the AI service or the demo seeder, with an approximate MAXLEN (the
\* smaller of theirs where they differ): the server may keep more entries than
\* MaxLen, never fewer, and recreates a stream that was lost.
Publish ==
    /\ redisUp
    /\ published < MaxEvents
    /\ published' = published + 1
    /\ \E f \in first..(MaxEvents + 1) :
          /\ f > first => published' - f + 1 >= MaxLen
          /\ first' = f
    /\ UNCHANGED <<group, cursor, pel, redisUp, dbVars, workerVars, ghostVars>>

-----------------------------------------------------------------------------
(***************************************************************************)
(* The worker task, one action per await.                                  *)
(***************************************************************************)

LeaveBatch(next) ==
    /\ pc' = next
    /\ cur' = 0
    /\ last' = 0
    /\ matches' = {}
    /\ match' = NoEntry

\* process_detection returns, normally or through its except clause: the
\* loop goes on to XACK either way.
Finish ==
    /\ pc' = "ack"
    /\ matches' = {}
    /\ match' = NoEntry
    /\ handled' = handled \cup {cur}
    /\ UNCHANGED <<cur, last>>

Goto(next) == pc' = next /\ UNCHANGED <<cur, last, matches, match>>

\* What the ghosts record: process_detection meets a failure of Postgres, or
\* the worker is kept from processing the events of S.
Disturb(S) == disturbed' = disturbed \cup S /\ UNCHANGED abandoned

Abandon(S) == abandoned' = abandoned \cup (S \ handled) /\ UNCHANGED disturbed

Begin(e) == Disturb(IF dbUp THEN {} ELSE {e})

\* Mutant of GroupStart: every start of the task sets the group back.
GroupStartAlwaysZero == 0

\* BUSYGROUP leaves an existing group where it is; a new one starts at id 0.
GroupStart == IF group THEN cursor ELSE 0

\* ensure_consumer_group: XGROUP CREATE ... 0 MKSTREAM, BUSYGROUP ignored.  The
\* call is outside run_worker's try, so a failure ends the task.
EnsureConsumerGroup ==
    /\ pc = "start"
    /\ \/ /\ redisUp
          /\ group' = TRUE
          /\ cursor' = GroupStart
          /\ Goto("subscribe")
       \/ /\ ~redisUp
          /\ Goto("dead")
          /\ UNCHANGED <<group, cursor>>
    /\ UNCHANGED <<published, first, pel, redisUp, dbVars, ghostVars>>

Subscribe ==
    /\ pc = "subscribe"
    /\ Goto(IF redisUp THEN "poll" ELSE "dead")
    /\ UNCHANGED <<redisVars, dbVars, ghostVars>>

\* XREADGROUP ">" answers with new entries: the group's cursor moves and the batch becomes pending.
CanDeliver == redisUp /\ group /\ NextId <= published

Deliver ==
    /\ CanDeliver
    /\ cursor' = BatchEnd
    /\ pel' = pel \cup NextId..BatchEnd
    /\ UNCHANGED <<published, first, group>>

Poll ==
    /\ pc = "poll"
    /\ Deliver
    /\ cur' = NextId
    /\ last' = BatchEnd
    /\ pc' = "camera"
    /\ Begin(NextId)
    /\ UNCHANGED <<matches, match, redisUp, dbVars, handled, announced, touched, faults, edits>>

\* Redis is away, or answers NOGROUP: the loop logs and sleeps 5 s.
PollError ==
    /\ pc = "poll"
    /\ ~redisUp \/ ~group
    /\ Goto("sleep")
    /\ UNCHANGED <<redisVars, dbVars, ghostVars>>

WakeUp ==
    /\ pc = "sleep"
    /\ Goto("poll")
    /\ UNCHANGED <<redisVars, dbVars, ghostVars>>

\* get_or_create_camera_info: the SELECT.  A camera_id that is no UUID fails
\* its CAST here or, when empty, in the INSERT of store_detection.
LookupCamera ==
    /\ pc = "camera"
    /\ IF dbUp /\ CameraOf[cur] # NoCamera
       THEN /\ Goto(IF CameraOf[cur] \in cameras THEN "store" ELSE "provision")
            /\ UNCHANGED handled
       ELSE Finish
    /\ UNCHANGED <<redisVars, dbVars, announced, touched, marks, faults, edits>>

\* Mutant of ProvisionCamera: the row is never inserted.
ProvisionCameraForgotten ==
    /\ pc = "provision"
    /\ Goto("store")
    /\ UNCHANGED <<redisVars, dbVars, ghostVars>>

\* get_or_create_camera_info: the INSERT ... ON CONFLICT DO NOTHING, whose
\* failure is logged and rolled back only.
ProvisionCamera ==
    /\ pc = "provision"
    /\ cameras' = IF dbUp THEN cameras \cup {CameraOf[cur]} ELSE cameras
    /\ Goto("store")
    /\ UNCHANGED <<redisVars, watch, detections, alerts, dbUp, ghostVars>>

\* The INSERT and commit of store_detection; the foreign key refuses a camera
\* that was deleted since the lookup.
InsertDetection ==
    /\ dbUp
    /\ CameraOf[cur] \in cameras
    /\ detections' = [detections EXCEPT ![cur] = @ + 1]

StoreDetection ==
    /\ pc = "store"
    /\ \/ /\ InsertDetection
          /\ IF PlateOf[cur] # NoPlate THEN Goto("match") /\ UNCHANGED handled
                                       ELSE Finish
       \/ /\ ~dbUp \/ CameraOf[cur] \notin cameras
          /\ Finish
          /\ UNCHANGED detections
    /\ UNCHANGED <<redisVars, cameras, watch, alerts, dbUp, announced, touched, marks, faults, edits>>

\* Mutants of Matching: a query without its plate condition; one that returns a single row.
MatchingAnyPlate(plate) == {w \in Entries : watch[w] = "active"}

MatchingOne(plate) ==
    LET rows == {w \in Entries : watch[w] = "active" /\ EntryPlate[w] = plate}
    IN  IF rows = {} THEN {} ELSE {CHOOSE w \in rows : TRUE}

\* The rows of match_watchlist's query.
Matching(plate) == {w \in Entries : watch[w] = "active" /\ EntryPlate[w] = plate}

MatchWatchlist ==
    /\ pc = "match"
    /\ IF dbUp /\ Matching(PlateOf[cur]) # {}
       THEN /\ pc' = "alert"
            /\ matches' = Matching(PlateOf[cur])
            /\ UNCHANGED <<cur, last, match, handled>>
       ELSE Finish
    /\ UNCHANGED <<redisVars, dbVars, announced, touched, marks, faults, edits>>

\* The INSERT and commit of create_alert for one of the matches, in the order
\* the query returned them.  The foreign keys refuse a watchlist row, and a
\* camera, deleted since.
InsertAlert(w) ==
    /\ dbUp
    /\ watch[w] # "deleted"
    /\ CameraOf[cur] \in cameras
    /\ alerts' = [alerts EXCEPT ![cur][w] = @ + 1]

CreateAlert ==
    /\ pc = "alert"
    /\ \E w \in matches :
          \/ /\ InsertAlert(w)
             /\ pc' = "announce"
             /\ match' = w
             /\ matches' = matches \ {w}
             /\ UNCHANGED <<cur, last, handled>>
          \/ /\ ~dbUp \/ watch[w] = "deleted" \/ CameraOf[cur] \notin cameras
             /\ Finish
             /\ UNCHANGED alerts
    /\ UNCHANGED <<redisVars, cameras, watch, detections, dbUp, announced, touched, marks, faults, edits>>

\* ws_broadcast: PUBLISH of the alert just committed.  Its failure is caught
\* by process_detection and gives up the matches that are left.
Announce ==
    /\ pc = "announce"
    /\ announced' = IF redisUp THEN [announced EXCEPT ![cur] = @ \cup {match}] ELSE announced
    /\ IF redisUp /\ matches # {}
       THEN /\ pc' = "alert"
            /\ match' = NoEntry
            /\ UNCHANGED <<cur, last, matches, handled>>
       ELSE Finish
    /\ UNCHANGED <<redisVars, dbVars, touched, marks, faults, edits>>

\* Mutant of Acked: the whole rest of the batch.
AckedRest == cur..last

Acked == {cur}

\* Mutant of MoreInBatch: the last message of a batch is skipped.
MoreInBatchShort == cur + 1 < last

MoreInBatch == cur < last

\* XACK, and on to the next message of the batch.  If Redis is away the
\* exception leaves the for loops: the rest of the batch is not looked at.
Acknowledge ==
    /\ pc = "ack"
    /\ IF redisUp
       THEN /\ pel' = pel \ Acked
            /\ IF MoreInBatch
               THEN /\ pc' = "camera" /\ cur' = cur + 1 /\ UNCHANGED <<last, matches, match>>
                    /\ Begin(cur + 1)
               ELSE LeaveBatch("poll") /\ UNCHANGED marks
       ELSE LeaveBatch("sleep") /\ Abandon(cur..last) /\ UNCHANGED pel
    /\ UNCHANGED <<published, first, group, cursor, redisUp, dbVars,
                   handled, announced, touched, faults, edits>>

Worker ==
    \/ EnsureConsumerGroup \/ Subscribe
    \/ Poll \/ PollError \/ WakeUp
    \/ LookupCamera \/ ProvisionCamera \/ StoreDetection
    \/ MatchWatchlist \/ CreateAlert \/ Announce \/ Acknowledge

-----------------------------------------------------------------------------
(***************************************************************************)
(* The operators, through the registry and watchlist services.             *)
(***************************************************************************)

Edit(row) ==
    /\ dbUp
    /\ edits < MaxEdits
    /\ edits' = edits + 1
    /\ touched' = touched \cup {row}
    /\ UNCHANGED <<redisVars, detections, alerts, dbUp, workerVars,
                   handled, announced, faults>>

\* delete_camera of the registry.  create_camera only adds fresh ids, which no
\* event of the stream bears yet.
DeleteCamera(c) ==
    /\ c \in cameras
    /\ cameras' = cameras \ {c}
    /\ Edit(c)
    /\ Disturb(IF pc \in LookedUp /\ CameraOf[cur] = c THEN {cur} ELSE {})
    /\ UNCHANGED watch

RowSteps == {<<"absent", "active">>, <<"active", "inactive">>, <<"inactive", "active">>,
             <<"active", "deleted">>, <<"inactive", "deleted">>}

\* create_watchlist, update_watchlist (is_active) and delete_watchlist: ids
\* are serial, a deleted row never comes back.
EditWatchlist(w) ==
    /\ \E s \in RowStates :
          /\ <<watch[w], s>> \in RowSteps
          /\ watch' = [watch EXCEPT ![w] = s]
    /\ Edit(w)
    /\ UNCHANGED <<cameras, marks>>

Operators ==
    \/ \E c \in Cameras : DeleteCamera(c)
    \/ \E w \in Entries : EditWatchlist(w)

-----------------------------------------------------------------------------
(***************************************************************************)
(* Faults, at most MaxFaults of them, and what ends them.                  *)
(***************************************************************************)

Fault(kind) ==
    /\ kind \in FaultKinds
    /\ faults < MaxFaults
    /\ faults' = faults + 1

RedisFails ==
    /\ redisUp
    /\ Fault("redis")
    /\ redisUp' = FALSE
    /\ UNCHANGED <<published, first, group, cursor, pel, dbVars, workerVars,
                   handled, announced, touched, marks, edits>>

\* Redis executes XREADGROUP but the connection breaks before the reply.
PollReplyLost ==
    /\ pc = "poll"
    /\ Fault("redis")
    /\ Deliver
    /\ redisUp' = FALSE
    /\ Goto("sleep")
    /\ Abandon(NextId..BatchEnd)
    /\ UNCHANGED <<dbVars, handled, announced, touched, edits>>

\* The stream's key is evicted (allkeys-lru) or its volume is lost: entries,
\* group and pending entries go with it.
StreamLost ==
    /\ Fault("stream")
    /\ first' = published + 1
    /\ group' = FALSE
    /\ cursor' = 0
    /\ pel' = {}
    /\ UNCHANGED <<published, redisUp, dbVars, workerVars, handled, announced, touched, marks, edits>>

DbFails ==
    /\ dbUp
    /\ Fault("db")
    /\ dbUp' = FALSE
    /\ Disturb(IF pc \in InBatch THEN {cur} ELSE {})
    /\ UNCHANGED <<redisVars, cameras, watch, detections, alerts, workerVars,
                   handled, announced, touched, edits>>

\* Postgres commits but the connection breaks before the reply.
StoreReplyLost ==
    /\ pc = "store"
    /\ Fault("db")
    /\ InsertDetection
    /\ dbUp' = FALSE
    /\ Finish
    /\ Disturb({cur})
    /\ UNCHANGED <<redisVars, cameras, watch, alerts, announced, touched, edits>>

AlertReplyLost ==
    /\ pc = "alert"
    /\ Fault("db")
    /\ \E w \in matches : InsertAlert(w)
    /\ dbUp' = FALSE
    /\ Finish
    /\ Disturb({cur})
    /\ UNCHANGED <<redisVars, cameras, watch, detections, announced, touched, edits>>

\* The service's process ends, whatever the worker task is doing.
Crash ==
    /\ pc # "down"
    /\ Fault("crash")
    /\ LeaveBatch("down")
    /\ Abandon(IF pc \in InBatch THEN cur..last ELSE {})
    /\ UNCHANGED <<redisVars, dbVars, handled, announced, touched, edits>>

Faults ==
    \/ RedisFails \/ PollReplyLost \/ StreamLost
    \/ DbFails \/ StoreReplyLost \/ AlertReplyLost
    \/ Crash

RedisRecovers ==
    /\ ~redisUp
    /\ redisUp' = TRUE
    /\ UNCHANGED <<published, first, group, cursor, pel, dbVars, workerVars, ghostVars>>

DbRecovers ==
    /\ ~dbUp
    /\ dbUp' = TRUE
    /\ UNCHANGED <<redisVars, cameras, watch, detections, alerts, workerVars, ghostVars>>

\* restart: unless-stopped restarts a process that ended.
Restart ==
    /\ pc = "down"
    /\ Goto("start")
    /\ UNCHANGED <<redisVars, dbVars, ghostVars>>

Recovery == RedisRecovers \/ DbRecovers \/ Restart

-----------------------------------------------------------------------------

Next == Publish \/ Worker \/ Operators \/ Faults \/ Recovery

\* The worker's task is always scheduled again, a stopped container is
\* restarted, and an outage ends; publishers, operators and faults owe nothing.
Fairness ==
    /\ WF_vars(Worker)
    /\ WF_vars(RedisRecovers)
    /\ WF_vars(DbRecovers)
    /\ WF_vars(Restart)

Spec == Init /\ [][Next]_vars
FairSpec == Spec /\ Fairness

-----------------------------------------------------------------------------
(***************************************************************************)
(* What holds.                                                             *)
(***************************************************************************)

\* The worker may still store event e: it is, or follows, the current one.
ToStore(e) == \/ pc \in Processing /\ e = cur
              \/ pc \in InBatch /\ cur < e /\ e <= last

\* Each event produces at most one row of detections, and at most one alert
\* per watchlist row, whatever is redelivered, retried or restarted: no table
\* has a key that would refuse the second INSERT.
AtMostOnce ==
    /\ \A e \in Ids : detections[e] <= 1
    /\ \A e \in Ids, w \in Entries : alerts[e][w] <= 1

\* An alert refers to a stored detection that bears the plate of its watchlist
\* row, and clients are only told of alerts that are committed.
AlertsGrounded ==
    /\ \A e \in Ids, w \in Entries :
          alerts[e][w] > 0 => detections[e] > 0 /\ EntryPlate[w] = PlateOf[e]
    /\ \A e \in Ids, w \in Entries : w \in announced[e] => alerts[e][w] > 0

\* The inductive invariant behind the theorems of AlertWorkerProofs: where the
\* stream's read position, the worker's batch and the tables stand to each
\* other between any two steps.
StreamInv ==
    /\ first <= published + 1
    /\ cursor <= published
    /\ ~group => cursor = 0 /\ pel = {}
    /\ pel \subseteq 1..cursor

BatchInv == pc \in InBatch => cur <= last /\ last < NextId

\* Nothing at or beyond the read position, nor beyond the current message, has
\* been stored; the current one is stored once its commit has returned.
StoredInv ==
    /\ \A e \in Ids : detections[e] > 0 => /\ e < NextId
                                           /\ pc \in InBatch => e <= cur
                                           /\ pc \in Processing => e < cur
    /\ pc \in Alerting => detections[cur] > 0

\* The matches still to be alerted on bear the current plate and have no alert.
MatchInv ==
    /\ pc = "match" => \A w \in Entries : alerts[cur][w] = 0
    /\ pc \in {"alert", "announce"} =>
          \A w \in matches : EntryPlate[w] = PlateOf[cur] /\ alerts[cur][w] = 0
    /\ pc = "announce" => alerts[cur][match] > 0

\* What is about to be acknowledged has been processed.
HandledInv == pc = "ack" => cur \in handled

IInv ==
    /\ TypeOK
    /\ StreamInv
    /\ BatchInv
    /\ StoredInv
    /\ MatchInv
    /\ HandledInv
    /\ AtMostOnce
    /\ AlertsGrounded

\* An event that was processed without leaving a detection had no valid
\* camera_id, or Postgres was away while that very event was processed, or its
\* camera was deleted between its lookup and its INSERT.  Failures of Redis,
\* restarts, outages of Postgres during other events and all other edits, the
\* deletion of the camera before the lookup included, never cost a detection
\* that was being processed.
HandledIsStored ==
    \A e \in handled : detections[e] = 0 => CameraOf[e] = NoCamera \/ e \in disturbed

\* Without faults, a processed plate has an announced alert for every
\* watchlist row with that plate that was active all along, even while other
\* rows and cameras are edited.  The exceptions are the two deletions whose
\* foreign key fails an INSERT and with it gives up the matches that are left:
\* of another row the plate matches, and of the event's camera between its
\* lookup and the last of the event's INSERTs.
AlertsComplete ==
    \A e \in handled, w \in Entries \ touched :
        ( /\ faults = 0
          /\ CameraOf[e] # NoCamera /\ e \notin disturbed
          /\ watch[w] = "active" /\ EntryPlate[w] = PlateOf[e]
          /\ \A x \in Entries : EntryPlate[x] = PlateOf[e] => watch[x] # "deleted" )
        => alerts[e][w] = 1 /\ w \in announced[e]

\* An event leaves the pending list when the worker has processed it, or with
\* the whole group: what a crash interrupts can still be found in Redis.
AckAfterHandling ==
    [][\A e \in pel \ pel' : e \in handled \/ ~group']_vars

\* Detections are stored in the order of the stream.
StoredInOrder ==
    [][\A d, e \in Ids : d < e /\ detections'[d] # detections[d] => detections[e] = 0]_vars

\* The pipeline implements EventFate.
FateOf(e) ==
    IF published < e THEN "unpublished"
    ELSE IF detections[e] > 0 THEN "stored"
    ELSE IF NextId <= e THEN "queued"
    ELSE IF ToStore(e) THEN "taken"
    ELSE "lost"

Fate == INSTANCE EventFate WITH fate <- [e \in Ids |-> FateOf(e)]

RefinesEventFate == Fate!Spec

\* Every event that enters the stream is processed, while operators edit and
\* Postgres, Redis or the process fails and comes back, with three exceptions:
\* MAXLEN trims it first; the worker was given it, alone or in a batch, and a
\* failure of Redis or a crash cut that batch off before its turn; or the
\* task met Redis away at its start and is dead.  An event that was not yet
\* given out is never one a failure costs.
EventuallyHandled ==
    \A e \in Ids : Queued(e) ~>
        (e \in handled \/ e < first \/ e \in abandoned \/ pc = "dead")

-----------------------------------------------------------------------------
(***************************************************************************)
(* What the repository says and the code does not do.                      *)
(***************************************************************************)

\* docs/DISASTER_RECOVERY.md:142: the worker re-reads from the last
\* acknowledged id, so no event is silently dropped once Redis returns.
NoEventDropped ==
    \A e \in Ids : (Queued(e) /\ CameraOf[e] # NoCamera) ~>
                     (detections[e] > 0 \/ e < first \/ pc = "dead")

=============================================================================
