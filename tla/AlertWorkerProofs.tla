-------------------------- MODULE AlertWorkerProofs --------------------------
(***************************************************************************)
(* Proofs about AlertWorker, for every number of events, cameras, watchlist*)
(* rows, faults and edits.                                                 *)
(***************************************************************************)
EXTENDS AlertWorker, TLAPS

USE DEF Ids, PCs, InBatch, Processing, Alerting, RowStates,
        vars, redisVars, dbVars, workerVars, ghostVars, marks

-----------------------------------------------------------------------------
(***************************************************************************)
(* Counters kept in functions.                                             *)
(***************************************************************************)

LEMMA CountOne ==
    ASSUME NEW S, NEW f \in [S -> Nat], NEW x \in S
    PROVE  [f EXCEPT ![x] = @ + 1] \in [S -> Nat]
OBVIOUS

LEMMA CountTwo ==
    ASSUME NEW S, NEW T, NEW f \in [S -> [T -> Nat]], NEW x \in S, NEW y \in T
    PROVE  [f EXCEPT ![x][y] = @ + 1] \in [S -> [T -> Nat]]
OBVIOUS

-----------------------------------------------------------------------------
(***************************************************************************)
(* What a step of any kind does to the tables and to the stream.           *)
(***************************************************************************)

\* Detections are only written by the commit of store_detection, for the
\* current event.
LEMMA DetectionsStep ==
    ASSUME [Next]_vars
    PROVE  \/ detections' = detections
           \/ InsertDetection /\ pc = "store" /\ cur' = cur
              /\ pc' \in {"match", "ack"} /\ UNCHANGED <<published, first, cursor, last, alerts>>
BY DEF Next, Publish, Worker, EnsureConsumerGroup, Subscribe, Poll, Deliver, PollError,
       WakeUp, LookupCamera, ProvisionCamera, StoreDetection, MatchWatchlist, CreateAlert,
       Announce, Acknowledge, Operators, DeleteCamera, EditWatchlist, Edit, Faults,
       RedisFails, PollReplyLost, StreamLost, DbFails, StoreReplyLost, AlertReplyLost, Crash,
       Recovery, RedisRecovers, DbRecovers, Restart, Finish, Goto, LeaveBatch

LEMMA AlertsStep ==
    ASSUME [Next]_vars
    PROVE  \/ alerts' = alerts
           \/ \E w \in matches : InsertAlert(w) /\ pc = "alert" /\ cur' = cur
              /\ \/ pc' = "announce" /\ match' = w /\ matches' = matches \ {w}
                 \/ pc' = "ack" /\ matches' = {}
              /\ UNCHANGED <<published, first, cursor, last, detections>>
BY DEF Next, Publish, Worker, EnsureConsumerGroup, Subscribe, Poll, Deliver, PollError,
       WakeUp, LookupCamera, ProvisionCamera, StoreDetection, MatchWatchlist, CreateAlert,
       Announce, Acknowledge, Operators, DeleteCamera, EditWatchlist, Edit, Faults,
       RedisFails, PollReplyLost, StreamLost, DbFails, StoreReplyLost, AlertReplyLost, Crash,
       Recovery, RedisRecovers, DbRecovers, Restart, Finish, Goto, LeaveBatch

\* The worker's control: what a step that changes pc or cur may do.
LEMMA WorkerStep ==
    ASSUME [Next]_vars
    PROVE  \/ UNCHANGED workerVars
           \/ Poll
           \/ /\ pc' \notin InBatch
              /\ cur' = 0 \/ (pc \notin InBatch /\ cur' = cur)
              /\ last' = 0 \/ (pc \notin InBatch /\ last' = last)
              /\ matches' = {} \/ (pc \notin InBatch /\ matches' = matches)
              /\ match' = NoEntry \/ (pc \notin InBatch /\ match' = match)
           \/ /\ pc \in InBatch /\ pc' \in InBatch
              /\ cur' = cur /\ last' = last
              /\ pc \in {"camera", "provision"} => pc' \in {"provision", "store", "ack"}
              /\ pc = "store" => pc' = "ack" \/ (pc' = "match" /\ InsertDetection)
              /\ pc = "match" => pc' \in {"alert", "ack"}
              /\ pc \in {"alert", "announce"} => pc' \in {"alert", "announce", "ack"}
              /\ pc # "ack"
           \/ pc = "ack" /\ pc' = "camera" /\ cur' = cur + 1 /\ cur < last /\ last' = last
<1>1. CASE Publish
    BY <1>1 DEF Publish
<1>2. CASE Worker
    <2>1. CASE EnsureConsumerGroup \/ Subscribe \/ PollError \/ WakeUp
        BY <2>1 DEF EnsureConsumerGroup, Subscribe, PollError, WakeUp, Goto
    <2>2. CASE LookupCamera \/ ProvisionCamera
        BY <2>2 DEF LookupCamera, ProvisionCamera, Goto, Finish
    <2>3. CASE StoreDetection
        BY <2>3 DEF StoreDetection, Goto, Finish
    <2>4. CASE MatchWatchlist
        BY <2>4 DEF MatchWatchlist, Finish
    <2>5. CASE CreateAlert
        BY <2>5 DEF CreateAlert, Finish
    <2>6. CASE Announce
        BY <2>6 DEF Announce, Finish
    <2>7. CASE Acknowledge
        BY <2>7 DEF Acknowledge, MoreInBatch, LeaveBatch
    <2> QED
        BY <1>2, <2>1, <2>2, <2>3, <2>4, <2>5, <2>6, <2>7 DEF Worker
<1>3. CASE Operators
    BY <1>3 DEF Operators, DeleteCamera, EditWatchlist, Edit
<1>4. CASE Faults
    <2>1. CASE RedisFails \/ StreamLost \/ DbFails
        BY <2>1 DEF RedisFails, StreamLost, DbFails
    <2>2. CASE PollReplyLost \/ Crash
        BY <2>2 DEF PollReplyLost, Crash, Goto, LeaveBatch
    <2>3. CASE StoreReplyLost \/ AlertReplyLost
        BY <2>3 DEF StoreReplyLost, AlertReplyLost, Finish
    <2> QED
        BY <1>4, <2>1, <2>2, <2>3 DEF Faults
<1>5. CASE Recovery
    BY <1>5 DEF Recovery, RedisRecovers, DbRecovers, Restart, Goto
<1>6. CASE UNCHANGED vars
    BY <1>6
<1> QED
    BY <1>1, <1>2, <1>3, <1>4, <1>5, <1>6 DEF Next

\* The stream and the group.
LEMMA StreamStep ==
    ASSUME [Next]_vars
    PROVE  \/ UNCHANGED <<published, first, group, cursor, pel>>
           \/ Publish \/ Deliver \/ StreamLost
           \/ /\ UNCHANGED <<published, first, pel>>
              /\ group' = TRUE
              /\ cursor' = GroupStart
           \/ UNCHANGED <<published, first, group, cursor>> /\ pc = "ack" /\ pel' = pel \ {cur}
BY DEF Next, Worker, EnsureConsumerGroup, Subscribe, Poll, PollError,
       WakeUp, LookupCamera, ProvisionCamera, StoreDetection, MatchWatchlist, CreateAlert,
       Announce, Acknowledge, Acked, Operators, DeleteCamera, EditWatchlist, Edit, Faults,
       RedisFails, PollReplyLost, DbFails, StoreReplyLost, AlertReplyLost, Crash,
       Recovery, RedisRecovers, DbRecovers, Restart

-----------------------------------------------------------------------------
(***************************************************************************)
(* Type correctness, group of variables by group of variables.             *)
(***************************************************************************)

LEMMA InitTypeOK == Init => TypeOK
<1> SUFFICES ASSUME Init PROVE TypeOK
    OBVIOUS
<1> USE BoundsAssumption DEF Init
<1>1. FlagTypeOK
    BY Zenon DEF FlagTypeOK
<1>2. RedisTypeOK
    BY DEF RedisTypeOK
<1>3. DbTypeOK
    BY DEF DbTypeOK
<1>4. WorkerTypeOK
    BY DEF WorkerTypeOK
<1>5. GhostTypeOK
    BY DEF GhostTypeOK
<1> QED
    BY <1>1, <1>2, <1>3, <1>4, <1>5 DEF TypeOK

LEMMA NextFlagTypeOK == FlagTypeOK /\ [Next]_vars => FlagTypeOK'
BY Zenon DEF FlagTypeOK, Next, Publish, Worker, EnsureConsumerGroup, Subscribe, Poll, Deliver, PollError,
       WakeUp, LookupCamera, ProvisionCamera, StoreDetection, MatchWatchlist, CreateAlert,
       Announce, Acknowledge, Operators, DeleteCamera, EditWatchlist, Edit, Faults, Fault,
       RedisFails, PollReplyLost, StreamLost, DbFails, StoreReplyLost, AlertReplyLost, Crash,
       Recovery, RedisRecovers, DbRecovers, Restart, Finish, Goto, LeaveBatch

LEMMA BatchRange ==
    ASSUME RedisTypeOK, StreamInv, CanDeliver
    PROVE  /\ NextId \in Ids /\ BatchEnd \in Ids
           /\ NextId <= BatchEnd /\ BatchEnd <= published
BY BoundsAssumption DEF RedisTypeOK, StreamInv, CanDeliver, NextId, BatchEnd

LEMMA NextRedisTypeOK == RedisTypeOK /\ StreamInv /\ [Next]_vars => RedisTypeOK' /\ StreamInv'
<1> SUFFICES ASSUME RedisTypeOK, StreamInv, [Next]_vars
             PROVE  RedisTypeOK' /\ StreamInv'
    OBVIOUS
<1> USE BoundsAssumption DEF RedisTypeOK, StreamInv
<1>1. CASE UNCHANGED <<published, first, group, cursor, pel>>
    BY <1>1
<1>2. CASE Publish
    BY <1>2 DEF Publish
<1>3. CASE Deliver
    <2>1. cursor' \in Ids /\ cursor' <= published
        BY <1>3, BatchRange DEF Deliver
    <2>2. pel' \subseteq 1..cursor'
        <3>1. cursor <= BatchEnd
            BY <1>3, BatchRange DEF Deliver, NextId
        <3> QED
            <4>1. NextId \in Ids /\ BatchEnd \in Ids /\ pel' = pel \cup NextId..BatchEnd /\ cursor' = BatchEnd
                BY <1>3, BatchRange DEF Deliver
            <4>2. NextId..BatchEnd \subseteq 1..BatchEnd /\ 1..cursor \subseteq 1..BatchEnd
                BY <3>1, <4>1
            <4> HIDE DEF StreamInv
            <4> QED
                BY <4>1, <4>2 DEF StreamInv
    <2> QED
        BY <1>3, <2>1, <2>2 DEF Deliver, CanDeliver
<1>4. CASE StreamLost
    BY <1>4 DEF StreamLost
<1>5. CASE UNCHANGED <<published, first, pel>> /\ group' = TRUE /\ cursor' = GroupStart
    BY <1>5 DEF GroupStart
<1>6. CASE UNCHANGED <<published, first, group, cursor>> /\ pel' = pel \ {cur}
    BY <1>6
<1> QED
    BY <1>1, <1>2, <1>3, <1>4, <1>5, <1>6, StreamStep

LEMMA NextDbTypeOK == TypeOK /\ [Next]_vars => DbTypeOK'
<1> SUFFICES ASSUME TypeOK, [Next]_vars
             PROVE  DbTypeOK'
    OBVIOUS
<1> USE DEF TypeOK, WorkerTypeOK, DbTypeOK
<1>1. detections' \in [Ids -> Nat]
    BY DetectionsStep, CountOne DEF InsertDetection
<1>2. alerts' \in [Ids -> [Entries -> Nat]]
    <2>1. CASE alerts' = alerts
        BY <2>1
    <2>2. ASSUME NEW w \in matches, InsertAlert(w), pc = "alert"
          PROVE  alerts' \in [Ids -> [Entries -> Nat]]
        <3>1. w \in Entries /\ cur \in Ids
            BY <2>2
        <3> QED
            BY <2>2, <3>1, CountTwo DEF InsertAlert
    <2> QED
        BY <2>1, <2>2, AlertsStep
<1>3. cameras' \in SUBSET Cameras
    <2>1. CASE ProvisionCamera
        BY <2>1 DEF ProvisionCamera
    <2> QED
        BY <2>1 DEF Next, Publish, Worker, EnsureConsumerGroup, Subscribe, Poll, Deliver, PollError,
       WakeUp, LookupCamera, StoreDetection, MatchWatchlist, CreateAlert,
       Announce, Acknowledge, Operators, DeleteCamera, EditWatchlist, Edit, Faults, Fault,
       RedisFails, PollReplyLost, StreamLost, DbFails, StoreReplyLost, AlertReplyLost, Crash,
       Recovery, RedisRecovers, DbRecovers, Restart, Finish, Goto, LeaveBatch
<1>4. watch' \in [Entries -> RowStates]
    BY DEF Next, Publish, Worker, EnsureConsumerGroup, Subscribe, Poll, Deliver, PollError,
       WakeUp, LookupCamera, ProvisionCamera, StoreDetection, MatchWatchlist, CreateAlert,
       Announce, Acknowledge, Operators, DeleteCamera, EditWatchlist, Edit, Faults, Fault,
       RedisFails, PollReplyLost, StreamLost, DbFails, StoreReplyLost, AlertReplyLost, Crash,
       Recovery, RedisRecovers, DbRecovers, Restart, Finish, Goto, LeaveBatch
<1> QED
    BY <1>1, <1>2, <1>3, <1>4

LEMMA NextWorkerTypeOK ==
    TypeOK /\ StreamInv /\ BatchInv /\ [Next]_vars => WorkerTypeOK'
<1> SUFFICES ASSUME TypeOK, StreamInv, BatchInv, [Next]_vars
             PROVE  WorkerTypeOK'
    OBVIOUS
<1> USE BoundsAssumption, FieldsAssumption DEF TypeOK, WorkerTypeOK
<1>1. CASE Poll
    BY <1>1, BatchRange DEF Poll, Deliver
<1>2. CASE Acknowledge
    BY <1>2 DEF Acknowledge, MoreInBatch, LeaveBatch, BatchInv
<1>3. CASE UNCHANGED workerVars
    BY <1>3
<1>4. CASE EnsureConsumerGroup \/ Subscribe \/ PollError \/ WakeUp \/ Restart
    BY <1>4 DEF EnsureConsumerGroup, Subscribe, PollError, WakeUp, Restart, Goto
<1>5. CASE LookupCamera \/ ProvisionCamera
    BY <1>5 DEF LookupCamera, ProvisionCamera, Goto, Finish
<1>6. CASE StoreDetection \/ StoreReplyLost
    BY <1>6 DEF StoreDetection, StoreReplyLost, Goto, Finish
<1>7. CASE MatchWatchlist
    BY <1>7 DEF MatchWatchlist, Matching, Finish
<1>8. CASE CreateAlert \/ AlertReplyLost
    BY <1>8 DEF CreateAlert, AlertReplyLost, Finish
<1>9. CASE Announce
    BY <1>9 DEF Announce, Finish
<1>10. CASE PollReplyLost \/ Crash
    BY <1>10 DEF PollReplyLost, Crash, Goto, LeaveBatch
<1> QED
    BY <1>1, <1>2, <1>3, <1>4, <1>5, <1>6, <1>7, <1>8, <1>9, <1>10
    DEF Next, Worker, Publish, Operators, DeleteCamera, EditWatchlist, Edit, Faults,
        RedisFails, StreamLost, DbFails, Recovery, RedisRecovers, DbRecovers

\* Who changes the ghosts `disturbed` and `abandoned`.
LEMMA MarksStep ==
    ASSUME [Next]_vars
    PROVE  \/ UNCHANGED marks
           \/ Poll /\ Begin(NextId)
           \/ Begin(cur + 1) /\ pc = "ack" /\ cur < last
           \/ Abandon(cur..last) /\ pc \in InBatch
           \/ Abandon(NextId..BatchEnd) /\ CanDeliver
           \/ Disturb({cur}) /\ pc \in InBatch
           \/ Disturb({}) \/ Abandon({})
<1>1. CASE Worker
    <2>1. CASE Poll
        BY <2>1 DEF Poll
    <2>2. CASE Acknowledge
        BY <2>2 DEF Acknowledge, MoreInBatch
    <2>3. CASE LookupCamera \/ StoreDetection \/ MatchWatchlist \/ CreateAlert \/ Announce
        BY <2>3 DEF LookupCamera, StoreDetection, MatchWatchlist, CreateAlert, Announce
    <2> QED
        BY <1>1, <2>1, <2>2, <2>3 DEF Worker, EnsureConsumerGroup, Subscribe, PollError, WakeUp, ProvisionCamera
<1>2. CASE Faults
    <2>1. CASE RedisFails \/ StreamLost
        BY <2>1 DEF RedisFails, StreamLost
    <2>2. CASE PollReplyLost
        BY <2>2 DEF PollReplyLost, Deliver
    <2>3. CASE DbFails \/ StoreReplyLost \/ AlertReplyLost
        BY <2>3 DEF DbFails, StoreReplyLost, AlertReplyLost
    <2>4. CASE Crash
        BY <2>4 DEF Crash
    <2> QED
        BY <1>2, <2>1, <2>2, <2>3, <2>4 DEF Faults
<1>3. CASE Operators
    BY <1>3 DEF Operators, DeleteCamera, EditWatchlist, LookedUp
<1>4. CASE Publish \/ Recovery \/ UNCHANGED vars
    BY <1>4 DEF Publish, Recovery, RedisRecovers, DbRecovers, Restart
<1> QED
    BY <1>1, <1>2, <1>3, <1>4 DEF Next

\* The ghosts `disturbed` and `abandoned` only grow.
LEMMA MarksGrow ==
    ASSUME [Next]_vars
    PROVE  disturbed \subseteq disturbed' /\ abandoned \subseteq abandoned'
BY MarksStep DEF Begin, Disturb, Abandon

LEMMA NextMarksTypeOK ==
    ASSUME TypeOK, StreamInv, [Next]_vars
    PROVE  disturbed' \in SUBSET Ids /\ abandoned' \in SUBSET Ids
<1> USE BoundsAssumption DEF TypeOK, GhostTypeOK, WorkerTypeOK
<1>1. CASE Poll /\ Begin(NextId)
    <2>1. NextId \in Ids
        BY <1>1, BatchRange DEF Poll, Deliver
    <2> QED
        BY <1>1, <2>1 DEF Begin, Disturb
<1>2. CASE Begin(cur + 1) /\ pc = "ack" /\ cur < last
    BY <1>2 DEF Begin, Disturb
<1>3. CASE Abandon(cur..last) /\ pc \in InBatch
    BY <1>3 DEF Abandon
<1>4. CASE Abandon(NextId..BatchEnd) /\ CanDeliver
    <2>1. NextId \in Ids /\ BatchEnd \in Ids
        BY <1>4, BatchRange
    <2>2. NextId..BatchEnd \subseteq Ids
        BY <2>1
    <2> QED
        BY <1>4, <2>2 DEF Abandon
<1>5. CASE Disturb({cur}) /\ pc \in InBatch
    BY <1>5 DEF Disturb
<1>6. CASE UNCHANGED marks \/ Disturb({}) \/ Abandon({})
    BY <1>6 DEF Disturb, Abandon
<1> QED
    BY <1>1, <1>2, <1>3, <1>4, <1>5, <1>6, MarksStep

LEMMA NextGhostTypeOK == TypeOK /\ StreamInv /\ [Next]_vars => GhostTypeOK'
<1> SUFFICES ASSUME TypeOK, StreamInv, [Next]_vars
             PROVE  GhostTypeOK'
    OBVIOUS
<1> USE DEF TypeOK, GhostTypeOK, WorkerTypeOK
<1>1. handled' \in SUBSET Ids
    BY DEF Next, Publish, Worker, EnsureConsumerGroup, Subscribe, Poll, Deliver, PollError,
       WakeUp, LookupCamera, ProvisionCamera, StoreDetection, MatchWatchlist, CreateAlert,
       Announce, Acknowledge, Operators, DeleteCamera, EditWatchlist, Edit, Faults, Fault,
       RedisFails, PollReplyLost, StreamLost, DbFails, StoreReplyLost, AlertReplyLost, Crash,
       Recovery, RedisRecovers, DbRecovers, Restart, Finish, Goto, LeaveBatch
<1>2. announced' \in [Ids -> SUBSET Entries]
    <2>1. CASE Announce
        BY <2>1 DEF Announce
    <2> QED
        BY <2>1 DEF Next, Publish, Worker, EnsureConsumerGroup, Subscribe, Poll, Deliver, PollError,
       WakeUp, LookupCamera, ProvisionCamera, StoreDetection, MatchWatchlist, CreateAlert,
       Acknowledge, Operators, DeleteCamera, EditWatchlist, Edit, Faults, Fault,
       RedisFails, PollReplyLost, StreamLost, DbFails, StoreReplyLost, AlertReplyLost, Crash,
       Recovery, RedisRecovers, DbRecovers, Restart, Finish, Goto, LeaveBatch
<1>3. touched' \in SUBSET (Entries \cup Cameras) /\ edits' \in Nat
    <2>1. CASE Operators
        <3>1. PICK row \in Entries \cup Cameras :
                touched' = touched \cup {row} /\ edits' = edits + 1
            BY <2>1 DEF Operators, DeleteCamera, EditWatchlist, Edit
        <3> QED
            BY <3>1
    <2>2. CASE ~Operators
        <3>1. UNCHANGED <<touched, edits>>
            BY <2>2 DEF Next, Publish, Worker, EnsureConsumerGroup, Subscribe, Poll, Deliver, PollError,
       WakeUp, LookupCamera, ProvisionCamera, StoreDetection, MatchWatchlist, CreateAlert,
       Announce, Acknowledge, Faults,
       RedisFails, PollReplyLost, StreamLost, DbFails, StoreReplyLost, AlertReplyLost, Crash,
       Recovery, RedisRecovers, DbRecovers, Restart, Finish, Goto, LeaveBatch
        <3> QED
            BY <3>1
    <2> QED
        BY <2>1, <2>2
<1>4. faults' \in Nat
    <2>1. CASE Faults
        BY <2>1 DEF Faults, Fault, RedisFails, PollReplyLost, StreamLost, DbFails,
           StoreReplyLost, AlertReplyLost, Crash
    <2>2. CASE ~Faults
        BY <2>2 DEF Next, Publish, Worker, EnsureConsumerGroup, Subscribe, Poll, Deliver, PollError,
       WakeUp, LookupCamera, ProvisionCamera, StoreDetection, MatchWatchlist, CreateAlert,
       Announce, Acknowledge, Operators, DeleteCamera, EditWatchlist, Edit, Recovery, RedisRecovers, DbRecovers, Restart, Finish, Goto, LeaveBatch
    <2> QED
        BY <2>1, <2>2
<1>5. disturbed' \in SUBSET Ids /\ abandoned' \in SUBSET Ids
    BY NextMarksTypeOK
<1> QED
    BY <1>1, <1>2, <1>3, <1>4, <1>5

-----------------------------------------------------------------------------
(***************************************************************************)
(* The inductive invariant.                                                *)
(***************************************************************************)

\* The read position never moves back, whatever is trimmed, lost or recreated.
LEMMA ReadPositionMonotone ==
    ASSUME RedisTypeOK, StreamInv, [Next]_vars
    PROVE  NextId <= NextId'
<1> USE DEF RedisTypeOK, StreamInv, NextId
<1>1. CASE Deliver
    BY <1>1, BatchRange DEF Deliver
<1>2. CASE Publish
    BY <1>2 DEF Publish
<1>3. CASE StreamLost
    BY <1>3 DEF StreamLost
<1>4. CASE UNCHANGED <<published, first>> /\ cursor' \in {cursor, GroupStart}
    <2>1. GroupStart = cursor
        <3>1. group => GroupStart = cursor
            BY Zenon DEF GroupStart
        <3>2. ~group => GroupStart = 0 /\ cursor = 0
            BY Zenon DEF GroupStart
        <3> QED
            BY <3>1, <3>2
    <2>2. cursor' = cursor /\ first' = first
        BY <1>4, <2>1
    <2> QED
        BY <2>2
<1> QED
    BY <1>1, <1>2, <1>3, <1>4, StreamStep

LEMMA NextBatchInv ==
    TypeOK /\ StreamInv /\ BatchInv /\ [Next]_vars => BatchInv'
<1> SUFFICES ASSUME TypeOK, StreamInv, BatchInv, [Next]_vars, pc' \in InBatch
             PROVE  cur' <= last' /\ last' < NextId'
    BY DEF BatchInv
<1>1. NextId <= NextId' /\ NextId \in Nat /\ NextId' \in Nat
    BY ReadPositionMonotone, NextRedisTypeOK DEF TypeOK, RedisTypeOK, NextId
<1>2. CASE Poll
    <2>1. cur' = NextId /\ last' = BatchEnd /\ cursor' = BatchEnd /\ first' = first
        BY <1>2 DEF Poll, Deliver
    <2> QED
        BY <1>2, <2>1, BatchRange DEF Poll, Deliver, NextId, TypeOK, RedisTypeOK
<1>3. CASE ~Poll
    <2>1. pc \in InBatch /\ last' = last
          /\ \/ cur' = cur
             \/ cur' = cur + 1 /\ cur < last
        BY <1>3, WorkerStep
    <2> QED
        BY <1>1, <2>1 DEF BatchInv, TypeOK, WorkerTypeOK
<1> QED
    BY <1>2, <1>3

LEMMA NextStoredInv ==
    IInv /\ [Next]_vars => StoredInv' /\ (\A e \in Ids : detections'[e] <= 1)
<1> SUFFICES ASSUME IInv, [Next]_vars
             PROVE  StoredInv' /\ (\A e \in Ids : detections'[e] <= 1)
    OBVIOUS
<1> USE DEF IInv, TypeOK, RedisTypeOK, WorkerTypeOK, DbTypeOK, BatchInv
<1>1. NextId <= NextId' /\ NextId \in Nat /\ NextId' \in Nat
    BY ReadPositionMonotone, NextRedisTypeOK DEF NextId
<1>2. CASE detections' = detections
    <2>1. \A e \in Ids : detections[e] > 0 => e < NextId /\ e < NextId'
        BY <1>1 DEF StoredInv
    <2>2. CASE Poll
        <3>1. cur' = NextId /\ pc' = "camera"
            BY <2>2 DEF Poll
        <3> QED
            BY <1>1, <1>2, <2>1, <3>1 DEF StoredInv, AtMostOnce
    <2>3. CASE UNCHANGED workerVars
        BY <1>2, <2>1, <2>3 DEF StoredInv, AtMostOnce
    <2>4. CASE pc' \notin InBatch
        BY <1>2, <2>1, <2>4 DEF StoredInv, AtMostOnce
    <2>5. CASE /\ pc \in InBatch /\ pc' \in InBatch /\ cur' = cur
               /\ pc' \in Processing => pc \in Processing
               /\ pc' \in Alerting => pc \in Alerting
        BY <1>2, <2>1, <2>5 DEF StoredInv, AtMostOnce
    <2>6. CASE pc = "ack" /\ pc' = "camera" /\ cur' = cur + 1
        BY <1>2, <2>1, <2>6 DEF StoredInv, AtMostOnce
    <2>7. ASSUME pc = "store", InsertDetection
          PROVE  FALSE
        <3>1. cur \in Ids
            BY <2>7
        <3> QED
            BY <1>2, <2>7, <3>1 DEF InsertDetection
    <2> QED
        BY <2>2, <2>3, <2>4, <2>5, <2>6, <2>7, WorkerStep
<1>3. CASE InsertDetection /\ pc = "store" /\ cur' = cur /\ pc' \in {"match", "ack"}
    <2>1. cur \in Ids /\ cur < NextId /\ detections[cur] = 0
        BY <1>1, <1>3 DEF StoredInv
    <2>2. detections' = [detections EXCEPT ![cur] = 1]
        BY <1>3, <2>1 DEF InsertDetection
    <2> QED
        BY <1>1, <1>3, <2>1, <2>2 DEF StoredInv, AtMostOnce
<1> QED
    BY <1>2, <1>3, DetectionsStep

\* The steps that lead into, or stay in, the part of process_detection that
\* follows the detection's commit.
LEMMA AlertingStep ==
    ASSUME [Next]_vars, pc' \in Alerting
    PROVE  \/ UNCHANGED workerVars
           \/ StoreDetection \/ MatchWatchlist \/ CreateAlert \/ Announce
BY DEF Next, Publish, Worker, EnsureConsumerGroup, Subscribe, Poll, PollError, WakeUp,
       LookupCamera, ProvisionCamera, Acknowledge, Operators, DeleteCamera, EditWatchlist,
       Edit, Faults, RedisFails, PollReplyLost, StreamLost, DbFails, StoreReplyLost,
       AlertReplyLost, Crash, Recovery, RedisRecovers, DbRecovers, Restart, Finish, Goto,
       LeaveBatch

LEMMA AnnouncedStep ==
    ASSUME [Next]_vars
    PROVE  \/ announced' = announced
           \/ /\ pc = "announce"
              /\ alerts' = alerts
              /\ announced' = [announced EXCEPT ![cur] = @ \cup {match}]
BY DEF Next, Publish, Worker, EnsureConsumerGroup, Subscribe, Poll, Deliver, PollError,
       WakeUp, LookupCamera, ProvisionCamera, StoreDetection, MatchWatchlist, CreateAlert,
       Announce, Acknowledge, Operators, DeleteCamera, EditWatchlist, Edit, Faults, Fault,
       RedisFails, PollReplyLost, StreamLost, DbFails, StoreReplyLost, AlertReplyLost, Crash,
       Recovery, RedisRecovers, DbRecovers, Restart, Finish, Goto, LeaveBatch

LEMMA NextMatchInv ==
    IInv /\ [Next]_vars => MatchInv'
<1> SUFFICES ASSUME IInv, [Next]_vars, pc' \in Alerting
             PROVE  MatchInv'
    BY DEF MatchInv
<1> USE DEF IInv, TypeOK, WorkerTypeOK, DbTypeOK, MatchInv
<1>1. CASE alerts' = alerts
    <2>1. CASE UNCHANGED workerVars
        BY <1>1, <2>1
    <2>2. CASE StoreDetection
        <3>1. \A w \in Entries : alerts[cur][w] = 0
            BY <2>2 DEF StoreDetection, StoredInv, AlertsGrounded
        <3>2. cur' = cur /\ pc' = "match"
            BY <2>2 DEF StoreDetection, Goto, Finish
        <3> QED
            BY <1>1, <3>1, <3>2
    <2>3. CASE MatchWatchlist
        BY <1>1, <2>3 DEF MatchWatchlist, Matching, Finish
    <2>4. CASE CreateAlert
        <3>1. PICK w \in matches : InsertAlert(w)
            BY <2>4 DEF CreateAlert, Finish
        <3>2. w \in Entries /\ cur \in Ids
            BY <2>4, <3>1 DEF CreateAlert
        <3>3. alerts'[cur][w] = alerts[cur][w] + 1
            BY <3>1, <3>2 DEF InsertAlert
        <3> QED
            BY <1>1, <3>2, <3>3
    <2>5. CASE Announce
        BY <1>1, <2>5 DEF Announce, Finish
    <2> QED
        BY <2>1, <2>2, <2>3, <2>4, <2>5, AlertingStep
<1>2. ASSUME NEW w \in matches, InsertAlert(w), pc = "alert", cur' = cur,
             pc' = "announce", match' = w, matches' = matches \ {w}
      PROVE  MatchInv'
    <2>1. w \in Entries /\ cur \in Ids /\ alerts[cur][w] = 0
        BY <1>2
    <2>2. alerts'[cur] = [alerts[cur] EXCEPT ![w] = 1]
        BY <1>2, <2>1 DEF InsertAlert
    <2> QED
        BY <1>2, <2>1, <2>2
<1> QED
    BY <1>1, <1>2, AlertsStep

LEMMA NextAlertsInv ==
    IInv /\ [Next]_vars =>
        /\ \A e \in Ids, w \in Entries : alerts'[e][w] <= 1
        /\ AlertsGrounded'
<1> SUFFICES ASSUME IInv, [Next]_vars
             PROVE  /\ \A e \in Ids, w \in Entries : alerts'[e][w] <= 1
                    /\ AlertsGrounded'
    OBVIOUS
<1> USE DEF IInv, TypeOK, WorkerTypeOK, DbTypeOK, GhostTypeOK
<1>1. \A e \in Ids : detections[e] > 0 => detections'[e] > 0
    <2>1. CASE detections' = detections
        BY <2>1
    <2>2. CASE InsertDetection /\ pc = "store"
        <3>1. cur \in Ids /\ detections' = [detections EXCEPT ![cur] = detections[cur] + 1]
            BY <2>2 DEF InsertDetection
        <3> QED
            BY <3>1
    <2> QED
        BY <2>1, <2>2, DetectionsStep
<1>2. CASE alerts' = alerts
    <2>1. \A e \in Ids, w \in Entries : w \in announced'[e] => alerts[e][w] > 0
        <3>1. CASE announced' = announced
            BY <3>1 DEF AlertsGrounded
        <3>2. CASE pc = "announce" /\ announced' = [announced EXCEPT ![cur] = @ \cup {match}]
            <4>1. cur \in Ids /\ match \in Entries /\ alerts[cur][match] > 0
                BY <3>2 DEF MatchInv
            <4> QED
                BY <3>2, <4>1 DEF AlertsGrounded
        <3> QED
            BY <3>1, <3>2, AnnouncedStep
    <2> QED
        BY <1>1, <1>2, <2>1 DEF AtMostOnce, AlertsGrounded
<1>3. ASSUME NEW w \in matches, InsertAlert(w), pc = "alert"
      PROVE  /\ \A e \in Ids, x \in Entries : alerts'[e][x] <= 1
             /\ AlertsGrounded'
    <2>1. /\ w \in Entries /\ cur \in Ids
          /\ alerts[cur][w] = 0
          /\ EntryPlate[w] = PlateOf[cur]
          /\ detections[cur] > 0
        BY <1>3 DEF MatchInv, StoredInv
    <2>2. \A e \in Ids, x \in Entries :
             alerts'[e][x] = IF e = cur /\ x = w THEN 1 ELSE alerts[e][x]
        BY <1>3, <2>1 DEF InsertAlert
    <2>3. announced' = announced
        BY <1>3, AnnouncedStep
    <2>4. \A e \in Ids, x \in Entries : alerts'[e][x] <= 1
        BY <2>2 DEF AtMostOnce
    <2>5. ASSUME NEW e \in Ids, NEW x \in Entries, alerts'[e][x] > 0
          PROVE  detections'[e] > 0 /\ EntryPlate[x] = PlateOf[e]
        <3>1. CASE e = cur /\ x = w
            BY <1>1, <2>1, <3>1
        <3>2. CASE ~(e = cur /\ x = w)
            <4>1. alerts[e][x] > 0
                BY <2>2, <2>5, <3>2
            <4> QED
                BY <1>1, <4>1 DEF AlertsGrounded
        <3> QED
            BY <3>1, <3>2
    <2>6. ASSUME NEW e \in Ids, NEW x \in Entries, x \in announced'[e]
          PROVE  alerts'[e][x] > 0
        <3>1. alerts[e][x] > 0
            BY <2>3, <2>6 DEF AlertsGrounded
        <3> QED
            BY <2>2, <3>1
    <2> QED
        BY <2>4, <2>5, <2>6, Zenon DEF AlertsGrounded
<1> QED
    BY <1>2, <1>3, AlertsStep

LEMMA NextHandledInv == HandledInv /\ [Next]_vars => HandledInv'
<1> SUFFICES ASSUME HandledInv, [Next]_vars, pc' = "ack"
             PROVE  cur' \in handled'
    BY DEF HandledInv
<1>1. CASE UNCHANGED workerVars
    <2>1. handled \subseteq handled'
        BY DEF Next, Publish, Worker, EnsureConsumerGroup, Subscribe, Poll, Deliver, PollError,
       WakeUp, LookupCamera, ProvisionCamera, StoreDetection, MatchWatchlist, CreateAlert,
       Announce, Acknowledge, Operators, DeleteCamera, EditWatchlist, Edit, Faults, Fault,
       RedisFails, PollReplyLost, StreamLost, DbFails, StoreReplyLost, AlertReplyLost, Crash,
       Recovery, RedisRecovers, DbRecovers, Restart, Finish, Goto, LeaveBatch
    <2> QED
        BY <1>1, <2>1 DEF HandledInv
<1>2. CASE Finish
    BY <1>2 DEF Finish
<1> QED
    BY <1>1, <1>2 DEF Next, Publish, Worker, EnsureConsumerGroup, Subscribe, Poll, Deliver, PollError,
       WakeUp, LookupCamera, ProvisionCamera, StoreDetection, MatchWatchlist, CreateAlert,
       Announce, Acknowledge, Operators, DeleteCamera, EditWatchlist, Edit, Faults, Fault,
       RedisFails, PollReplyLost, StreamLost, DbFails, StoreReplyLost, AlertReplyLost, Crash,
       Recovery, RedisRecovers, DbRecovers, Restart, Goto, LeaveBatch

LEMMA InitIInv == Init => IInv
<1> SUFFICES ASSUME Init
             PROVE  IInv
    OBVIOUS
<1>1. StreamInv /\ BatchInv /\ MatchInv /\ HandledInv
    BY BoundsAssumption DEF Init, StreamInv, BatchInv, MatchInv, HandledInv
<1>2. StoredInv /\ AtMostOnce /\ AlertsGrounded
    BY DEF Init, StoredInv, AtMostOnce, AlertsGrounded
<1> QED
    BY <1>1, <1>2, InitTypeOK DEF IInv

LEMMA NextIInv == IInv /\ [Next]_vars => IInv'
<1> SUFFICES ASSUME IInv, [Next]_vars
             PROVE  IInv'
    OBVIOUS
<1>1. TypeOK' /\ StreamInv'
    BY NextFlagTypeOK, NextRedisTypeOK, NextDbTypeOK, NextWorkerTypeOK, NextGhostTypeOK
    DEF IInv, TypeOK
<1>2. BatchInv'
    BY NextBatchInv DEF IInv
<1>3. StoredInv' /\ (\A e \in Ids : detections'[e] <= 1)
    BY NextStoredInv
<1>4. MatchInv' /\ HandledInv'
    BY NextMatchInv, NextHandledInv DEF IInv
<1>5. AtMostOnce' /\ AlertsGrounded'
    BY <1>3, NextAlertsInv DEF AtMostOnce
<1> QED
    BY <1>1, <1>2, <1>3, <1>4, <1>5 DEF IInv

-----------------------------------------------------------------------------

\* Every reachable state satisfies the inductive invariant: the stream's read
\* position, the batch and the tables never disagree.
THEOREM Invariance == Spec => []IInv
BY InitIInv, NextIInv, PTL DEF Spec

\* The variables of Redis, of Postgres and of the worker keep their types.
THEOREM TypeCorrectness == Spec => []TypeOK
<1>1. IInv => TypeOK
    BY DEF IInv
<1> QED
    BY <1>1, Invariance, PTL

\* Crashes, lost replies, trimming, the loss of the stream and re-creation of
\* its group never make the worker store a detection or raise an alert twice.
THEOREM AtMostOnceAlways == Spec => []AtMostOnce
<1>1. IInv => AtMostOnce
    BY DEF IInv
<1> QED
    BY <1>1, Invariance, PTL

\* Every alert stands for a stored detection with the watchlist row's plate,
\* and clients only hear of committed alerts.
THEOREM AlertsGroundedAlways == Spec => []AlertsGrounded
<1>1. IInv => AlertsGrounded
    BY DEF IInv
<1> QED
    BY <1>1, Invariance, PTL

\* Detections are stored in the order of the stream, across batches, restarts
\* and outages.
THEOREM StoredInOrderAlways == Spec => StoredInOrder
<1> DEFINE InOrder == \A d, e \in Ids : d < e /\ detections'[d] # detections[d]
                                        => detections[e] = 0
<1>1. IInv /\ [Next]_vars => [InOrder]_vars
    <2> SUFFICES ASSUME IInv, [Next]_vars, NEW d \in Ids, NEW e \in Ids,
                        d < e, detections'[d] # detections[d]
                 PROVE  detections[e] = 0
        OBVIOUS
    <2> USE DEF IInv, TypeOK, DbTypeOK, WorkerTypeOK
    <2>1. InsertDetection /\ pc = "store"
        BY DetectionsStep
    <2>2. cur = d
        BY <2>1 DEF InsertDetection
    <2>3. ~(e <= cur)
        BY <2>2
    <2> QED
        BY <2>1, <2>3 DEF StoredInv
<1> QED
    BY <1>1, Invariance, PTL DEF Spec, StoredInOrder

\* An event leaves the pending list only after process_detection returned for
\* it, or together with the group.
THEOREM AckAfterHandlingAlways == Spec => AckAfterHandling
<1>1. IInv /\ [Next]_vars => [\A e \in pel \ pel' : e \in handled \/ ~group']_vars
    <2> SUFFICES ASSUME IInv, [Next]_vars, NEW e \in pel \ pel'
                 PROVE  e \in handled \/ ~group'
        OBVIOUS
    <2>1. CASE StreamLost
        BY <2>1 DEF StreamLost
    <2>2. CASE pc = "ack" /\ pel' = pel \ {cur}
        BY <2>2 DEF IInv, HandledInv
    <2>3. CASE pel \subseteq pel'
        BY <2>3
    <2> QED
        BY <2>1, <2>2, <2>3, StreamStep DEF Publish, Deliver
<1> QED
    BY <1>1, Invariance, PTL DEF Spec, AckAfterHandling

-----------------------------------------------------------------------------
(***************************************************************************)
(* What was processed is stored, unless it cannot be.                      *)
(***************************************************************************)

\* The reasons for which a processed event may have no detection.
Excused(e) == CameraOf[e] = NoCamera \/ e \in disturbed

\* The part of the argument that HandledIsStored leaves out: Postgres is away
\* after a fault only and the event being processed then is noted, and the
\* camera that was looked up for the current event is there unless noted too.
StorableInv ==
    /\ ~dbUp => faults > 0
    /\ ~dbUp /\ pc \in InBatch => cur \in disturbed
    /\ pc \in LookedUp => CameraOf[cur] \in cameras \/ cur \in disturbed

LEMMA ExcuseStays ==
    ASSUME [Next]_vars, NEW e, Excused(e)
    PROVE  Excused(e)'
BY MarksGrow DEF Excused

\* Postgres goes away, or comes back, by a fault, or a recovery.
LEMMA DbStep ==
    ASSUME [Next]_vars
    PROVE  \/ dbUp' = dbUp /\ (faults' = faults \/ faults' = faults + 1)
           \/ dbUp' = TRUE
           \/ /\ faults' = faults + 1 /\ cur' = cur
              /\ pc' \in InBatch => pc \in InBatch /\ Disturb({cur})
BY DEF Next, Publish, Worker, EnsureConsumerGroup, Subscribe, Poll, Deliver, PollError,
       WakeUp, LookupCamera, ProvisionCamera, StoreDetection, MatchWatchlist, CreateAlert,
       Announce, Acknowledge, Operators, DeleteCamera, EditWatchlist, Edit, Faults, Fault,
       RedisFails, PollReplyLost, StreamLost, DbFails, StoreReplyLost, AlertReplyLost, Crash,
       Recovery, RedisRecovers, DbRecovers, Restart, Finish, Goto, LeaveBatch

\* An event whose processing starts while Postgres is away is noted.
LEMMA NextBegun ==
    ASSUME [Next]_vars
    PROVE  \/ cur' = cur /\ (pc' \in InBatch => pc \in InBatch)
           \/ pc' \notin InBatch
           \/ dbUp' = dbUp /\ Begin(cur')
<1>1. CASE Poll
    BY <1>1 DEF Poll
<1>2. CASE Acknowledge
    BY <1>2 DEF Acknowledge, LeaveBatch
<1>3. CASE ~Poll /\ ~Acknowledge
    <2>1. ~(pc = "ack" /\ pc' = "camera")
        BY <1>3 DEF Next, Publish, Worker, EnsureConsumerGroup, Subscribe, PollError,
           WakeUp, LookupCamera, ProvisionCamera, StoreDetection, MatchWatchlist, CreateAlert,
           Announce, Operators, DeleteCamera, EditWatchlist, Edit, Faults,
           RedisFails, PollReplyLost, StreamLost, DbFails, StoreReplyLost, AlertReplyLost, Crash,
           Recovery, RedisRecovers, DbRecovers, Restart, Finish, Goto, LeaveBatch
    <2> QED
        BY <1>3, <2>1, WorkerStep
<1> QED
    BY <1>1, <1>2, <1>3

\* Rows of cameras leave through an operator's deletion only, which is noted
\* for the event that has looked the row up.
LEMMA CameraLeaves ==
    ASSUME [Next]_vars, pc \in LookedUp, CameraOf[cur] \in cameras, CameraOf[cur] \notin cameras'
    PROVE  cur \in disturbed'
<1>1. PICK c \in Cameras : DeleteCamera(c)
    BY DEF Next, Publish, Worker, EnsureConsumerGroup, Subscribe, Poll, Deliver, PollError,
       WakeUp, LookupCamera, ProvisionCamera, StoreDetection, MatchWatchlist, CreateAlert,
       Announce, Acknowledge, Operators, EditWatchlist, Edit, Faults,
       RedisFails, PollReplyLost, StreamLost, DbFails, StoreReplyLost, AlertReplyLost, Crash,
       Recovery, RedisRecovers, DbRecovers, Restart, Finish, Goto, LeaveBatch
<1>2. CameraOf[cur] = c
    BY <1>1 DEF DeleteCamera
<1> QED
    BY <1>1, <1>2 DEF DeleteCamera, Disturb

LEMMA NextStorableInv == IInv /\ StorableInv /\ [Next]_vars => StorableInv'
<1> SUFFICES ASSUME IInv, StorableInv, [Next]_vars
             PROVE  StorableInv'
    OBVIOUS
<1>0. faults \in Nat /\ dbUp \in BOOLEAN /\ disturbed \subseteq disturbed'
    BY MarksGrow DEF IInv, TypeOK, GhostTypeOK, FlagTypeOK
<1>1. ASSUME ~dbUp'
      PROVE  faults' > 0
    <2>1. CASE dbUp' = dbUp /\ (faults' = faults \/ faults' = faults + 1)
        <3>1. ~dbUp
            BY <1>1, <2>1
        <3>2. faults > 0
            BY <3>1 DEF StorableInv
        <3> QED
            BY <1>0, <2>1, <3>2
    <2>2. CASE faults' = faults + 1
        BY <1>0, <2>2
    <2> QED
        BY <1>1, <2>1, <2>2, DbStep
<1>2. ASSUME ~dbUp', pc' \in InBatch
      PROVE  cur' \in disturbed'
    <2>1. CASE dbUp' = dbUp
        BY <1>0, <1>2, <2>1, NextBegun DEF StorableInv, Begin, Disturb
    <2>2. CASE dbUp' # dbUp
        BY <1>0, <1>2, <2>2, DbStep DEF Disturb
    <2> QED
        BY <2>1, <2>2
<1>3. ASSUME pc' \in LookedUp
      PROVE  CameraOf[cur'] \in cameras' \/ cur' \in disturbed'
    <2>1. CASE pc \in LookedUp /\ cur' = cur
        BY <1>0, <2>1, CameraLeaves DEF StorableInv
    <2>2. CASE LookupCamera
        BY <1>3, <2>2 DEF LookupCamera, Goto, Finish, LookedUp
    <2>3. CASE ProvisionCamera
        BY <1>0, <1>3, <2>3 DEF ProvisionCamera, Goto, StorableInv
    <2>4. CASE ~LookupCamera /\ ~ProvisionCamera
        <3>1. ~(pc \in {"camera", "provision"} /\ pc' = "store" /\ ~UNCHANGED workerVars)
            BY <2>4 DEF Next, Publish, Worker, EnsureConsumerGroup, Subscribe, Poll, PollError,
           WakeUp, StoreDetection, MatchWatchlist, CreateAlert, Announce, Acknowledge,
           Operators, DeleteCamera, EditWatchlist, Edit, Faults,
           RedisFails, PollReplyLost, StreamLost, DbFails, StoreReplyLost, AlertReplyLost, Crash,
           Recovery, RedisRecovers, DbRecovers, Restart, Finish, Goto, LeaveBatch
        <3>2. pc \in LookedUp /\ cur' = cur
            BY <1>3, <3>1, WorkerStep DEF LookedUp, Poll
        <3> QED
            BY <2>1, <3>2
    <2> QED
        BY <2>2, <2>3, <2>4
<1> QED
    BY <1>1, <1>2, <1>3 DEF StorableInv

\* The steps that end the processing of an event.
LEMMA HandledStep ==
    ASSUME [Next]_vars, NEW e \in handled', e \notin handled
    PROVE  /\ e = cur
           /\ LookupCamera \/ StoreDetection \/ StoreReplyLost
                \/ (pc \in Alerting /\ detections' = detections)
<1>1. CASE Worker
    <2>1. CASE LookupCamera \/ StoreDetection
        BY <2>1 DEF LookupCamera, StoreDetection, Finish, Goto
    <2>2. CASE MatchWatchlist
        BY <2>2 DEF MatchWatchlist, Finish
    <2>3. CASE CreateAlert
        BY <2>3 DEF CreateAlert, Finish
    <2>4. CASE Announce
        BY <2>4 DEF Announce, Finish
    <2> QED
        BY <1>1, <2>1, <2>2, <2>3, <2>4
        DEF Worker, EnsureConsumerGroup, Subscribe, Poll, PollError, WakeUp, ProvisionCamera, Acknowledge
<1>2. CASE Faults
    <2>1. CASE StoreReplyLost \/ AlertReplyLost
        BY <2>1 DEF StoreReplyLost, AlertReplyLost, Finish
    <2> QED
        BY <1>2, <2>1 DEF Faults, RedisFails, PollReplyLost, StreamLost, DbFails, Crash
<1> QED
    BY <1>1, <1>2 DEF Next, Publish, Operators, DeleteCamera, EditWatchlist, Edit,
       Recovery, RedisRecovers, DbRecovers, Restart

\* The event that they end is stored or excused.
LEMMA HandledAsItShould ==
    ASSUME IInv, StorableInv, [Next]_vars, NEW e \in handled', e \notin handled
    PROVE  detections'[e] # 0 \/ Excused(e)'
<1>t. TypeOK /\ StoredInv
    BY DEF IInv
<1> USE DEF TypeOK, DbTypeOK, WorkerTypeOK
<1>0. e = cur
    BY HandledStep
<1>1. CASE LookupCamera
    <2>1. ~dbUp \/ CameraOf[e] = NoCamera
        BY <1>0, <1>1, <1>t DEF LookupCamera, Finish, Goto
    <2>2. pc = "camera"
        BY <1>1 DEF LookupCamera
    <2> QED
        BY <1>0, <2>1, <2>2, ExcuseStays DEF StorableInv, Excused
<1>2. CASE StoreDetection \/ StoreReplyLost
    <2>1. pc = "store" /\ cur \in Ids
        BY <1>2, <1>t DEF StoreDetection, StoreReplyLost
    <2>2. CASE InsertDetection
        BY <1>0, <1>t, <2>1, <2>2 DEF InsertDetection
    <2>3. CASE ~dbUp \/ CameraOf[cur] \notin cameras
        <3>1. Excused(e)
            BY <1>0, <2>1, <2>3 DEF StorableInv, Excused, LookedUp
        <3> QED
            BY <3>1, ExcuseStays
    <2> QED
        BY <1>2, <2>2, <2>3 DEF StoreDetection, StoreReplyLost
<1>3. CASE pc \in Alerting /\ detections' = detections
    BY <1>0, <1>3, <1>t DEF StoredInv
<1> QED
    BY <1>1, <1>2, <1>3, HandledStep

LEMMA NextHandledIsStored ==
    IInv /\ StorableInv /\ HandledIsStored /\ [Next]_vars => HandledIsStored'
<1> SUFFICES ASSUME IInv, StorableInv, HandledIsStored, [Next]_vars, NEW e \in handled'
             PROVE  detections'[e] # 0 \/ Excused(e)'
    BY DEF HandledIsStored, Excused
<1> USE DEF IInv, TypeOK, DbTypeOK, WorkerTypeOK, GhostTypeOK
<1>1. CASE e \in handled /\ Excused(e)
    BY <1>1, ExcuseStays
<1>2. CASE e \in handled /\ detections[e] # 0
    <2>1. e \in Ids /\ detections[e] \in Nat
        BY <1>2
    <2>2. CASE detections' = detections
        BY <1>2, <2>2
    <2>3. CASE InsertDetection /\ pc = "store"
        <3>1. detections'[e] \in {detections[e], detections[e] + 1}
            BY <2>1, <2>3 DEF InsertDetection
        <3> QED
            BY <1>2, <2>1, <3>1
    <2> QED
        BY <2>2, <2>3, DetectionsStep
<1> QED
    BY <1>1, <1>2, HandledAsItShould DEF HandledIsStored, Excused

\* A processed event is stored unless it has no valid camera, Postgres was away
\* while it was processed, or its camera was deleted between the lookup and the
\* INSERT: crashes, restarts, failures of Redis and what befalls other events
\* never cost a detection that was being processed.
THEOREM HandledIsStoredAlways == Spec => []HandledIsStored
<1>1. Init => StorableInv /\ HandledIsStored
    BY DEF Init, StorableInv, HandledIsStored, LookedUp
<1> QED
    BY <1>1, NextStorableInv, NextHandledIsStored, Invariance, PTL DEF Spec

-----------------------------------------------------------------------------
(***************************************************************************)
(* Without faults every match is alerted on and announced.                 *)
(***************************************************************************)

\* The condition of AlertsComplete.
Owed(e, w) ==
    /\ w \notin touched
    /\ faults = 0
    /\ CameraOf[e] # NoCamera /\ e \notin disturbed
    /\ watch[w] = "active" /\ EntryPlate[w] = PlateOf[e]
    /\ \A x \in Entries : EntryPlate[x] = PlateOf[e] => watch[x] # "deleted"

\* While the matches of an event are worked off, those owed are still to come,
\* being announced, or announced.
CompleteInv ==
    /\ faults = 0 => redisUp
    /\ pc \in {"alert", "announce"} =>
          \A w \in Entries : Owed(cur, w) =>
              w \in matches \/ w \in announced[cur] \/ (pc = "announce" /\ w = match)
    /\ \A e \in handled, w \in Entries : Owed(e, w) => w \in announced[e]

LEMMA FaultsGrow ==
    ASSUME TypeOK, [Next]_vars
    PROVE  faults' \in Nat /\ (faults' = 0 => faults = 0)
<1>1. faults' = faults \/ faults' = faults + 1
    BY DEF Next, Publish, Worker, EnsureConsumerGroup, Subscribe, Poll, Deliver, PollError,
       WakeUp, LookupCamera, ProvisionCamera, StoreDetection, MatchWatchlist, CreateAlert,
       Announce, Acknowledge, Operators, DeleteCamera, EditWatchlist, Edit, Faults, Fault,
       RedisFails, PollReplyLost, StreamLost, DbFails, StoreReplyLost, AlertReplyLost, Crash,
       Recovery, RedisRecovers, DbRecovers, Restart, Finish, Goto, LeaveBatch
<1>2. faults \in Nat
    BY DEF TypeOK, GhostTypeOK
<1> QED
    BY <1>1, <1>2

\* A row of the watchlist changes when an operator edits it, and does not come
\* back once it is deleted.
LEMMA WatchStep ==
    ASSUME TypeOK, [Next]_vars, NEW w \in Entries
    PROVE  /\ w \notin touched' => watch'[w] = watch[w]
           /\ watch[w] = "deleted" => watch'[w] = "deleted"
<1>1. CASE watch' = watch
    BY <1>1
<1>2. ASSUME NEW v \in Entries, EditWatchlist(v)
      PROVE  /\ w \notin touched' => watch'[w] = watch[w]
             /\ watch[w] = "deleted" => watch'[w] = "deleted"
    <2>1. PICK s \in RowStates : <<watch[v], s>> \in RowSteps /\ watch' = [watch EXCEPT ![v] = s]
        BY <1>2 DEF EditWatchlist
    <2>2. watch[v] # "deleted"
        BY <2>1 DEF RowSteps
    <2>3. v \in touched'
        BY <1>2 DEF EditWatchlist, Edit
    <2>4. w # v => watch'[w] = watch[w]
        BY <2>1 DEF TypeOK, DbTypeOK
    <2> QED
        BY <2>2, <2>3, <2>4
<1> QED
    BY <1>1, <1>2 DEF Next, Publish, Worker, EnsureConsumerGroup, Subscribe, Poll, Deliver, PollError,
       WakeUp, LookupCamera, ProvisionCamera, StoreDetection, MatchWatchlist, CreateAlert,
       Announce, Acknowledge, Operators, DeleteCamera, Faults,
       RedisFails, PollReplyLost, StreamLost, DbFails, StoreReplyLost, AlertReplyLost, Crash,
       Recovery, RedisRecovers, DbRecovers, Restart, Finish, Goto, LeaveBatch

\* What is owed after a step was owed before it.
LEMMA OwedBefore ==
    ASSUME TypeOK, [Next]_vars, NEW e, NEW w \in Entries, Owed(e, w)'
    PROVE  Owed(e, w)
<1>1. touched \subseteq touched'
    BY DEF Next, Publish, Worker, EnsureConsumerGroup, Subscribe, Poll, Deliver, PollError,
       WakeUp, LookupCamera, ProvisionCamera, StoreDetection, MatchWatchlist, CreateAlert,
       Announce, Acknowledge, Operators, DeleteCamera, EditWatchlist, Edit, Faults, Fault,
       RedisFails, PollReplyLost, StreamLost, DbFails, StoreReplyLost, AlertReplyLost, Crash,
       Recovery, RedisRecovers, DbRecovers, Restart, Finish, Goto, LeaveBatch
<1>2. faults = 0 /\ w \notin touched /\ CameraOf[e] # NoCamera /\ e \notin disturbed
    BY <1>1, FaultsGrow, MarksGrow DEF Owed
<1>3. watch[w] = "active" /\ EntryPlate[w] = PlateOf[e]
    BY WatchStep DEF Owed
<1>4. \A x \in Entries : EntryPlate[x] = PlateOf[e] => watch[x] # "deleted"
    BY WatchStep DEF Owed
<1> QED
    BY <1>2, <1>3, <1>4 DEF Owed

\* Announcements are not taken back.
LEMMA AnnouncedStays ==
    ASSUME TypeOK, [Next]_vars, NEW e \in Ids
    PROVE  announced[e] \subseteq announced'[e]
<1>1. CASE announced' = announced
    BY <1>1
<1>2. CASE Announce
    BY <1>2 DEF Announce, TypeOK, GhostTypeOK
<1>3. CASE Worker
    BY <1>1, <1>2, <1>3 DEF Worker, EnsureConsumerGroup, Subscribe, Poll, PollError, WakeUp,
       LookupCamera, ProvisionCamera, StoreDetection, MatchWatchlist, CreateAlert, Acknowledge
<1>4. CASE Operators \/ Faults \/ Recovery \/ Publish \/ UNCHANGED vars
    <2>1. announced' = announced
        BY <1>4 DEF Publish, Operators, DeleteCamera, EditWatchlist, Edit, Faults,
           RedisFails, PollReplyLost, StreamLost, DbFails, StoreReplyLost, AlertReplyLost, Crash,
           Recovery, RedisRecovers, DbRecovers, Restart
    <2> QED
        BY <1>1, <2>1
<1> QED
    BY <1>3, <1>4 DEF Next

\* While alerts are raised for an event the owed ones are not lost sight of.
LEMMA NextOwedAreAhead ==
    ASSUME IInv, StorableInv, CompleteInv, [Next]_vars,
           pc' \in {"alert", "announce"},
           NEW e, e = cur', NEW w \in Entries, Owed(e, w)'
    PROVE  w \in matches' \/ w \in announced'[e] \/ (pc' = "announce" /\ w = match')
<1>0. TypeOK /\ Owed(e, w)
    BY OwedBefore DEF IInv
<1>1. CASE UNCHANGED workerVars
    <2>1. e = cur /\ e \in Ids
        BY <1>0, <1>1 DEF TypeOK, WorkerTypeOK
    <2>2. w \in matches \/ w \in announced[e] \/ (pc = "announce" /\ w = match)
        BY <1>0, <1>1, <2>1 DEF CompleteInv
    <2>3. announced[e] \subseteq announced'[e]
        BY <1>0, <2>1, AnnouncedStays
    <2> QED
        BY <1>1, <2>2, <2>3
<1>2. CASE MatchWatchlist
    BY <1>0, <1>2 DEF MatchWatchlist, Finish, Matching, Owed
<1>3. CASE CreateAlert
    <2>1. pc = "alert" /\ e = cur
        BY <1>3 DEF CreateAlert, Finish
    <2>2. PICK v \in matches : pc' = "announce" /\ match' = v /\ matches' = matches \ {v}
        BY <1>3 DEF CreateAlert, Finish
    <2>3. announced' = announced
        BY <1>3 DEF CreateAlert
    <2>4. w \in matches \/ w \in announced[e]
        BY <1>0, <2>1 DEF CompleteInv
    <2> QED
        BY <2>2, <2>3, <2>4
<1>4. CASE Announce
    <2>1. pc = "announce" /\ e = cur /\ e \in Ids /\ redisUp /\ matches' = matches
          /\ announced' = [announced EXCEPT ![cur] = @ \cup {match}]
        BY <1>0, <1>4 DEF Announce, Finish, TypeOK, WorkerTypeOK
    <2>2. announced'[e] = announced[e] \cup {match}
        BY <1>0, <2>1 DEF TypeOK, GhostTypeOK
    <2>3. w \in matches \/ w \in announced[e] \/ w = match
        BY <1>0, <2>1 DEF CompleteInv
    <2> QED
        BY <2>1, <2>2, <2>3
<1> QED
    BY <1>1, <1>2, <1>3, <1>4 DEF Next, Publish, Worker, EnsureConsumerGroup, Subscribe, Poll, PollError,
       WakeUp, LookupCamera, ProvisionCamera, StoreDetection, Acknowledge,
       Operators, DeleteCamera, EditWatchlist, Edit, Faults,
       RedisFails, PollReplyLost, StreamLost, DbFails, StoreReplyLost, AlertReplyLost, Crash,
       Recovery, RedisRecovers, DbRecovers, Restart, Finish, Goto, LeaveBatch

\* When the processing of an event ends, what is owed has been announced.
LEMMA FinishedIsTold ==
    ASSUME IInv, StorableInv, CompleteInv, [Next]_vars,
           NEW e \in handled', e \notin handled, NEW w \in Entries, Owed(e, w)'
    PROVE  w \in announced'[e]
<1>0. TypeOK /\ MatchInv
    BY DEF IInv
<1>1. Owed(e, w) /\ faults = 0 /\ faults' = 0
    BY <1>0, OwedBefore DEF Owed
<1>2. e = cur /\ dbUp /\ redisUp
    <2>1. e = cur
        BY HandledStep
    <2>2. dbUp
        BY <1>1 DEF StorableInv
    <2>3. redisUp
        BY <1>1 DEF CompleteInv
    <2> QED
        BY <2>1, <2>2, <2>3
<1>3. ~LookupCamera
    BY <1>1, <1>2 DEF LookupCamera, Finish, Goto, Owed
<1>4. ~StoreDetection
    <2>1. PlateOf[e] # NoPlate
        BY <1>1, FieldsAssumption DEF Owed
    <2>2. pc = "store" => CameraOf[cur] \in cameras
        BY <1>1, <1>2 DEF StorableInv, LookedUp, Owed
    <2> QED
        BY <1>2, <2>1, <2>2 DEF StoreDetection, Finish, Goto
<1>5. ~MatchWatchlist
    BY <1>1, <1>2 DEF MatchWatchlist, Matching, Owed
<1>6. ~CreateAlert
    <2>1. SUFFICES ASSUME CreateAlert
                   PROVE  FALSE
        OBVIOUS
    <2>2. pc = "alert" /\ handled' # handled
        BY <2>1 DEF CreateAlert
    <2>c. CameraOf[cur] \in cameras
        BY <1>1, <1>2, <2>2 DEF StorableInv, LookedUp, Owed
    <2>3. PICK v \in matches : watch[v] = "deleted"
        BY <1>2, <2>1, <2>2, <2>c DEF CreateAlert, InsertAlert
    <2>4. v \in Entries /\ EntryPlate[v] = PlateOf[cur]
        BY <1>0, <2>2 DEF MatchInv, TypeOK, WorkerTypeOK
    <2> QED
        BY <1>1, <1>2, <2>3, <2>4 DEF Owed
<1>7. CASE Announce
    <2>1. pc = "announce" /\ e \in Ids /\ matches = {}
          /\ announced' = [announced EXCEPT ![cur] = @ \cup {match}]
        BY <1>0, <1>2, <1>7 DEF Announce, TypeOK, WorkerTypeOK
    <2>2. announced'[e] = announced[e] \cup {match}
        BY <1>0, <1>2, <2>1 DEF TypeOK, GhostTypeOK
    <2>3. w \in announced[e] \/ w = match
        BY <1>1, <1>2, <2>1 DEF CompleteInv
    <2> QED
        BY <2>2, <2>3
<1>8. ~StoreReplyLost /\ ~AlertReplyLost
    BY <1>1 DEF StoreReplyLost, AlertReplyLost, Fault
<1> QED
    BY <1>3, <1>4, <1>5, <1>6, <1>7, <1>8 DEF Next, Publish, Worker, EnsureConsumerGroup, Subscribe, Poll,
       PollError, WakeUp, ProvisionCamera, Acknowledge, Operators, DeleteCamera, EditWatchlist, Edit,
       Faults, RedisFails, PollReplyLost, StreamLost, DbFails, Crash,
       Recovery, RedisRecovers, DbRecovers, Restart

LEMMA NextCompleteInv == IInv /\ StorableInv /\ CompleteInv /\ [Next]_vars => CompleteInv'
<1> SUFFICES ASSUME IInv, StorableInv, CompleteInv, [Next]_vars
             PROVE  CompleteInv'
    OBVIOUS
<1>1. TypeOK
    BY DEF IInv
<1>2. faults' = 0 => redisUp'
    <2>1. SUFFICES ASSUME faults' = 0
                   PROVE  redisUp'
        OBVIOUS
    <2>2. redisUp /\ faults = 0
        BY <1>1, <2>1, FaultsGrow DEF CompleteInv
    <2>3. CASE Worker
        BY <2>2, <2>3 DEF Worker, EnsureConsumerGroup, Subscribe, Poll, PollError, WakeUp,
           LookupCamera, ProvisionCamera, StoreDetection, MatchWatchlist, CreateAlert,
           Announce, Acknowledge
    <2>4. CASE Faults
        BY <2>1, <2>2, <2>4 DEF Faults, Fault, RedisFails, PollReplyLost, StreamLost, DbFails,
           StoreReplyLost, AlertReplyLost, Crash
    <2>5. CASE Operators \/ Publish \/ Recovery \/ UNCHANGED vars
        BY <2>2, <2>5 DEF Operators, DeleteCamera, EditWatchlist, Edit, Publish, Recovery,
           RedisRecovers, DbRecovers, Restart
    <2> QED
        BY <2>3, <2>4, <2>5 DEF Next
<1>3. ASSUME pc' \in {"alert", "announce"}, NEW e, e = cur', NEW w \in Entries, Owed(e, w)'
      PROVE  w \in matches' \/ w \in announced'[e] \/ (pc' = "announce" /\ w = match')
    BY <1>3, NextOwedAreAhead
<1>4. ASSUME NEW e \in handled', NEW w \in Entries, Owed(e, w)'
      PROVE  w \in announced'[e]
    <2>1. CASE e \in handled
        <3>1. Owed(e, w)
            BY <1>1, <1>4, OwedBefore
        <3>2. w \in announced[e] /\ e \in Ids
            BY <1>1, <2>1, <3>1 DEF CompleteInv, TypeOK, GhostTypeOK
        <3>3. announced[e] \subseteq announced'[e]
            BY <1>1, <3>2, AnnouncedStays
        <3> QED
            BY <3>2, <3>3
    <2> QED
        BY <1>4, <2>1, FinishedIsTold
<1> QED
    BY <1>2, <1>3, <1>4 DEF CompleteInv, Owed

\* Without faults a processed plate has one alert, announced, for every
\* watchlist row that was active all along, for any number of rows that match
\* it, in whatever order the query returns them: unless a row it matches, or
\* its camera after the lookup, was deleted.
THEOREM AlertsCompleteAlways == Spec => []AlertsComplete
<1>1. Init => StorableInv /\ CompleteInv
    BY DEF Init, StorableInv, CompleteInv, LookedUp
<1>2. IInv /\ CompleteInv => AlertsComplete
    <2> SUFFICES ASSUME IInv, CompleteInv, NEW e \in handled, NEW w \in Entries, Owed(e, w)
                 PROVE  alerts[e][w] = 1 /\ w \in announced[e]
        BY DEF AlertsComplete, Owed
    <2>1. w \in announced[e] /\ e \in Ids
        BY DEF CompleteInv, IInv, TypeOK, GhostTypeOK
    <2>2. alerts[e][w] > 0 /\ alerts[e][w] <= 1
        BY <2>1 DEF IInv, AlertsGrounded, AtMostOnce
    <2>3. alerts[e][w] \in Nat
        BY <2>1 DEF IInv, TypeOK, DbTypeOK
    <2> QED
        BY <2>1, <2>2, <2>3
<1> QED
    BY <1>1, <1>2, NextStorableInv, NextCompleteInv, Invariance, PTL DEF Spec

-----------------------------------------------------------------------------
(***************************************************************************)
(* AlertWorker implements EventFate: every step of the pipeline publishes, *)
(* takes, stores or loses events, or changes no event's fate.              *)
(***************************************************************************)

USE DEF Ids, Fate!Ids, Processing, Alerting, InBatch, vars, redisVars, dbVars, workerVars,
        ghostVars

fateBar == [e \in Ids |-> FateOf(e)]

\* How two events' fates compare: taken events precede queued ones, and the
\* current event precedes all others that are taken.
LEMMA FateOrder ==
    ASSUME IInv, NEW d \in Ids, NEW e \in Ids, d < e
    PROVE  /\ ~(FateOf(d) = "queued" /\ FateOf(e) \in {"taken", "stored"})
           /\ FateOf(d) = "unpublished" => FateOf(e) = "unpublished"
           /\ FateOf(d) = "taken" => ~(pc \in Processing /\ cur = e)
BY DEF FateOf, ToStore, IInv, TypeOK, RedisTypeOK, DbTypeOK, WorkerTypeOK, StreamInv, BatchInv,
       StoredInv, NextId

\* A step that only turns queued and taken events into lost ones is a Lose.
LEMMA LoseStep ==
    ASSUME \A e \in Ids : \/ FateOf(e)' = FateOf(e)
                          \/ FateOf(e) \in {"queued", "taken"} /\ FateOf(e)' = "lost",
           \A d, e \in Ids : d < e /\ FateOf(d) = "queued" /\ FateOf(e)' # FateOf(e)
                             => FateOf(d)' # FateOf(d)
    PROVE  Fate!Next
<1> DEFINE S == {e \in Ids : FateOf(e)' # FateOf(e)}
<1>1. Fate!Lose(S)
    BY Zenon DEF Fate!Lose, Fate!With, Fate!Oldest, Fate!Become
<1>2. S \in SUBSET Ids
    OBVIOUS
<1> QED
    BY <1>1, <1>2, Zenon DEF Fate!Next

LEMMA PublishStep ==
    ASSUME IInv, Publish, NEW n \in Ids, n = published + 1
    PROVE  Fate!Next
<1> USE BoundsAssumption DEF IInv, TypeOK, RedisTypeOK, DbTypeOK, WorkerTypeOK, StreamInv
<1> DEFINE S == {e \in Ids : FateOf(e) = "queued" /\ FateOf(e)' = "lost"}
<1>1. /\ published' = n /\ first' \in Nat /\ first <= first' /\ first' <= n
      /\ UNCHANGED <<cursor, detections, pc, cur, last>>
    BY DEF Publish
<1>2. /\ NextId \in Nat /\ NextId' \in Nat /\ NextId <= NextId' /\ NextId' <= n
      /\ pc \in InBatch => cur <= last /\ last < NextId
    BY <1>1 DEF NextId, BatchInv
<1>3. \A e \in Ids : detections[e] > 0 => e < NextId
    BY DEF StoredInv
<1>4. FateOf(n) = "unpublished" /\ FateOf(n)' = "queued"
    BY <1>1, <1>2, <1>3 DEF FateOf
<1>5. \A e \in Ids : e < n => FateOf(e) # "unpublished"
    BY <1>1 DEF FateOf
<1>6. ASSUME NEW e \in Ids, e # n
      PROVE  FateOf(e)' = FateOf(e) \/ (FateOf(e) = "queued" /\ FateOf(e)' = "lost")
    <2>1. ToStore(e)' = ToStore(e) /\ (ToStore(e) => e < NextId)
        BY <1>1, <1>2 DEF ToStore
    <2>2. published < e <=> published' < e
        BY <1>1, <1>6
    <2> QED
        BY <1>1, <1>2, <2>1, <2>2 DEF FateOf
<1>7. ASSUME NEW d \in Ids, NEW e \in S, d < e, FateOf(d) = "queued"
      PROVE  d \in S
    <2>1. NextId <= d /\ d <= published /\ detections[d] = 0
        BY <1>1, <1>2, <1>7 DEF FateOf
    <2>2. e \in Ids /\ e < NextId'
        BY <1>1, <1>2 DEF FateOf
    <2>3. ~ToStore(d)'
        BY <1>1, <1>2, <2>1 DEF ToStore
    <2>4. FateOf(d)' = "lost"
        BY <1>1, <1>2, <1>7, <2>1, <2>2, <2>3 DEF FateOf
    <2> QED
        BY <1>7, <2>4
<1>8. S \in SUBSET Ids
    OBVIOUS
<1>9. n \notin S
    BY <1>4
<1>10. Fate!Publish(n, S)
    <2>1. \A e \in Ids : FateOf(e)' = IF e = n THEN "queued"
                                     ELSE IF e \in S THEN "lost" ELSE FateOf(e)
        BY <1>4, <1>6, Zenon
    <2> QED
        BY <1>4, <1>5, <1>7, <2>1, Zenon DEF Fate!Publish, Fate!With, Fate!Oldest
<1> QED
    BY <1>8, <1>10, Zenon DEF Fate!Next

LEMMA PollStep ==
    ASSUME IInv, Poll
    PROVE  Fate!Next
<1> USE DEF IInv, TypeOK, RedisTypeOK, DbTypeOK, WorkerTypeOK, StreamInv
<1> DEFINE S == NextId..BatchEnd
<1>1. /\ NextId \in Ids /\ BatchEnd \in Ids /\ NextId <= BatchEnd /\ BatchEnd <= published
      /\ cursor' = BatchEnd /\ cur' = NextId /\ last' = BatchEnd
      /\ pc = "poll" /\ pc' = "camera"
      /\ UNCHANGED <<published, first, detections>>
    BY BatchRange DEF Poll, Deliver
<1>2. NextId' = BatchEnd + 1
    BY <1>1 DEF NextId
<1>3. S \in SUBSET Ids
    <2> SUFFICES ASSUME NEW e \in S PROVE e \in Ids
        OBVIOUS
    <2> QED
        BY <1>1, BoundsAssumption DEF Ids
<1>4. \A e \in Ids : FateOf(e) # "taken"
    BY <1>1 DEF FateOf, ToStore
<1>5. \A e \in Ids : FateOf(e) = "queued" <=> NextId <= e /\ e <= published
    BY <1>1 DEF FateOf, StoredInv, ToStore
<1>6. \A e \in Ids : FateOf(e)' = IF e \in S THEN "taken" ELSE FateOf(e)
    BY <1>1, <1>2 DEF FateOf, StoredInv, ToStore
<1>7. /\ S \subseteq {e \in Ids : FateOf(e) = "queued"}
      /\ \A d, e \in Ids : d < e /\ FateOf(d) = "queued" /\ e \in S => d \in S
    BY <1>1, <1>3, <1>5
<1> HIDE DEF S
<1>8. Fate!Take(S)
    BY <1>3, <1>4, <1>6, <1>7, Zenon
    DEF Fate!Take, Fate!With, Fate!Oldest, Fate!Become
<1> QED
    BY <1>3, <1>8, Zenon DEF Fate!Next

LEMMA StoreStep ==
    ASSUME IInv, InsertDetection, pc = "store", cur' = cur, pc' \in {"match", "ack"},
           UNCHANGED <<published, first, cursor, last>>
    PROVE  Fate!Next
<1> USE DEF IInv, TypeOK, RedisTypeOK, DbTypeOK, WorkerTypeOK, StreamInv
<1>1. cur \in Ids /\ detections[cur] = 0 /\ cur < NextId /\ cur <= published
    BY DEF StoredInv, BatchInv, NextId
<1>2. detections' = [detections EXCEPT ![cur] = 1]
    BY <1>1 DEF InsertDetection
<1>3. NextId' = NextId
    BY DEF NextId
<1>4. FateOf(cur) = "taken"
    BY <1>1 DEF FateOf, ToStore, NextId
<1>5. \A e \in Ids : FateOf(e)' = IF e = cur THEN "stored" ELSE FateOf(e)
    BY <1>1, <1>2, <1>3 DEF FateOf, ToStore
<1>6. \A d \in Ids : d < cur => FateOf(d) # "taken"
    BY <1>1, FateOrder
<1>7. Fate!Store(cur)
    BY <1>1, <1>4, <1>5, <1>6, Zenon
    DEF Fate!Store, Fate!With, Fate!Oldest, Fate!Become
<1> QED
    BY <1>1, <1>7, Zenon DEF Fate!Next

\* The other steps store nothing and hand out nothing: at most they give up
\* queued events (a lost reply, a lost stream) and taken ones (a crash, a failure).
LEMMA QuietStep ==
    ASSUME IInv, UNCHANGED <<published, detections>>, NextId' \in Nat, NextId <= NextId',
           \A e \in Ids : ToStore(e)' => ToStore(e)
    PROVE  Fate!Next
<1> USE DEF IInv, TypeOK, RedisTypeOK, DbTypeOK, WorkerTypeOK, StreamInv
<1>1. NextId \in Nat
    BY DEF NextId
<1>2. \A e \in Ids : NextId <= e => ~ToStore(e)
    <2>1. pc \in InBatch => cur \in Int /\ last \in Int /\ cur <= last /\ last < NextId
        BY DEF BatchInv
    <2> QED
        BY <1>1, <2>1 DEF ToStore
<1>3. \A e \in Ids : FateOf(e) = "queued" <=> NextId <= e /\ e <= published
    BY <1>1 DEF FateOf, StoredInv
<1>4. ASSUME NEW e \in Ids
      PROVE  \/ FateOf(e)' = FateOf(e)
             \/ FateOf(e) \in {"queued", "taken"} /\ FateOf(e)' = "lost"
    BY <1>1, <1>2, <1>4 DEF FateOf
<1>5. ASSUME NEW d \in Ids, NEW e \in Ids, d < e, FateOf(d) = "queued", FateOf(e)' # FateOf(e)
      PROVE  FateOf(d)' # FateOf(d)
    <2>1. FateOf(e) = "queued" /\ FateOf(e)' = "lost"
        BY <1>4, <1>5, FateOrder
    <2>2. e < NextId'
        BY <1>1, <1>3, <2>1 DEF FateOf
    <2>3. d < NextId'
        BY <1>1, <1>5, <2>2
    <2> QED
        BY <1>1, <1>5, <2>3 DEF FateOf
<1> QED
    BY <1>4, <1>5, LoseStep

\* Only XREADGROUP hands events to the worker.
LEMMA ToStoreShrinks ==
    ASSUME IInv, [Next]_vars, ~Poll, NEW e \in Ids, ToStore(e)'
    PROVE  ToStore(e)
BY WorkerStep DEF ToStore, IInv, TypeOK, WorkerTypeOK

LEMMA LaterOf ==
    ASSUME NEW a \in Nat, NEW b \in Nat
    PROVE  (IF a + 1 > b THEN a + 1 ELSE b) \in Nat
OBVIOUS

LEMMA NextIdType ==
    ASSUME RedisTypeOK'
    PROVE  NextId' \in Nat
<1>1. first' \in Nat /\ cursor' \in Nat
    BY BoundsAssumption DEF RedisTypeOK
<1> QED
    BY <1>1, LaterOf, Zenon DEF NextId

\* Each step of the pipeline is a step of EventFate, or changes no fate.
LEMMA StepRefines == IInv /\ IInv' /\ [Next]_vars => Fate!Next
<1> SUFFICES ASSUME IInv, IInv', [Next]_vars
             PROVE  Fate!Next
    OBVIOUS
<1>1. CASE Publish
    <2>1. published + 1 \in Ids
        BY <1>1, BoundsAssumption DEF Publish, IInv, TypeOK, RedisTypeOK
    <2> QED
        BY <1>1, <2>1, PublishStep
<1>2. CASE Poll
    BY <1>2, PollStep
<1>3. CASE detections' # detections
    BY <1>3, DetectionsStep, StoreStep
<1>4. CASE ~Publish /\ ~Poll /\ detections' = detections
    <2>1. published' = published
        BY <1>4, StreamStep DEF Deliver, StreamLost
    <2>2. NextId <= NextId'
        BY ReadPositionMonotone DEF IInv, TypeOK
    <2>3. NextId' \in Nat
        BY NextIdType DEF IInv, TypeOK
    <2> QED
        BY <1>4, <2>1, <2>2, <2>3, ToStoreShrinks, QuietStep
<1> QED
    BY <1>1, <1>2, <1>3, <1>4

\* The pipeline keeps the promise of EventFate for any number of events,
\* cameras, rows, faults and edits: an event is taken at most once, stored at
\* most once and in order, and never comes back from being lost.
THEOREM Refinement == Spec => RefinesEventFate
<1>1. Init => Fate!Init
    BY BoundsAssumption DEF Init, Fate!Init, FateOf
<1>2. IInv /\ IInv' /\ [Next]_vars => [Fate!Next]_fateBar
    BY StepRefines
<1> QED
    BY <1>1, <1>2, Invariance, PTL DEF Spec, RefinesEventFate, Fate!Spec, fateBar

=============================================================================
