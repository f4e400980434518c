------------------------ MODULE InferenceServiceProofs ------------------------
(***************************************************************************)
(* Proofs about InferenceService: for any number of streams, requests and  *)
(* permits, no path through a frame, a failure or the shutdown loses or    *)
(* invents a permit, so that at most MaxInference streams run inference,   *)
(* nor keeps a capture that nobody reads; the queues hold those who wait   *)
(* and no other, and the models are loaded once.                           *)
(***************************************************************************)
EXTENDS InferenceService, QueueTheorems

USE DEF vars, semVars, modelVars, linkVars, envVars

\* What the permits depend on.
PermitInv ==
    /\ pc \in [Tasks -> States]
    /\ permits \in Nat
    /\ PermitsCounted

-----------------------------------------------------------------------------
(***************************************************************************)
(* A step moves at most one task; it takes a permit, gives one back or      *)
(* leaves the holders alone.                                               *)
(***************************************************************************)

Keeps(t, where) ==
    /\ Go(t, where)
    /\ t \in Streams => (pc[t] \in Holding <=> where \in Holding)
    /\ permits' = permits

Takes(t, where) ==
    /\ Go(t, where)
    /\ t \in Streams /\ pc[t] \notin Holding /\ where \in Holding
    /\ permits > 0 /\ permits' = permits - 1

Gives(t, where) ==
    /\ Go(t, where)
    /\ t \in Streams /\ pc[t] \in Holding /\ where \notin Holding
    /\ permits' = permits + 1

Moves(t) == \E where \in States : Keeps(t, where) \/ Takes(t, where) \/ Gives(t, where)

USE DEF Keeps, Takes, Gives, Holding, Waiting, States, Trying

LEMMA LoadersMove ==
    ASSUME NEW t \in Tasks, Loaders(t)
    PROVE  Moves(t)
<1>1. CASE YoloTurn(t)
    BY <1>1 DEF YoloTurn, AfterYolo, Moves, Go, Tasks
<1>2. CASE YoloLoaded(t)
    BY <1>2 DEF YoloLoaded, AfterYolo, Moves, Go, Tasks
<1>3. CASE OcrTurn(t)
    BY <1>3 DEF OcrTurn, Moves, Go
<1>4. CASE OcrLoaded(t)
    BY <1>4 DEF OcrLoaded, Moves, Go
<1> QED
    BY <1>1, <1>2, <1>3, <1>4 DEF Loaders

LEMMA StreamMoves ==
    ASSUME NEW s \in Streams, Stream(s) \/ StreamFaults(s)
    PROVE  Moves(s)
<1>1. CASE Open(s)
    BY <1>1 DEF Open, CallYolo, AfterYolo, Moves, Go
<1>2. CASE OpenFails(s)
    BY <1>2 DEF OpenFails, NotOpened, Moves, Go
<1>3. CASE OpenRaises(s)
    BY <1>3 DEF OpenRaises, Backoff, Moves, Go
<1>4. CASE Reopen(s)
    BY <1>4 DEF Reopen, Moves, Go
<1>5. CASE LoseFrame(s)
    BY <1>5 DEF LoseFrame, Backoff, Moves, Go
<1>6. CASE TakeFrame(s)
    BY <1>6 DEF TakeFrame, Moves, Go
<1>7. CASE Acquire(s)
    BY <1>7 DEF Acquire, Moves, Go
<1>8. ASSUME NEW n, NextBox(s, n), pc[s] \in Holding
      PROVE  Moves(s)
    BY <1>8 DEF NextBox, Release, CallOcr, Moves, Go
<1>9. CASE Inferred(s)
    BY <1>9, <1>8 DEF Inferred
<1>10. CASE Published(s)
    BY <1>10, <1>8 DEF Published
<1>11. CASE FrameFails(s)
    BY <1>11 DEF FrameFails, Release, Moves, Go
<1>12. CASE StreamLoadFails(s)
    BY <1>12 DEF StreamLoadFails, Backoff, Moves, Go
<1>13. CASE Loaders(s)
    BY <1>13, LoadersMove DEF Tasks
<1> QED
    BY <1>1, <1>2, <1>3, <1>4, <1>5, <1>6, <1>7, <1>9, <1>10, <1>11, <1>12, <1>13
       DEF Stream, StreamFaults

LEMMA RequestMoves ==
    ASSUME NEW q \in Requests, Arrive(q) \/ Request(q) \/ RequestLoadFails(q)
    PROVE  Moves(q)
<1> q \in Tasks /\ q \notin Streams
    BY InferenceAssumption DEF Tasks
<1>1. CASE Arrive(q)
    BY <1>1 DEF Arrive, CallYolo, AfterYolo, Moves, Go
<1>2. CASE RequestInferred(q)
    BY <1>2 DEF RequestInferred, CallOcr, Moves, Go
<1>3. CASE RequestPublishes(q)
    BY <1>3 DEF RequestPublishes, Moves, Go
<1>4. CASE RequestLoadFails(q)
    BY <1>4 DEF RequestLoadFails, Moves, Go
<1>5. CASE Loaders(q)
    BY <1>5, LoadersMove
<1> QED
    BY <1>1, <1>2, <1>3, <1>4, <1>5 DEF Request

LEMMA LifespanMoves ==
    ASSUME Lifespan \/ Stop
    PROVE  (UNCHANGED <<pc, permits>>) \/ \E s \in Streams : Moves(s)
<1>1. ASSUME NEW s \in Streams, StartStream(s)
      PROVE  Moves(s)
    BY <1>1 DEF StartStream, Moves, Go
<1>2. ASSUME NEW s \in Streams, Cancelled(s)
      PROVE  Moves(s)
    BY <1>2 DEF Cancelled, CancelReleases, Moves, Go
<1>3. CASE Prewarm \/ Serve \/ Stopped \/ Stop
    BY <1>3 DEF Prewarm, Serve, Stopped, Stop
<1> QED
    BY <1>1, <1>2, <1>3 DEF Lifespan

LEMMA NextMoves ==
    ASSUME [Next]_vars
    PROVE  (UNCHANGED <<pc, permits>>) \/ \E t \in Tasks : Moves(t)
<1>1. ASSUME NEW s \in Streams, CameraFails(s) \/ CameraReturns(s)
      PROVE  UNCHANGED <<pc, permits>>
    BY <1>1 DEF CameraFails, CameraReturns
<1>2. CASE RedisFails \/ RedisReturns \/ UNCHANGED vars
    BY <1>2 DEF RedisFails, RedisReturns
<1> QED
    BY <1>1, <1>2, StreamMoves, RequestMoves, LifespanMoves DEF Next, Tasks

-----------------------------------------------------------------------------

LEMMA HoldersFinite == IsFiniteSet(Holders) /\ Cardinality(Holders) \in Nat
BY InferenceAssumption, FS_Subset, FS_CardinalityType DEF Holders

LEMMA MovePreserves ==
    ASSUME PermitInv, NEW t \in Tasks, Moves(t)
    PROVE  PermitInv'
<1>1. PICK where \in States : Keeps(t, where) \/ Takes(t, where) \/ Gives(t, where)
    BY DEF Moves
<1>2. pc' = [pc EXCEPT ![t] = where] /\ pc' \in [Tasks -> States]
    BY <1>1 DEF Go, PermitInv
<1>3. MaxInference \in Nat /\ permits \in Nat /\ PermitsCounted
    BY InferenceAssumption DEF PermitInv
<1>4. CASE Keeps(t, where)
    <2>1. Holders' = Holders
        BY <1>2, <1>4 DEF Holders, PermitInv, Tasks
    <2> QED
        BY <1>2, <1>3, <1>4, <2>1 DEF PermitInv, PermitsCounted
<1>5. CASE Takes(t, where)
    <2>1. Holders' = Holders \cup {t} /\ t \notin Holders
        BY <1>2, <1>5 DEF Holders, PermitInv, Tasks
    <2>2. Cardinality(Holders') = Cardinality(Holders) + 1
        BY <2>1, HoldersFinite, FS_AddElement
    <2> QED
        BY <1>2, <1>3, <1>5, <2>2, HoldersFinite DEF PermitInv, PermitsCounted
<1>6. CASE Gives(t, where)
    <2>1. Holders' = Holders \ {t} /\ t \in Holders
        BY <1>2, <1>6 DEF Holders, PermitInv, Tasks
    <2>2. Cardinality(Holders') = Cardinality(Holders) - 1
        BY <2>1, HoldersFinite, FS_RemoveElement
    <2> QED
        BY <1>2, <1>3, <1>6, <2>2, HoldersFinite DEF PermitInv, PermitsCounted
<1> QED
    BY <1>1, <1>4, <1>5, <1>6

LEMMA PermitInvariance == Spec => []PermitInv
<1>1. Init => PermitInv
    <2> SUFFICES ASSUME Init
                 PROVE  PermitInv
        OBVIOUS
    <2>1. Holders = {}
        BY DEF Init, Holders, Tasks
    <2> QED
        BY <2>1, FS_EmptySet, InferenceAssumption DEF Init, PermitInv, PermitsCounted
<1>2. PermitInv /\ [Next]_vars => PermitInv'
    <2> SUFFICES ASSUME PermitInv, [Next]_vars
                 PROVE  PermitInv'
        OBVIOUS
    <2>1. CASE UNCHANGED <<pc, permits>>
        BY <2>1 DEF PermitInv, PermitsCounted, Holders
    <2> QED
        BY <2>1, NextMoves, MovePreserves
<1> QED
    BY <1>1, <1>2, PTL DEF Spec

\* Free permits and holders always make up MaxInference, whatever failed or
\* was cancelled.
THEOREM PermitsCountedAlways == Spec => []PermitsCounted
<1>1. PermitInv => PermitsCounted
    BY DEF PermitInv
<1> QED
    BY <1>1, PermitInvariance, PTL

\* At most MaxInference streams are inside the semaphore.
THEOREM HoldersBounded == Spec => [](Cardinality(Holders) <= MaxInference)
<1>1. PermitInv => Cardinality(Holders) <= MaxInference
    BY HoldersFinite, InferenceAssumption DEF PermitInv, PermitsCounted
<1> QED
    BY <1>1, PermitInvariance, PTL

-----------------------------------------------------------------------------
(***************************************************************************)
(* Captures: a step opens the capture of the task it moves, releases it, or*)
(* leaves it alone, and then the task stays inside the try that releases   *)
(* it or was outside before.                                               *)
(***************************************************************************)

CaptureInv ==
    /\ pc \in [Tasks -> States]
    /\ cap \in [Streams -> BOOLEAN]
    /\ CaptureReleased

Leaves(t, where) ==
    /\ Go(t, where)
    /\ cap' = cap
    /\ t \in Streams => where \in Trying \/ pc[t] \notin Trying

Opens(t, where) ==
    /\ Go(t, where)
    /\ t \in Streams /\ where \in Trying
    /\ cap' = [cap EXCEPT ![t] = TRUE]

Releases(t, where) ==
    /\ Go(t, where)
    /\ t \in Streams
    /\ cap' = [cap EXCEPT ![t] = FALSE]

Carries(t) == \E where \in States : Leaves(t, where) \/ Opens(t, where) \/ Releases(t, where)

USE DEF Leaves, Opens, Releases

LEMMA LoadersCarry ==
    ASSUME NEW t \in Tasks, Loaders(t)
    PROVE  Carries(t)
<1>1. CASE YoloTurn(t)
    BY <1>1 DEF YoloTurn, AfterYolo, Carries, Go, Tasks
<1>2. CASE YoloLoaded(t)
    BY <1>2 DEF YoloLoaded, AfterYolo, Carries, Go, Tasks
<1>3. CASE OcrTurn(t)
    BY <1>3 DEF OcrTurn, Carries, Go
<1>4. CASE OcrLoaded(t)
    BY <1>4 DEF OcrLoaded, Carries, Go
<1> QED
    BY <1>1, <1>2, <1>3, <1>4 DEF Loaders

LEMMA StreamCarries ==
    ASSUME NEW s \in Streams, Stream(s) \/ StreamFaults(s)
    PROVE  Carries(s)
<1>1. CASE Open(s)
    BY <1>1 DEF Open, CallYolo, AfterYolo, Carries, Go
<1>2. CASE OpenFails(s)
    BY <1>2 DEF OpenFails, NotOpened, Carries, Go
<1>3. CASE OpenRaises(s)
    BY <1>3 DEF OpenRaises, Backoff, Carries, Go
<1>4. CASE Reopen(s)
    BY <1>4 DEF Reopen, Carries, Go
<1>5. CASE LoseFrame(s)
    BY <1>5 DEF LoseFrame, Backoff, Carries, Go
<1>6. CASE TakeFrame(s)
    BY <1>6 DEF TakeFrame, Carries, Go
<1>7. CASE Acquire(s)
    BY <1>7 DEF Acquire, Carries, Go
<1>8. ASSUME NEW n, NextBox(s, n)
      PROVE  Carries(s)
    BY <1>8 DEF NextBox, CallOcr, Carries, Go
<1>9. CASE Inferred(s)
    BY <1>9, <1>8 DEF Inferred
<1>10. CASE Published(s)
    BY <1>10, <1>8 DEF Published
<1>11. CASE FrameFails(s)
    BY <1>11 DEF FrameFails, Carries, Go
<1>12. CASE StreamLoadFails(s)
    BY <1>12 DEF StreamLoadFails, Backoff, Carries, Go
<1>13. CASE Loaders(s)
    BY <1>13, LoadersCarry DEF Tasks
<1> QED
    BY <1>1, <1>2, <1>3, <1>4, <1>5, <1>6, <1>7, <1>9, <1>10, <1>11, <1>12, <1>13
       DEF Stream, StreamFaults

LEMMA RequestCarries ==
    ASSUME NEW q \in Requests, Arrive(q) \/ Request(q) \/ RequestLoadFails(q)
    PROVE  Carries(q)
<1> q \in Tasks /\ q \notin Streams
    BY InferenceAssumption DEF Tasks
<1>1. CASE Arrive(q)
    BY <1>1 DEF Arrive, CallYolo, AfterYolo, Carries, Go
<1>2. CASE RequestInferred(q)
    BY <1>2 DEF RequestInferred, CallOcr, Carries, Go
<1>3. CASE RequestPublishes(q)
    BY <1>3 DEF RequestPublishes, Carries, Go
<1>4. CASE RequestLoadFails(q)
    BY <1>4 DEF RequestLoadFails, Carries, Go
<1>5. CASE Loaders(q)
    BY <1>5, LoadersCarry
<1> QED
    BY <1>1, <1>2, <1>3, <1>4, <1>5 DEF Request

LEMMA NextCarries ==
    ASSUME [Next]_vars
    PROVE  (UNCHANGED <<pc, cap>>) \/ \E t \in Tasks : Carries(t)
<1>1. ASSUME NEW s \in Streams, StartStream(s) \/ Cancelled(s)
      PROVE  Carries(s)
    BY <1>1 DEF StartStream, Cancelled, Carries, Go
<1>2. ASSUME NEW s \in Streams, CameraFails(s) \/ CameraReturns(s)
      PROVE  UNCHANGED <<pc, cap>>
    BY <1>2 DEF CameraFails, CameraReturns
<1>3. CASE Prewarm \/ Serve \/ Stopped \/ Stop
    BY <1>3 DEF Prewarm, Serve, Stopped, Stop
<1>4. CASE RedisFails \/ RedisReturns \/ UNCHANGED vars
    BY <1>4 DEF RedisFails, RedisReturns
<1> QED
    BY <1>1, <1>2, <1>3, <1>4, StreamCarries, RequestCarries DEF Next, Lifespan, Tasks

LEMMA CarryPreserves ==
    ASSUME CaptureInv, NEW t \in Tasks, Carries(t)
    PROVE  CaptureInv'
<1>1. PICK where \in States : Leaves(t, where) \/ Opens(t, where) \/ Releases(t, where)
    BY DEF Carries
<1>2. pc' = [pc EXCEPT ![t] = where] /\ pc' \in [Tasks -> States]
    BY <1>1 DEF Go, CaptureInv
<1>3. cap' \in [Streams -> BOOLEAN]
    BY <1>1, Zenon DEF CaptureInv
<1>4. ASSUME NEW s \in Streams, cap'[s]
      PROVE  pc'[s] \in Trying
    <2>0. pc'[s] = IF s = t THEN where ELSE pc[s]
        BY <1>2 DEF CaptureInv, Tasks
    <2>1. s # t => cap'[s] = cap[s]
        BY <1>1 DEF CaptureInv
    <2>2. CASE s # t
        BY <1>4, <2>0, <2>1, <2>2 DEF CaptureInv, CaptureReleased
    <2>3. CASE s = t /\ Leaves(t, where)
        BY <1>4, <2>0, <2>3 DEF CaptureInv, CaptureReleased
    <2>4. CASE s = t /\ Opens(t, where)
        BY <2>0, <2>4
    <2>5. ~(s = t /\ Releases(t, where))
        BY <1>4 DEF CaptureInv
    <2> QED
        BY <1>1, <2>2, <2>3, <2>4, <2>5
<1> QED
    BY <1>2, <1>3, <1>4 DEF CaptureInv, CaptureReleased

LEMMA CaptureInvariance == Spec => []CaptureInv
<1>1. Init => CaptureInv
    BY DEF Init, CaptureInv, CaptureReleased
<1>2. CaptureInv /\ [Next]_vars => CaptureInv'
    <2> SUFFICES ASSUME CaptureInv, [Next]_vars
                 PROVE  CaptureInv'
        OBVIOUS
    <2>1. CASE UNCHANGED <<pc, cap>>
        BY <2>1 DEF CaptureInv, CaptureReleased
    <2> QED
        BY <2>1, NextCarries, CarryPreserves
<1> QED
    BY <1>1, <1>2, PTL DEF Spec

\* A task that has ended, or waits to reconnect after a lost stream, holds no
\* capture, whichever of its awaits failed or was cancelled.
THEOREM CaptureReleasedAlways == Spec => []CaptureReleased
<1>1. CaptureInv => CaptureReleased
    BY DEF CaptureInv
<1> QED
    BY <1>1, CaptureInvariance, PTL

-----------------------------------------------------------------------------
(***************************************************************************)
(* Queues and models.  A queue holds those who wait in the states W; one   *)
(* of them, the holder, is at its head.                                    *)
(***************************************************************************)

HIDE DEF Holding, Waiting, States, Trying

AtSem == {"sem"}
AtYolo == {"yolo", "load"}
AtOcr == {"ocr", "ocrload"}

Queued(q, U, W) == q \in Seq(U) /\ IsInjective(q) /\ Range(q) = {u \in U : pc[u] \in W}

QueuesInv ==
    /\ Queued(semQueue, Streams, AtSem)
    /\ Queued(yoloQueue, Tasks, AtYolo)
    /\ Queued(ocrQueue, Tasks, AtOcr)

\* Who loads a model holds its lock, and it is not loaded yet.
LockInv ==
    \A t \in Tasks : /\ pc[t] = "load" => Head(yoloQueue) = t /\ ~yolo
                     /\ pc[t] = "ocrload" => Head(ocrQueue) = t /\ ocr = "unknown"

LoadsInv ==
    /\ yolo \in BOOLEAN
    /\ loads \in [{"yolo", "ocr"} -> Nat]
    /\ loads["yolo"] = IF yolo THEN 1 ELSE 0
    /\ loads["ocr"] <= 1
    /\ ocr = "unknown" => loads["ocr"] = 0
    /\ life = "prewarm" => ~yolo /\ \A t \in Tasks : pc[t] = "off"

ModelInv == pc \in [Tasks -> States] /\ QueuesInv /\ LockInv /\ LoadsInv

\* What a step of t to `where` may do to a queue: nothing, join it, leave it as
\* its head, or be taken out of it.
Turns(q, x, W, t, where) ==
    \/ x = q /\ (pc[t] \in W <=> where \in W)
    \/ x = Append(q, t) /\ pc[t] \notin W /\ where \in W
    \/ x = Tail(q) /\ Head(q) = t /\ pc[t] \in W /\ where \notin W
    \/ x = Without(q, {t}) /\ where \notin W

\* ... and to the models: only the holder of a lock changes what the lock guards.
Loads(t, where) ==
    /\ where = "load" => UNCHANGED <<yoloQueue, yolo>> /\ Head(yoloQueue) = t /\ ~yolo
    /\ where = "ocrload" => UNCHANGED <<ocrQueue, ocr>> /\ Head(ocrQueue) = t /\ ocr = "unknown"
    /\ \/ UNCHANGED yolo /\ loads'["yolo"] = loads["yolo"]
       \/ pc[t] = "load" /\ yolo' = TRUE /\ loads'["yolo"] = loads["yolo"] + 1
    /\ \/ UNCHANGED ocr /\ loads'["ocr"] = loads["ocr"]
       \/ /\ pc[t] \in AtOcr /\ Head(ocrQueue) = t /\ ocr = "unknown" /\ ocr' # "unknown"
          /\ loads'["ocr"] \in {loads["ocr"], loads["ocr"] + 1}
    /\ loads' \in [{"yolo", "ocr"} -> Nat]

TurnsTo(t, where) ==
    /\ Go(t, where)
    /\ Turns(semQueue, semQueue', AtSem, t, where) /\ (t \in Requests => semQueue' = semQueue)
    /\ Turns(yoloQueue, yoloQueue', AtYolo, t, where)
    /\ Turns(ocrQueue, ocrQueue', AtOcr, t, where)
    /\ Loads(t, where)
    /\ life' = life /\ life # "prewarm"

LEMMA QueueTurns ==
    ASSUME NEW q, NEW x, NEW U, NEW W, U \subseteq Tasks, NEW t \in U, NEW where,
           pc \in [Tasks -> States], Queued(q, U, W),
           Go(t, where), Turns(q, x, W, t, where)
    PROVE  /\ x \in Seq(U) /\ IsInjective(x) /\ Range(x) = {u \in U : pc'[u] \in W}
           /\ \A u \in U : (pc[u] \in W /\ u # t) => (Head(q) = u => Head(x) = u)
<1>1. q \in Seq(U) /\ IsInjective(q) /\ Range(q) = {u \in U : pc[u] \in W}
    BY DEF Queued
<1>2. \A u \in U : pc'[u] = IF u = t THEN where ELSE pc[u]
    BY DEF Go
<1>3. Len(q) \in Nat /\ DOMAIN q = 1..Len(q) /\ (Len(q) > 0 => Head(q) = q[1])
    BY <1>1
<1>4. \A u \in U : pc[u] \in W => Len(q) > 0
    BY <1>1, <1>3 DEF Range
<1>5. CASE x = q /\ (pc[t] \in W <=> where \in W)
    BY <1>1, <1>2, <1>5
<1>6. CASE x = Append(q, t) /\ pc[t] \notin W /\ where \in W
    <2>1. t \in U /\ t \notin Range(q)
        BY <1>1, <1>6
    <2>2. x \in Seq(U) /\ IsInjective(x) /\ Range(x) = Range(q) \cup {t}
        BY <1>1, <1>6, <2>1, AppendDistinct
    <2>3. Range(x) = {u \in U : pc'[u] \in W}
        BY <1>1, <1>2, <1>6, <2>1, <2>2
    <2>4. Len(q) > 0 => Head(x) = Head(q)
        <3>1. (x[1] = q[1] /\ Len(x) = Len(q) + 1) \/ Len(q) = 0
            <4>1. q \in Seq(U) /\ t \in U /\ x = Append(q, t)
                BY <1>1, <1>6, <2>1
            <4>2. Len(x) = Len(q) + 1 /\ \A i \in 1..Len(q) : x[i] = q[i]
                BY <4>1
            <4> QED
                BY <1>3, <4>2
        <3>2. Len(x) > 0 => Head(x) = x[1]
            BY <2>2
        <3> QED
            BY <1>3, <3>1, <3>2
    <2> QED
        BY <1>4, <2>2, <2>3, <2>4
<1>7. CASE x = Tail(q) /\ Head(q) = t /\ pc[t] \in W /\ where \notin W
    <2>1. t \in U
        BY <1>7
    <2>2. q # <<>>
        <3>1. Len(q) > 0
            BY <1>4, <1>7, <2>1
        <3> QED
            BY <3>1
    <2>3. x \in Seq(U) /\ IsInjective(x) /\ Range(x) = Range(q) \ {t}
        BY <1>1, <1>7, <2>2, TailDistinct
    <2>4. Range(x) = {u \in U : pc'[u] \in W}
        BY <1>1, <1>2, <1>7, <2>3
    <2> QED
        BY <1>7, <2>3, <2>4
<1>8. CASE x = Without(q, {t}) /\ where \notin W
    <2>1. x \in Seq(U) /\ IsInjective(x) /\ Range(x) = Range(q) \ {t}
        BY <1>1, <1>8, WithoutDistinct
    <2>2. Range(x) = {u \in U : pc'[u] \in W}
        BY <1>1, <1>2, <1>8, <2>1
    <2>3. ASSUME NEW u \in U, pc[u] \in W, u # t, Head(q) = u  PROVE Head(x) = u
        <3>1. Len(q) > 0 /\ q[1] = u /\ q[1] \notin {t}
            BY <1>3, <1>4, <2>3
        <3>2. Len(x) > 0 /\ x[1] = q[1]
            <4>1. Len(Without(q, {t})) > 0 /\ Without(q, {t})[1] = q[1]
                BY <1>1, <3>1, WithoutProperties
            <4> QED
                BY <1>8, <4>1
        <3>3. Head(x) = x[1]
            BY <2>1, <3>2
        <3> QED
            BY <3>1, <3>2, <3>3
    <2> QED
        BY <2>1, <2>2, <2>3
<1> QED
    BY <1>5, <1>6, <1>7, <1>8 DEF Turns

\* A step that turns to `where` preserves everything about queues and models.
LEMMA TurnPreserves ==
    ASSUME ModelInv, NEW t \in Tasks, NEW where \in States, TurnsTo(t, where)
    PROVE  ModelInv'
<1>1. pc \in [Tasks -> States] /\ QueuesInv /\ LockInv /\ LoadsInv
    BY DEF ModelInv
<1>2. /\ pc' \in [Tasks -> States] /\ Go(t, where)
      /\ \A u \in Tasks : pc'[u] = IF u = t THEN where ELSE pc[u]
    BY <1>1 DEF TurnsTo, Go
<1>3. Streams \subseteq Tasks /\ Tasks \subseteq Tasks /\ (t \in Streams \/ t \in Requests)
    BY DEF Tasks
<1>4. Queued(semQueue, Streams, AtSem)'
    <2>1. Queued(semQueue, Streams, AtSem) /\ Turns(semQueue, semQueue', AtSem, t, where)
        BY <1>1 DEF TurnsTo, QueuesInv
    <2>2. ASSUME t \in Streams
          PROVE  /\ semQueue' \in Seq(Streams) /\ IsInjective(semQueue')
                 /\ Range(semQueue') = {u \in Streams : pc'[u] \in AtSem}
        BY <1>1, <1>2, <1>3, <2>1, <2>2, QueueTurns
    <2>3. CASE t \in Streams
        BY <2>2, <2>3 DEF Queued
    <2>4. CASE t \notin Streams
        <3>1. semQueue' = semQueue /\ \A u \in Streams : pc'[u] = pc[u]
            BY <1>2, <1>3, <2>4 DEF TurnsTo
        <3> QED
            BY <2>1, <3>1 DEF Queued
    <2> QED
        BY <2>3, <2>4
<1>5. /\ yoloQueue' \in Seq(Tasks) /\ IsInjective(yoloQueue')
      /\ Range(yoloQueue') = {u \in Tasks : pc'[u] \in AtYolo}
      /\ \A u \in Tasks : (pc[u] \in AtYolo /\ u # t) =>
            (Head(yoloQueue) = u => Head(yoloQueue') = u)
    <2>1. Queued(yoloQueue, Tasks, AtYolo) /\ Turns(yoloQueue, yoloQueue', AtYolo, t, where)
        BY <1>1 DEF TurnsTo, QueuesInv
    <2> QED
        BY <1>1, <1>2, <1>3, <2>1, QueueTurns
<1>6. /\ ocrQueue' \in Seq(Tasks) /\ IsInjective(ocrQueue')
      /\ Range(ocrQueue') = {u \in Tasks : pc'[u] \in AtOcr}
      /\ \A u \in Tasks : (pc[u] \in AtOcr /\ u # t) => (Head(ocrQueue) = u => Head(ocrQueue') = u)
    <2>1. Queued(ocrQueue, Tasks, AtOcr) /\ Turns(ocrQueue, ocrQueue', AtOcr, t, where)
        BY <1>1 DEF TurnsTo, QueuesInv
    <2> QED
        BY <1>1, <1>2, <1>3, <2>1, QueueTurns
<1>7. QueuesInv'
    BY <1>4, <1>5, <1>6 DEF Queued, QueuesInv
<1>8. Loads(t, where)
    BY DEF TurnsTo
<1>9. LockInv'
    <2>1. ASSUME NEW u \in Tasks, pc'[u] = "load"
          PROVE  Head(yoloQueue') = u /\ ~yolo'
        <3>1. CASE u = t
            BY <1>2, <1>8, <2>1, <3>1 DEF Loads
        <3>2. CASE u # t
            <4>1. pc[u] = "load" /\ Head(yoloQueue) = u /\ ~yolo
                BY <1>1, <1>2, <2>1, <3>2 DEF LockInv
            <4>2. pc[t] # "load"
                BY <1>1, <3>2, <4>1 DEF LockInv
            <4> QED
                BY <1>5, <1>8, <3>2, <4>1, <4>2 DEF Loads, AtYolo
        <3> QED
            BY <3>1, <3>2
    <2>2. ASSUME NEW u \in Tasks, pc'[u] = "ocrload"
          PROVE  Head(ocrQueue') = u /\ ocr' = "unknown"
        <3>1. CASE u = t
            BY <1>2, <1>8, <2>2, <3>1 DEF Loads
        <3>2. CASE u # t
            <4>1. pc[u] = "ocrload" /\ Head(ocrQueue) = u /\ ocr = "unknown"
                BY <1>1, <1>2, <2>2, <3>2 DEF LockInv
            <4>2. Head(ocrQueue) # t
                BY <3>2, <4>1
            <4> QED
                BY <1>6, <1>8, <3>2, <4>1, <4>2 DEF Loads, AtOcr
        <3> QED
            BY <3>1, <3>2
    <2> QED
        BY <2>1, <2>2 DEF LockInv
<1>10. LoadsInv'
    <2>1. life' # "prewarm" /\ loads' \in [{"yolo", "ocr"} -> Nat]
        BY <1>8 DEF TurnsTo, Loads
    <2>2. yolo' \in BOOLEAN /\ loads'["yolo"] = IF yolo' THEN 1 ELSE 0
        <3>1. pc[t] = "load" => ~yolo
            BY <1>1 DEF LockInv
        <3>2. yolo \in BOOLEAN /\ loads["yolo"] = IF yolo THEN 1 ELSE 0
            BY <1>1 DEF LoadsInv
        <3>3. CASE UNCHANGED yolo /\ loads'["yolo"] = loads["yolo"]
            BY <3>2, <3>3
        <3>4. CASE pc[t] = "load" /\ yolo' = TRUE /\ loads'["yolo"] = loads["yolo"] + 1
            <4>1. loads["yolo"] = 0
                BY <3>1, <3>2, <3>4
            <4>2. loads'["yolo"] = 1
                BY <3>4, <4>1
            <4> QED
                BY <3>4, <4>2
        <3> QED
            BY <1>8, <3>3, <3>4 DEF Loads
    <2>3. loads'["ocr"] <= 1 /\ (ocr' = "unknown" => loads'["ocr"] = 0)
        BY <1>1, <1>8 DEF Loads, LoadsInv
    <2> QED
        BY <2>1, <2>2, <2>3 DEF LoadsInv
<1> QED
    BY <1>2, <1>7, <1>9, <1>10 DEF ModelInv

Turning(t) == \E where \in States : TurnsTo(t, where)

\* The three queues and the models after a step that leaves them alone.
Apart(t, where) ==
    /\ Go(t, where) /\ where \notin AtSem \cup AtYolo \cup AtOcr
    /\ pc[t] \notin AtSem \cup AtYolo \cup AtOcr
    /\ UNCHANGED <<semQueue, modelVars, life>> /\ life # "prewarm"

LEMMA ApartTurns ==
    ASSUME ModelInv, NEW t \in Tasks, NEW where \in States, Apart(t, where)
    PROVE  Turning(t)
<1>1. /\ UNCHANGED <<semQueue, modelVars, life>> /\ loads \in [{"yolo", "ocr"} -> Nat]
      /\ where # "load" /\ where # "ocrload" /\ life # "prewarm" /\ Go(t, where)
    BY DEF Apart, ModelInv, LoadsInv, AtYolo, AtOcr
<1>2. Loads(t, where)
    BY <1>1 DEF Loads
<1>3. /\ Turns(semQueue, semQueue', AtSem, t, where)
      /\ Turns(yoloQueue, yoloQueue', AtYolo, t, where)
      /\ Turns(ocrQueue, ocrQueue', AtOcr, t, where)
    BY <1>1 DEF Apart, Turns
<1> QED
    BY <1>1, <1>2, <1>3 DEF TurnsTo, Turning

LEMMA Names ==
    /\ {"off", "open", "backoff", "done", "retry", "yolo", "load", "read", "sem", "infer", "ocr",
        "ocrload", "xadd"} = States
    /\ Waiting = {"retry", "backoff"} /\ Holding = {"infer", "ocr", "ocrload", "xadd"}
BY DEF States, Trying, Waiting, Holding

LEMMA LoadersTurn ==
    ASSUME ModelInv, NEW t \in Tasks, Loaders(t)
    PROVE  Turning(t)
<1>1. /\ loads \in [{"yolo", "ocr"} -> Nat] /\ AfterYolo(t) \in {"read", "infer"}
      /\ pc[t] # "off" /\ life # "prewarm" /\ life' = life /\ semQueue' = semQueue
    BY DEF ModelInv, LoadsInv, AfterYolo, Loaders, YoloTurn, YoloLoaded, OcrTurn, OcrLoaded
<1>2. pc[t] = "load" => Head(yoloQueue) = t /\ ~yolo
    BY DEF ModelInv, LockInv
<1>3. pc[t] = "ocrload" => Head(ocrQueue) = t /\ ocr = "unknown"
    BY DEF ModelInv, LockInv
<1>4. CASE YoloTurn(t)
    <2> DEFINE where == IF yolo THEN AfterYolo(t) ELSE "load"
    <2>1. /\ Go(t, where) /\ pc[t] = "yolo" /\ Head(yoloQueue) = t
          /\ yoloQueue' = IF yolo THEN Tail(yoloQueue) ELSE yoloQueue
          /\ UNCHANGED <<yolo, ocr, ocrQueue, loads>>
        BY <1>4 DEF YoloTurn
    <2>2. where \in States /\ where \in {"read", "infer", "load"} /\ (where = "load" <=> ~yolo)
        BY <1>1, Names
    <2> HIDE DEF where
    <2>3. Loads(t, where)
        BY <1>1, <2>1, <2>2 DEF Loads
    <2>4. /\ Turns(semQueue, semQueue', AtSem, t, where)
          /\ Turns(yoloQueue, yoloQueue', AtYolo, t, where)
          /\ Turns(ocrQueue, ocrQueue', AtOcr, t, where)
        BY <1>1, <2>1, <2>2 DEF Turns, AtSem, AtYolo, AtOcr
    <2> QED
        BY <1>1, <2>1, <2>2, <2>3, <2>4 DEF TurnsTo, Turning
<1>5. CASE YoloLoaded(t)
    <2> DEFINE where == AfterYolo(t)
    <2>1. /\ Go(t, where) /\ pc[t] = "load" /\ yolo' = TRUE
          /\ loads' = [loads EXCEPT !["yolo"] = @ + 1]
          /\ yoloQueue' = Tail(yoloQueue) /\ UNCHANGED <<ocr, ocrQueue>>
        BY <1>5 DEF YoloLoaded
    <2>2. where \in States /\ where \in {"read", "infer"}
        BY <1>1, Names
    <2> HIDE DEF where
    <2>3. loads'["yolo"] = loads["yolo"] + 1 /\ loads'["ocr"] = loads["ocr"]
          /\ loads' \in [{"yolo", "ocr"} -> Nat]
        BY <1>1, <2>1
    <2>4. Loads(t, where)
        BY <2>1, <2>2, <2>3 DEF Loads
    <2>5. /\ Turns(semQueue, semQueue', AtSem, t, where)
          /\ Turns(yoloQueue, yoloQueue', AtYolo, t, where)
          /\ Turns(ocrQueue, ocrQueue', AtOcr, t, where)
        BY <1>1, <1>2, <2>1, <2>2 DEF Turns, AtSem, AtYolo, AtOcr
    <2> QED
        BY <1>1, <2>1, <2>2, <2>4, <2>5 DEF TurnsTo, Turning
<1>6. CASE OcrTurn(t)
    <2> DEFINE where == IF ocr = "unknown" /\ baked THEN "ocrload" ELSE "xadd"
    <2>1. /\ Go(t, where) /\ pc[t] = "ocr" /\ Head(ocrQueue) = t
          /\ UNCHANGED <<yolo, yoloQueue, loads>>
          /\ IF where = "ocrload" THEN UNCHANGED <<ocr, ocrQueue>> /\ ocr = "unknown"
             ELSE /\ ocrQueue' = Tail(ocrQueue)
                  /\ ocr' = IF ocr = "unknown" THEN "off" ELSE ocr
        BY <1>6 DEF OcrTurn
    <2>2. where \in States /\ where \in {"ocrload", "xadd"}
        BY Names
    <2> HIDE DEF where
    <2>3. Loads(t, where)
        BY <1>1, <2>1, <2>2 DEF Loads, AtOcr
    <2>4. /\ Turns(semQueue, semQueue', AtSem, t, where)
          /\ Turns(yoloQueue, yoloQueue', AtYolo, t, where)
          /\ Turns(ocrQueue, ocrQueue', AtOcr, t, where)
        BY <1>1, <2>1, <2>2 DEF Turns, AtSem, AtYolo, AtOcr
    <2> QED
        BY <1>1, <2>1, <2>2, <2>3, <2>4 DEF TurnsTo, Turning
<1>7. CASE OcrLoaded(t)
    <2>1. /\ Go(t, "xadd") /\ pc[t] = "ocrload" /\ ocrQueue' = Tail(ocrQueue)
          /\ UNCHANGED <<yolo, yoloQueue>> /\ ocr' \in {"ready", "off"}
          /\ loads' = loads \/ loads' = [loads EXCEPT !["ocr"] = @ + 1]
        BY <1>7 DEF OcrLoaded
    <2>2. "xadd" \in States
        BY Names
    <2>3. /\ loads'["yolo"] = loads["yolo"] /\ loads'["ocr"] \in {loads["ocr"], loads["ocr"] + 1}
          /\ loads' \in [{"yolo", "ocr"} -> Nat]
        BY <1>1, <2>1
    <2>4. Loads(t, "xadd")
        BY <1>3, <2>1, <2>3 DEF Loads, AtOcr
    <2>5. /\ Turns(semQueue, semQueue', AtSem, t, "xadd")
          /\ Turns(yoloQueue, yoloQueue', AtYolo, t, "xadd")
          /\ Turns(ocrQueue, ocrQueue', AtOcr, t, "xadd")
        BY <1>1, <1>3, <2>1 DEF Turns, AtSem, AtYolo, AtOcr
    <2> QED
        BY <1>1, <2>1, <2>2, <2>4, <2>5 DEF TurnsTo, Turning
<1> QED
    BY <1>4, <1>5, <1>6, <1>7 DEF Loaders

LEMMA CallYoloTurns ==
    ASSUME ModelInv, NEW t \in Tasks, CallYolo(t), pc[t] \in {"off", "open"}, life # "prewarm",
           UNCHANGED <<life, semQueue, yolo, ocr, ocrQueue, loads>>
    PROVE  Turning(t)
<1> DEFINE where == IF yolo THEN AfterYolo(t) ELSE "yolo"
<1>1. /\ Go(t, where) /\ loads \in [{"yolo", "ocr"} -> Nat]
      /\ yoloQueue' = IF yolo THEN yoloQueue ELSE Append(yoloQueue, t)
    BY DEF CallYolo, ModelInv, LoadsInv
<1>2. where \in States /\ where \in {"read", "infer", "yolo"} /\ (where = "yolo" <=> ~yolo)
    BY Names DEF AfterYolo
<1> HIDE DEF where
<1>3. Loads(t, where)
    BY <1>1, <1>2 DEF Loads
<1>4. /\ Turns(semQueue, semQueue', AtSem, t, where)
      /\ Turns(yoloQueue, yoloQueue', AtYolo, t, where)
      /\ Turns(ocrQueue, ocrQueue', AtOcr, t, where)
    BY <1>1, <1>2 DEF Turns, AtSem, AtYolo, AtOcr
<1> QED
    BY <1>1, <1>2, <1>3, <1>4 DEF TurnsTo, Turning

\* The loop over the boxes of a frame, which may ask for the OCR engine.
LEMMA BoxTurns ==
    ASSUME ModelInv, NEW t \in Tasks, pc[t] \in {"infer", "xadd"}, life # "prewarm",
           NEW where \in {"read", "done", "xadd", "ocr"}, Go(t, where),
           ocrQueue' = IF where = "ocr" THEN Append(ocrQueue, t) ELSE ocrQueue,
           UNCHANGED <<life, semQueue, yolo, yoloQueue, ocr, loads>>
    PROVE  Turning(t)
<1>1. where \in States /\ loads \in [{"yolo", "ocr"} -> Nat]
    BY Names DEF ModelInv, LoadsInv
<1>2. Loads(t, where)
    BY <1>1 DEF Loads
<1>3. /\ Turns(semQueue, semQueue', AtSem, t, where)
      /\ Turns(yoloQueue, yoloQueue', AtYolo, t, where)
      /\ Turns(ocrQueue, ocrQueue', AtOcr, t, where)
    BY DEF Turns, AtSem, AtYolo, AtOcr
<1> QED
    BY <1>1, <1>2, <1>3 DEF TurnsTo, Turning

\* A load that fails gives the lock back.
LEMMA LoadFailsTurns ==
    ASSUME ModelInv, NEW t \in Tasks, pc[t] = "load",
           NEW where \in {"backoff", "done"}, Go(t, where), yoloQueue' = Tail(yoloQueue),
           UNCHANGED <<life, semQueue, yolo, ocr, ocrQueue, loads>>
    PROVE  Turning(t)
<1>1. /\ where \in States /\ loads \in [{"yolo", "ocr"} -> Nat] /\ life # "prewarm"
      /\ Head(yoloQueue) = t
    BY Names DEF ModelInv, LoadsInv, LockInv
<1>2. Loads(t, where)
    BY <1>1 DEF Loads
<1>3. /\ Turns(semQueue, semQueue', AtSem, t, where)
      /\ Turns(yoloQueue, yoloQueue', AtYolo, t, where)
      /\ Turns(ocrQueue, ocrQueue', AtOcr, t, where)
    BY <1>1 DEF Turns, AtSem, AtYolo, AtOcr
<1> QED
    BY <1>1, <1>2, <1>3 DEF TurnsTo, Turning

\* The semaphore: to its queue, and from its head.
LEMMA SemTurns ==
    ASSUME ModelInv, NEW s \in Streams, TakeFrame(s) \/ Acquire(s), life # "prewarm"
    PROVE  Turning(s)
<1> DEFINE where == IF pc[s] = "sem" THEN "infer" ELSE "sem"
<1>1. /\ s \in Tasks /\ s \notin Requests /\ loads \in [{"yolo", "ocr"} -> Nat]
      /\ where \in States /\ where # "load" /\ where # "ocrload"
    BY Names, InferenceAssumption DEF ModelInv, LoadsInv, Tasks
<1>2. Go(s, where) /\ UNCHANGED <<life, modelVars>>
    BY DEF TakeFrame, Acquire
<1>3. Loads(s, where)
    BY <1>1, <1>2 DEF Loads
<1>4. Turns(semQueue, semQueue', AtSem, s, where)
    BY DEF TakeFrame, Enqueued, Acquire, Turns, AtSem
<1>5. /\ Turns(yoloQueue, yoloQueue', AtYolo, s, where)
      /\ Turns(ocrQueue, ocrQueue', AtOcr, s, where)
    BY <1>2 DEF TakeFrame, Acquire, Turns, AtYolo, AtOcr
<1> QED
    BY <1>1, <1>2, <1>3, <1>4, <1>5 DEF TurnsTo, Turning

LEMMA StreamTurns ==
    ASSUME ModelInv, NEW s \in Streams, Stream(s) \/ StreamFaults(s)
    PROVE  Turning(s)
<1>0. s \in Tasks /\ life # "prewarm"
    BY DEF Tasks, Stream, StreamFaults
<1>1. CASE Open(s)
    BY <1>0, <1>1, CallYoloTurns DEF Open
<1>2. CASE OpenFails(s) \/ OpenRaises(s) \/ Reopen(s) \/ LoseFrame(s)
    <2>1. PICK where \in {"retry", "backoff", "open"} : Go(s, where)
        BY <1>2 DEF OpenFails, NotOpened, OpenRaises, Reopen, LoseFrame, Backoff
    <2>2. pc[s] \in {"open", "retry", "backoff", "read"} /\ UNCHANGED <<life, semQueue, modelVars>>
        BY <1>2, Names DEF OpenFails, OpenRaises, Reopen, LoseFrame
    <2>3. where \in States
        BY Names
    <2>4. Apart(s, where)
        BY <1>0, <2>1, <2>2 DEF Apart, AtSem, AtYolo, AtOcr
    <2> QED
        BY <1>0, <2>3, <2>4, ApartTurns
<1>3. CASE TakeFrame(s) \/ Acquire(s)
    BY <1>0, <1>3, SemTurns
<1>4. ASSUME NEW n, NextBox(s, n), pc[s] \in {"infer", "xadd"}
      PROVE  Turning(s)
    <2>1. PICK where \in {"read", "xadd", "ocr"} :
              /\ Go(s, where)
              /\ ocrQueue' = IF where = "ocr" THEN Append(ocrQueue, s) ELSE ocrQueue
        BY <1>4 DEF NextBox, CallOcr
    <2>2. UNCHANGED <<life, semQueue, yolo, yoloQueue, ocr, loads>>
        BY <1>4 DEF NextBox
    <2> QED
        BY <1>0, <1>4, <2>1, <2>2, BoxTurns
<1>5. CASE Inferred(s) \/ Published(s)
    BY <1>4, <1>5 DEF Inferred, Published
<1>6. CASE FrameFails(s)
    <2>1. /\ Go(s, "read") /\ pc[s] \in {"infer", "xadd"} /\ UNCHANGED <<life, semQueue, modelVars>>
          /\ "read" \in States
        BY <1>6, Names DEF FrameFails
    <2>2. Apart(s, "read")
        BY <1>0, <2>1 DEF Apart, AtSem, AtYolo, AtOcr
    <2> QED
        BY <1>0, <2>1, <2>2, ApartTurns
<1>7. CASE StreamLoadFails(s)
    BY <1>0, <1>7, LoadFailsTurns DEF StreamLoadFails, Backoff
<1>8. CASE Loaders(s)
    BY <1>0, <1>8, LoadersTurn
<1> QED
    BY <1>1, <1>2, <1>3, <1>5, <1>6, <1>7, <1>8 DEF Stream, StreamFaults

LEMMA RequestTurns ==
    ASSUME ModelInv, NEW q \in Requests, Arrive(q) \/ Request(q) \/ RequestLoadFails(q)
    PROVE  Turning(q)
<1>0. q \in Tasks /\ (pc[q] # "off" => life # "prewarm")
    BY DEF Tasks, ModelInv, LoadsInv
<1>1. CASE Arrive(q)
    <2>1. CASE CallYolo(q)
        BY <1>0, <1>1, <2>1, CallYoloTurns DEF Arrive
    <2>2. CASE Go(q, "done") /\ UNCHANGED yoloQueue
        <3>1. Apart(q, "done") /\ "done" \in States
            BY <1>1, <2>2, Names DEF Arrive, Apart, AtSem, AtYolo, AtOcr
        <3> QED
            BY <1>0, <3>1, ApartTurns
    <2> QED
        BY <1>1, <2>1, <2>2 DEF Arrive
<1>2. CASE RequestInferred(q) \/ RequestPublishes(q)
    <2>1. /\ pc[q] \in {"infer", "xadd"}
          /\ UNCHANGED <<life, semQueue, yolo, yoloQueue, ocr, loads>>
        BY <1>2 DEF RequestInferred, RequestPublishes
    <2>2. PICK where \in {"done", "xadd", "ocr"} :
              /\ Go(q, where)
              /\ ocrQueue' = IF where = "ocr" THEN Append(ocrQueue, q) ELSE ocrQueue
        BY <1>2 DEF RequestInferred, RequestPublishes, CallOcr
    <2> QED
        BY <1>0, <2>1, <2>2, BoxTurns
<1>3. CASE RequestLoadFails(q)
    BY <1>0, <1>3, LoadFailsTurns DEF RequestLoadFails
<1>4. CASE Loaders(q)
    BY <1>0, <1>4, LoadersTurn
<1> QED
    BY <1>1, <1>2, <1>3, <1>4 DEF Request

\* A cancelled task leaves every queue at once.
LEMMA LifespanTurns ==
    ASSUME ModelInv, NEW s \in Streams, StartStream(s) \/ Cancelled(s)
    PROVE  Turning(s)
<1>0. s \in Tasks /\ s \notin Requests /\ loads \in [{"yolo", "ocr"} -> Nat]
    BY InferenceAssumption DEF Tasks, ModelInv, LoadsInv
<1>1. CASE StartStream(s)
    <2>1. Apart(s, "open") /\ "open" \in States
        BY <1>1, Names DEF StartStream, Apart, AtSem, AtYolo, AtOcr
    <2> QED
        BY <1>0, <2>1, ApartTurns
<1>2. CASE Cancelled(s)
    <2>1. /\ Go(s, "done") /\ life # "prewarm" /\ UNCHANGED <<life, yolo, ocr, loads>>
          /\ semQueue' = Without(semQueue, {s}) /\ yoloQueue' = Without(yoloQueue, {s})
          /\ ocrQueue' = Without(ocrQueue, {s}) /\ "done" \in States
        BY <1>2, Names DEF Cancelled
    <2>2. Loads(s, "done")
        BY <1>0, <2>1 DEF Loads
    <2>3. /\ Turns(semQueue, semQueue', AtSem, s, "done")
          /\ Turns(yoloQueue, yoloQueue', AtYolo, s, "done")
          /\ Turns(ocrQueue, ocrQueue', AtOcr, s, "done")
        BY <2>1 DEF Turns, AtSem, AtYolo, AtOcr
    <2> QED
        BY <1>0, <2>1, <2>2, <2>3 DEF TurnsTo, Turning
<1> QED
    BY <1>1, <1>2

\* The first load, before any task runs.
LEMMA PrewarmPreserves ==
    ASSUME ModelInv, Prewarm
    PROVE  ModelInv'
<1>1. /\ life = "prewarm" /\ life' = "starting" /\ UNCHANGED <<pc, semQueue, yoloQueue, ocr, ocrQueue>>
      /\ \/ yolo' = TRUE /\ loads' = [loads EXCEPT !["yolo"] = @ + 1]
         \/ UNCHANGED <<yolo, loads>>
    BY DEF Prewarm
<1>2. /\ yolo \in BOOLEAN /\ ~yolo /\ \A t \in Tasks : pc[t] = "off"
      /\ loads \in [{"yolo", "ocr"} -> Nat] /\ loads["yolo"] = 0 /\ loads["ocr"] <= 1
      /\ ocr = "unknown" => loads["ocr"] = 0
    BY <1>1 DEF ModelInv, LoadsInv
<1>3. QueuesInv'
    BY <1>1 DEF ModelInv, QueuesInv, Queued
<1>4. LockInv'
    BY <1>1, <1>2 DEF LockInv
<1>5. LoadsInv'
    <2>1. CASE yolo' = TRUE /\ loads' = [loads EXCEPT !["yolo"] = @ + 1]
        <3>1. /\ loads' \in [{"yolo", "ocr"} -> Nat] /\ loads'["yolo"] = 1
              /\ loads'["ocr"] = loads["ocr"]
            BY <1>2, <2>1
        <3> QED
            BY <1>1, <1>2, <2>1, <3>1 DEF LoadsInv
    <2>2. CASE UNCHANGED <<yolo, loads>>
        BY <1>1, <1>2, <2>2 DEF LoadsInv
    <2> QED
        BY <1>1, <2>1, <2>2
<1> QED
    BY <1>1, <1>3, <1>4, <1>5 DEF ModelInv

LEMMA ModelInvariance == Spec => []ModelInv
<1>1. Init => ModelInv
    <2> SUFFICES ASSUME Init  PROVE ModelInv
        OBVIOUS
    <2>1. \A U : <<>> \in Seq(U) /\ IsInjective(<<>>) /\ Range(<<>>) = {}
        BY DEF IsInjective, Range
    <2>2. pc \in [Tasks -> States] /\ \A t \in Tasks : pc[t] = "off"
        BY Names DEF Init
    <2>3. QueuesInv
        BY <2>1, <2>2 DEF Init, QueuesInv, Queued, AtSem, AtYolo, AtOcr, Tasks
    <2>4. LockInv
        BY <2>2 DEF LockInv
    <2>5. LoadsInv
        <3>1. loads \in [{"yolo", "ocr"} -> Nat] /\ loads["yolo"] = 0 /\ loads["ocr"] = 0 /\ yolo = FALSE
            BY DEF Init
        <3>2. yolo \in BOOLEAN /\ ~yolo /\ loads["yolo"] = IF yolo THEN 1 ELSE 0
            BY <3>1
        <3>3. loads["ocr"] <= 1
            BY <3>1
        <3> QED
            BY <2>2, <3>1, <3>2, <3>3, Zenon DEF LoadsInv
    <2> QED
        BY <2>2, <2>3, <2>4, <2>5 DEF ModelInv
<1>2. ModelInv /\ [Next]_vars => ModelInv'
    <2> SUFFICES ASSUME ModelInv, [Next]_vars  PROVE ModelInv'
        OBVIOUS
    <2>1. ASSUME NEW t \in Tasks, Turning(t)  PROVE ModelInv'
        BY <2>1, TurnPreserves DEF Turning
    <2>2. ASSUME UNCHANGED <<pc, semQueue, modelVars>>, life' = life \/ life' # "prewarm"
          PROVE  ModelInv'
        BY <2>2 DEF ModelInv, QueuesInv, Queued, LockInv, LoadsInv
    <2>3. CASE Serve \/ Stop \/ Stopped \/ RedisFails \/ RedisReturns \/ UNCHANGED vars
        BY <2>2, <2>3 DEF Serve, Stop, Stopped, RedisFails, RedisReturns
    <2>4. ASSUME NEW s \in Streams, CameraFails(s) \/ CameraReturns(s)  PROVE ModelInv'
        BY <2>2, <2>4 DEF CameraFails, CameraReturns
    <2>5. Streams \subseteq Tasks /\ Requests \subseteq Tasks
        BY DEF Tasks
    <2> QED
        BY <2>1, <2>3, <2>4, <2>5, StreamTurns, RequestTurns, LifespanTurns, PrewarmPreserves
           DEF Next, Lifespan
<1> QED
    BY <1>1, <1>2, PTL DEF Spec

\* Permits, holders and queues always account for every task, and nobody waits
\* in a queue who has failed, been cancelled or been served.
THEOREM PermitsBalancedAlways == Spec => []PermitsBalanced
<1>1. ModelInv /\ PermitsCounted => PermitsBalanced
    BY DEF ModelInv, QueuesInv, Queued, PermitsBalanced, AtSem, AtYolo, AtOcr
<1> QED
    BY <1>1, ModelInvariance, PermitsCountedAlways, PTL

\* Each model is loaded once, however many tasks ask for it and whatever failed
\* before, as only the head of a queue whose model is not there loads.
THEOREM LoadedOnceAlways == Spec => []LoadedOnce
<1>1. ModelInv => LoadedOnce
    BY DEF ModelInv, LoadsInv, LoadedOnce
<1> QED
    BY <1>1, ModelInvariance, PTL

-----------------------------------------------------------------------------
(***************************************************************************)
(* Types: a task that reads plates or publishes has a box left, so that    *)
(* what it counts down to is a number of boxes; and the waits stay in the  *)
(* range that BackoffDelay gives.                                          *)
(***************************************************************************)

Reading == {"ocr", "ocrload", "xadd"}

FrameInv ==
    /\ pc \in [Tasks -> States]
    /\ boxes \in [Tasks -> 0..MaxBoxes]
    /\ \A t \in Tasks : pc[t] \in Reading => boxes[t] > 0

\* A step of t leaves its boxes alone, or has n left.
Spares(t, where) ==
    /\ Go(t, where)
    /\ boxes' = boxes
    /\ where \in Reading => pc[t] \in Reading

Leaving(t, where, n) ==
    /\ Go(t, where)
    /\ boxes' = [boxes EXCEPT ![t] = n]
    /\ where \in Reading => n > 0

Counts(t) == \E where \in States : Spares(t, where) \/ \E n \in 0..MaxBoxes : Leaving(t, where, n)

RestInv ==
    /\ life \in {"prewarm", "starting", "serving", "stopping", "stopped"}
    /\ ocr \in {"unknown", "ready", "off"}
    /\ baked \in BOOLEAN
    /\ retries \in [Streams -> 0..4]
    /\ delay \in [Streams -> 0..30]
    /\ camera \in [Streams -> BOOLEAN]
    /\ redisUp \in BOOLEAN
    /\ faults \in 0..MaxFaults

USE DEF Reading, States, Trying, Holding, Waiting

LEMMA SparesCounts ==
    ASSUME NEW t, NEW where \in States, Go(t, where),
           boxes' = boxes, where \in Reading => pc[t] \in Reading
    PROVE  Counts(t)
BY DEF Counts, Spares

LEMMA LeavingCounts ==
    ASSUME NEW t, NEW where \in States, Go(t, where),
           NEW n \in 0..MaxBoxes, boxes' = [boxes EXCEPT ![t] = n], where \in Reading => n > 0
    PROVE  Counts(t)
BY DEF Counts, Leaving

LEMMA CountPreserves ==
    ASSUME FrameInv, NEW t \in Tasks, Counts(t)
    PROVE  FrameInv'
<1>1. PICK where \in States : Spares(t, where) \/ \E n \in 0..MaxBoxes : Leaving(t, where, n)
    BY DEF Counts
<1>2. pc' \in [Tasks -> States] /\ \A u \in Tasks : pc'[u] = IF u = t THEN where ELSE pc[u]
    BY <1>1 DEF Spares, Leaving, Go, FrameInv
<1>3. CASE Spares(t, where)
    BY <1>2, <1>3 DEF Spares, FrameInv
<1>4. ASSUME NEW n \in 0..MaxBoxes, Leaving(t, where, n)
      PROVE  FrameInv'
    <2>1. boxes' \in [Tasks -> 0..MaxBoxes] /\ \A u \in Tasks : boxes'[u] = IF u = t THEN n ELSE boxes[u]
        BY <1>4 DEF Leaving, FrameInv
    <2> QED
        BY <1>2, <1>4, <2>1 DEF Leaving, FrameInv
<1> QED
    BY <1>1, <1>3, <1>4

LEMMA LoadersCount ==
    ASSUME NEW t \in Tasks, Loaders(t)
    PROVE  Counts(t)
<1>1. CASE YoloTurn(t)
    BY SparesCounts, <1>1 DEF YoloTurn, AfterYolo
<1>2. CASE YoloLoaded(t)
    BY SparesCounts, <1>2 DEF YoloLoaded, AfterYolo
<1>3. CASE OcrTurn(t)
    BY SparesCounts, <1>3 DEF OcrTurn
<1>4. CASE OcrLoaded(t)
    BY SparesCounts, <1>4 DEF OcrLoaded
<1> QED
    BY <1>1, <1>2, <1>3, <1>4 DEF Loaders

LEMMA StreamCounts ==
    ASSUME FrameInv, NEW s \in Streams, Stream(s) \/ StreamFaults(s)
    PROVE  Counts(s)
<1> s \in Tasks
    BY DEF Tasks
<1>1. CASE Open(s)
    BY SparesCounts, <1>1 DEF Open, CallYolo, AfterYolo
<1>2. CASE OpenFails(s) \/ OpenRaises(s)
    BY SparesCounts, <1>2 DEF OpenFails, NotOpened, OpenRaises, Backoff
<1>3. CASE Reopen(s) \/ LoseFrame(s) \/ StreamLoadFails(s)
    BY SparesCounts, <1>3 DEF Reopen, LoseFrame, StreamLoadFails, Backoff
<1>4. CASE TakeFrame(s) \/ Acquire(s)
    BY SparesCounts, <1>4 DEF TakeFrame, Acquire
<1>5. ASSUME NEW n \in 0..MaxBoxes, NextBox(s, n)
      PROVE  Counts(s)
    <2>1. boxes' = [boxes EXCEPT ![s] = n] /\ \E where \in States : Go(s, where) /\ (where \in Reading => n > 0)
        BY <1>5 DEF NextBox, CallOcr
    <2> QED
        BY <1>5, <2>1, LeavingCounts
<1>6. CASE Inferred(s)
    BY <1>5, <1>6 DEF Inferred
<1>7. CASE Published(s)
    <2>1. boxes[s] - 1 \in 0..MaxBoxes
        BY <1>7, InferenceAssumption DEF Published, FrameInv
    <2> QED
        BY <1>5, <1>7, <2>1 DEF Published
<1>8. CASE FrameFails(s)
    <2>1. Go(s, "read") /\ boxes' = [boxes EXCEPT ![s] = 0] /\ 0 \in 0..MaxBoxes
        BY <1>8, InferenceAssumption DEF FrameFails
    <2>2. "read" \in States /\ "read" \notin Reading
        OBVIOUS
    <2> HIDE DEF States, Reading
    <2> QED
        BY <2>1, <2>2, LeavingCounts
<1>9. CASE Loaders(s)
    BY <1>9, LoadersCount
<1> QED
    BY <1>1, <1>2, <1>3, <1>4, <1>6, <1>7, <1>8, <1>9 DEF Stream, StreamFaults

LEMMA RequestCounts ==
    ASSUME FrameInv, NEW q \in Requests, Arrive(q) \/ Request(q) \/ RequestLoadFails(q)
    PROVE  Counts(q)
<1> q \in Tasks /\ q \notin Streams
    BY InferenceAssumption DEF Tasks
<1>1. CASE Arrive(q) \/ RequestLoadFails(q)
    BY SparesCounts, <1>1 DEF Arrive, RequestLoadFails, CallYolo, AfterYolo
<1>2. CASE RequestInferred(q)
    <2>1. PICK n \in 0..MaxBoxes :
              /\ boxes' = [boxes EXCEPT ![q] = n]
              /\ \E where \in States : Go(q, where) /\ (where \in Reading => n > 0)
        <3>1. PICK n \in 0..MaxBoxes :
                  /\ boxes' = [boxes EXCEPT ![q] = n]
                  /\ \/ n = 0 /\ Go(q, "done")
                     \/ n > 0 /\ (Go(q, "xadd") \/ Go(q, "ocr"))
            BY <1>2 DEF RequestInferred, CallOcr
        <3>2. \E where \in States : Go(q, where) /\ (where \in Reading => n > 0)
            BY <3>1
        <3> HIDE DEF States, Reading
        <3> QED
            BY <3>1, <3>2
    <2> QED
        BY <2>1, LeavingCounts
<1>3. CASE RequestPublishes(q)
    <2>1. boxes[q] \in 0..MaxBoxes /\ boxes[q] > 0
        BY <1>3 DEF RequestPublishes, FrameInv
    <2>2. boxes[q] - 1 \in 0..MaxBoxes /\ (boxes[q] # 1 => boxes[q] - 1 > 0)
        BY <2>1, InferenceAssumption
    <2>3. boxes' = [boxes EXCEPT ![q] = boxes[q] - 1] /\ Go(q, IF boxes[q] = 1 THEN "done" ELSE "xadd")
        BY <1>3 DEF RequestPublishes
    <2>4. \E where \in States : Go(q, where) /\ (where \in Reading => boxes[q] - 1 > 0)
        <3>1. CASE boxes[q] = 1
            BY <2>3, <3>1
        <3>2. CASE boxes[q] # 1
            BY <2>2, <2>3, <3>2
        <3> QED
            BY <3>1, <3>2
    <2> QED
        BY <2>2, <2>3, <2>4, LeavingCounts
<1>4. CASE Loaders(q)
    BY <1>4, LoadersCount
<1> QED
    BY <1>1, <1>2, <1>3, <1>4 DEF Request

\* A task that has to read or publish a plate has a box left that it stands for.
LEMMA FrameInvariance == Spec => []FrameInv
<1>1. Init => FrameInv
    BY InferenceAssumption DEF Init, FrameInv
<1>2. FrameInv /\ [Next]_vars => FrameInv'
    <2> SUFFICES ASSUME FrameInv, [Next]_vars  PROVE FrameInv'
        OBVIOUS
    <2>1. ASSUME NEW s \in Streams, StartStream(s) \/ Cancelled(s)  PROVE Counts(s)
        BY <2>1, SparesCounts, LeavingCounts, InferenceAssumption DEF StartStream, Cancelled
    <2>2. ASSUME UNCHANGED <<pc, boxes>>  PROVE FrameInv'
        BY <2>2 DEF FrameInv
    <2>3. CASE Prewarm \/ Serve \/ Stopped \/ Stop \/ RedisFails \/ RedisReturns \/ UNCHANGED vars
        BY <2>2, <2>3 DEF Prewarm, Serve, Stopped, Stop, RedisFails, RedisReturns
    <2>4. ASSUME NEW s \in Streams, CameraFails(s) \/ CameraReturns(s)  PROVE FrameInv'
        BY <2>2, <2>4 DEF CameraFails, CameraReturns
    <2>5. Streams \subseteq Tasks /\ Requests \subseteq Tasks
        BY DEF Tasks
    <2> QED
        BY <2>1, <2>3, <2>4, <2>5, StreamCounts, RequestCounts, CountPreserves DEF Next, Lifespan
<1> QED
    BY <1>1, <1>2, PTL DEF Spec

LEMMA BackoffBounded == \A n \in 0..4 : BackoffDelay(n) \in 0..30
<1> SUFFICES ASSUME NEW n \in 0..4  PROVE BackoffDelay(n) \in 0..30
    OBVIOUS
<1>1. n = 0 \/ n = 1 \/ n = 2 \/ n = 3 \/ n = 4
    OBVIOUS
<1>2. BackoffDelay(0) = 2 /\ BackoffDelay(1) = 4 /\ BackoffDelay(2) = 8 /\ BackoffDelay(3) = 16
    <2>1. 2^0 = 1 /\ 2^1 = 2 /\ 2^2 = 4 /\ 2^3 = 8
        OBVIOUS
    <2> QED
        BY <2>1 DEF BackoffDelay
<1>3. BackoffDelay(4) = 30
    BY DEF BackoffDelay
<1> QED
    BY <1>1, <1>2, <1>3

LEMMA BackoffKeepsTypes ==
    ASSUME NEW s \in Streams, Backoff(s),
           retries \in [Streams -> 0..4], delay \in [Streams -> 0..30]
    PROVE  retries' \in [Streams -> 0..4] /\ delay' \in [Streams -> 0..30]
<1>1. retries[s] \in 0..4 /\ BackoffDelay(retries[s]) \in 0..30
    BY BackoffBounded
<1>2. delay' = [delay EXCEPT ![s] = BackoffDelay(retries[s])]
    BY DEF Backoff
<1>3. retries' = [retries EXCEPT ![s] = IF retries[s] < 4 THEN retries[s] + 1 ELSE retries[s]]
    BY DEF Backoff
<1>4. (IF retries[s] < 4 THEN retries[s] + 1 ELSE retries[s]) \in 0..4
    BY <1>1
<1> QED
    BY <1>1, <1>2, <1>3, <1>4

LEMMA FaultBounded == faults \in 0..MaxFaults /\ Fault => faults' \in 0..MaxFaults
BY InferenceAssumption DEF Fault

LEMMA LoadersRest ==
    ASSUME RestInv, NEW t \in Tasks, Loaders(t)
    PROVE  RestInv'
<1>1. CASE YoloTurn(t) \/ YoloLoaded(t)
    BY <1>1 DEF YoloTurn, YoloLoaded, RestInv
<1>2. CASE OcrTurn(t)
    <2>1. ocr' \in {"unknown", "ready", "off"} /\ UNCHANGED <<life, baked, linkVars, envVars>>
        BY <1>2 DEF OcrTurn, RestInv
    <2> QED
        BY <2>1 DEF RestInv
<1>3. CASE OcrLoaded(t)
    BY <1>3, FaultBounded DEF OcrLoaded, RestInv
<1> QED
    BY <1>1, <1>2, <1>3 DEF Loaders

LEMMA StreamRest ==
    ASSUME RestInv, NEW s \in Streams, Stream(s) \/ StreamFaults(s)
    PROVE  RestInv'
<1>1. CASE Open(s)
    BY <1>1 DEF Open, RestInv
<1>2. CASE OpenFails(s)
    BY <1>2 DEF OpenFails, NotOpened, RestInv
<1>3. CASE OpenRaises(s)
    BY <1>3, FaultBounded, BackoffKeepsTypes DEF OpenRaises, RestInv
<1>4. CASE Reopen(s)
    BY <1>4 DEF Reopen, RestInv
<1>5. CASE LoseFrame(s)
    BY <1>5, BackoffKeepsTypes DEF LoseFrame, RestInv
<1>6. CASE StreamLoadFails(s)
    BY <1>6, FaultBounded, BackoffKeepsTypes DEF StreamLoadFails, RestInv
<1>7. CASE TakeFrame(s)
    BY <1>7 DEF TakeFrame, RestInv
<1>8. CASE Acquire(s)
    BY <1>8 DEF Acquire, RestInv
<1>9. CASE Inferred(s) \/ Published(s)
    <2>1. PICK n : NextBox(s, n)
        BY <1>9 DEF Inferred, Published
    <2> QED
        BY <2>1 DEF NextBox, RestInv
<1>10. CASE FrameFails(s)
    BY <1>10, FaultBounded DEF FrameFails, RestInv
<1>11. CASE Loaders(s)
    BY <1>11, LoadersRest DEF Tasks
<1> QED
    BY <1>1, <1>2, <1>3, <1>4, <1>5, <1>6, <1>7, <1>8, <1>9, <1>10, <1>11 DEF Stream, StreamFaults

LEMMA RequestRest ==
    ASSUME RestInv, NEW q \in Requests, Arrive(q) \/ Request(q) \/ RequestLoadFails(q)
    PROVE  RestInv'
<1>1. CASE Arrive(q) \/ RequestInferred(q) \/ RequestPublishes(q)
    BY <1>1 DEF Arrive, RequestInferred, RequestPublishes, RestInv
<1>2. CASE RequestLoadFails(q)
    BY <1>2, FaultBounded DEF RequestLoadFails, RestInv
<1>3. CASE Loaders(q)
    BY <1>3, LoadersRest DEF Tasks
<1> QED
    BY <1>1, <1>2, <1>3 DEF Request

LEMMA RestInvariance == Spec => []RestInv
<1>1. Init => RestInv
    BY InferenceAssumption DEF Init, RestInv
<1>2. RestInv /\ [Next]_vars => RestInv'
    <2> SUFFICES ASSUME RestInv, [Next]_vars  PROVE RestInv'
        OBVIOUS
    <2>1. CASE Prewarm \/ Serve \/ Stopped \/ Stop
        BY <2>1 DEF Prewarm, Serve, Stopped, Stop, RestInv
    <2>2. ASSUME NEW s \in Streams, StartStream(s) \/ Cancelled(s)  PROVE RestInv'
        BY <2>2 DEF StartStream, Cancelled, RestInv
    <2>3. ASSUME NEW s \in Streams, CameraFails(s) \/ CameraReturns(s)  PROVE RestInv'
        BY <2>3, FaultBounded DEF CameraFails, CameraReturns, RestInv
    <2>4. CASE RedisFails \/ RedisReturns
        BY <2>4, FaultBounded DEF RedisFails, RedisReturns, RestInv
    <2>5. CASE UNCHANGED vars
        BY <2>5 DEF RestInv
    <2> QED
        BY <2>1, <2>2, <2>3, <2>4, <2>5, StreamRest, RequestRest DEF Next, Lifespan
<1> QED
    BY <1>1, <1>2, PTL DEF Spec

\* The service's variables keep their types: no permit beyond MaxInference, no
\* box below zero, no wait beyond 30 s.
THEOREM TypeCorrectness == Spec => []TypeOK
<1>1. PermitInv => permits \in 0..MaxInference
    BY HoldersFinite, InferenceAssumption DEF PermitInv, PermitsCounted
<1>2. ModelInv => /\ semQueue \in Seq(Streams) /\ yoloQueue \in Seq(Tasks) /\ ocrQueue \in Seq(Tasks)
                  /\ yolo \in BOOLEAN /\ loads \in [{"yolo", "ocr"} -> Nat]
    BY DEF ModelInv, QueuesInv, Queued, LoadsInv
<1>3. CaptureInv => cap \in [Streams -> BOOLEAN]
    BY DEF CaptureInv
<1>4. PermitInv /\ ModelInv /\ CaptureInv /\ FrameInv /\ RestInv => TypeOK
    BY <1>1, <1>2, <1>3 DEF FrameInv, RestInv, TypeOK
<1> QED
    BY <1>4, PermitInvariance, ModelInvariance, CaptureInvariance, FrameInvariance, RestInvariance, PTL

=============================================================================
