--------------------------- MODULE InferenceService ---------------------------
(***************************************************************************)
(* backend/ai-service/main.py: one task per camera stream and one per      *)
(* /infer request, which share a lazily loaded YOLO model, a lazily loaded *)
(* OCR engine and, among the streams, a semaphore around inference.  All   *)
(* run on one event loop: a step goes from one await to the next, except   *)
(* that a request runs its inference without an await and holds up the     *)
(* loop.  What a frame shows is left open: any number of boxes, of which   *)
(* any may be a vehicle whose plate has to be read.                        *)
(***************************************************************************)
EXTENDS Integers, FiniteSets, Sequences, SequencesExt, Queues

CONSTANTS
    Streams,            \* stream_ids
    Requests,           \* calls of /infer and /infer/url
    MaxInference,       \* MAX_CONCURRENT_INFERENCE
    MaxBoxes,           \* bound on the boxes of a frame
    MaxFaults           \* bound on the failures of a behaviour

ASSUME InferenceAssumption ==
    /\ IsFiniteSet(Streams)
    /\ Streams \cap Requests = {}
    /\ MaxInference \in Nat \ {0}
    /\ MaxBoxes \in Nat
    /\ MaxFaults \in Nat

Tasks == Streams \cup Requests

VARIABLES
    life,               \* where the service's lifespan is
    pc,                 \* task -> what it awaits
    boxes,              \* task -> boxes of its frame not yet published
    permits, semQueue,  \* _inference_sem: its value and its waiters
    yolo, yoloQueue,    \* _yolo_model is loaded; holder of _yolo_lock and its waiters
    ocr, ocrQueue,      \* _ocr_available; holder of _ocr_lock and its waiters
    baked,              \* are the OCR models in the image?
    cap,                \* stream -> does its task hold a VideoCapture?
    retries,            \* stream -> retries, up to the value that gives the cap of 30 s
    delay,              \* ghost: stream -> its last wait before reconnecting, 0 after a frame
    camera,             \* stream -> is its camera reachable?
    redisUp,
    loads,              \* ghost: YOLO models and OCR engines that were loaded
    faults

semVars == <<permits, semQueue>>
modelVars == <<yolo, yoloQueue, ocr, ocrQueue, baked, loads>>
linkVars == <<cap, retries, delay>>
envVars == <<camera, redisUp, faults>>
vars == <<life, pc, boxes, semVars, modelVars, linkVars, envVars>>

Waiting == {"retry", "backoff"}

\* Between `async with _inference_sem` and its end.
Holding == {"infer", "ocr", "ocrload", "xadd"}

\* Inside the outer try, where `cap` is released by its finally.
Trying == {"retry", "yolo", "load", "read", "sem"} \cup Holding

States == {"off", "open", "backoff", "done"} \cup Trying

TypeOK ==
    /\ life \in {"prewarm", "starting", "serving", "stopping", "stopped"}
    /\ pc \in [Tasks -> States]
    /\ boxes \in [Tasks -> 0..MaxBoxes]
    /\ permits \in 0..MaxInference
    /\ semQueue \in Seq(Streams)
    /\ yolo \in BOOLEAN
    /\ yoloQueue \in Seq(Tasks)
    /\ ocr \in {"unknown", "ready", "off"}
    /\ ocrQueue \in Seq(Tasks)
    /\ baked \in BOOLEAN
    /\ cap \in [Streams -> BOOLEAN]
    /\ retries \in [Streams -> 0..4]
    /\ delay \in [Streams -> 0..30]
    /\ camera \in [Streams -> BOOLEAN]
    /\ redisUp \in BOOLEAN
    /\ loads \in [{"yolo", "ocr"} -> Nat]
    /\ faults \in 0..MaxFaults

Init ==
    /\ life = "prewarm"
    /\ pc = [t \in Tasks |-> "off"]
    /\ boxes = [t \in Tasks |-> 0]
    /\ permits = MaxInference
    /\ semQueue = <<>>
    /\ yolo = FALSE
    /\ yoloQueue = <<>>
    /\ ocr = "unknown"
    /\ ocrQueue = <<>>
    /\ baked \in BOOLEAN
    /\ cap = [s \in Streams |-> FALSE]
    /\ retries = [s \in Streams |-> 0]
    /\ delay = [s \in Streams |-> 0]
    /\ camera \in [Streams -> BOOLEAN]
    /\ redisUp = TRUE
    /\ loads = [m \in {"yolo", "ocr"} |-> 0]
    /\ faults = 0

Go(t, where) == pc' = [pc EXCEPT ![t] = where]

Fault == faults < MaxFaults /\ faults' = faults + 1

\* Mutant of Release: the permit is not given back.
ReleaseNothing == UNCHANGED permits

Release == permits' = permits + 1

-----------------------------------------------------------------------------
(***************************************************************************)
(* _get_yolo and _get_ocr: look, take the lock, look again, load.          *)
(***************************************************************************)

AfterYolo(t) == IF t \in Streams THEN "read" ELSE "infer"

CallYolo(t) ==
    IF yolo THEN Go(t, AfterYolo(t)) /\ UNCHANGED yoloQueue
            ELSE Go(t, "yolo") /\ yoloQueue' = Append(yoloQueue, t)

\* Mutant of YoloTurn: the model is not looked at again under the lock.
YoloTurnBlind(t) ==
    /\ pc[t] = "yolo"
    /\ Head(yoloQueue) = t
    /\ Go(t, "load")
    /\ UNCHANGED <<life, boxes, semVars, modelVars, linkVars, envVars>>

YoloTurn(t) ==
    /\ pc[t] = "yolo"
    /\ Head(yoloQueue) = t
    /\ IF yolo THEN Go(t, AfterYolo(t)) /\ yoloQueue' = Tail(yoloQueue)
               ELSE Go(t, "load") /\ UNCHANGED yoloQueue
    /\ UNCHANGED <<life, boxes, semVars, yolo, ocr, ocrQueue, baked, loads, linkVars, envVars>>

YoloLoaded(t) ==
    /\ pc[t] = "load"
    /\ yolo' = TRUE
    /\ loads' = [loads EXCEPT !["yolo"] = @ + 1]
    /\ yoloQueue' = Tail(yoloQueue)
    /\ Go(t, AfterYolo(t))
    /\ UNCHANGED <<life, boxes, semVars, ocr, ocrQueue, baked, linkVars, envVars>>

\* A vehicle's plate is to be read, and OCR has not been looked for yet.
CallOcr(t) ==
    /\ ocr = "unknown"
    /\ Go(t, "ocr")
    /\ ocrQueue' = Append(ocrQueue, t)

OcrTurn(t) ==
    /\ pc[t] = "ocr"
    /\ Head(ocrQueue) = t
    /\ IF ocr = "unknown" /\ baked
       THEN Go(t, "ocrload") /\ UNCHANGED <<ocr, ocrQueue>>
       ELSE /\ Go(t, "xadd")
            /\ ocr' = IF ocr = "unknown" THEN "off" ELSE ocr
            /\ ocrQueue' = Tail(ocrQueue)
    /\ UNCHANGED <<life, boxes, semVars, yolo, yoloQueue, baked, loads, linkVars, envVars>>

OcrLoaded(t) ==
    /\ pc[t] = "ocrload"
    /\ \/ /\ ocr' = "ready"
          /\ loads' = [loads EXCEPT !["ocr"] = @ + 1]
          /\ UNCHANGED faults
       \/ Fault /\ ocr' = "off" /\ UNCHANGED loads
    /\ ocrQueue' = Tail(ocrQueue)
    /\ Go(t, "xadd")
    /\ UNCHANGED <<life, boxes, semVars, yolo, yoloQueue, baked, linkVars, camera, redisUp>>

Loaders(t) == YoloTurn(t) \/ YoloLoaded(t) \/ OcrTurn(t) \/ OcrLoaded(t)

-----------------------------------------------------------------------------
(***************************************************************************)
(* _process_stream.                                                        *)
(***************************************************************************)

BackoffDelay(n) == IF n >= 4 THEN 30 ELSE 2 * 2^n

\* Mutant of Backoff: no finally clause.
BackoffOpen(s) ==
    /\ Go(s, "backoff")
    /\ delay' = [delay EXCEPT ![s] = BackoffDelay(retries[s])]
    /\ retries' = [retries EXCEPT ![s] = IF @ < 4 THEN @ + 1 ELSE @]
    /\ UNCHANGED cap

\* finally: cap.release(); then the wait after the loop.
Backoff(s) ==
    /\ Go(s, "backoff")
    /\ cap' = [cap EXCEPT ![s] = FALSE]
    /\ delay' = [delay EXCEPT ![s] = BackoffDelay(retries[s])]
    /\ retries' = [retries EXCEPT ![s] = IF @ < 4 THEN @ + 1 ELSE @]

Open(s) ==
    /\ pc[s] = "open"
    /\ camera[s]
    /\ cap' = [cap EXCEPT ![s] = TRUE]
    /\ retries' = [retries EXCEPT ![s] = 0]
    /\ CallYolo(s)
    /\ UNCHANGED <<life, boxes, semVars, yolo, ocr, ocrQueue, baked, loads, delay, envVars>>

\* Mutant of NotOpened: `break` instead of `continue`.
NotOpenedEnds(s) == Go(s, "done") /\ UNCHANGED <<cap, delay>>

\* sleep(10) inside the try, before the `continue` whose finally releases cap.
NotOpened(s) ==
    /\ Go(s, "retry")
    /\ cap' = [cap EXCEPT ![s] = TRUE]
    /\ delay' = [delay EXCEPT ![s] = 10]

OpenFails(s) ==
    /\ pc[s] = "open"
    /\ ~camera[s]
    /\ NotOpened(s)
    /\ UNCHANGED <<life, boxes, semVars, modelVars, retries, envVars>>

\* VideoCapture or cap.set raises.
OpenRaises(s) ==
    /\ pc[s] = "open"
    /\ Fault
    /\ Backoff(s)
    /\ UNCHANGED <<life, boxes, semVars, modelVars, camera, redisUp>>

Reopen(s) ==
    /\ pc[s] \in Waiting
    /\ Go(s, "open")
    /\ cap' = [cap EXCEPT ![s] = FALSE]
    /\ UNCHANGED <<life, boxes, semVars, modelVars, retries, delay, envVars>>

LoseFrame(s) ==
    /\ pc[s] = "read"
    /\ ~camera[s]
    /\ Backoff(s)
    /\ UNCHANGED <<life, boxes, semVars, modelVars, envVars>>

\* Mutant of Enqueued: the last to come is served first.
EnqueuedFirst(s) == <<s>> \o semQueue

Enqueued(s) == Append(semQueue, s)

\* A frame that the frame rate lets through; others leave the task here.
TakeFrame(s) ==
    /\ pc[s] = "read"
    /\ camera[s]
    /\ Go(s, "sem")
    /\ semQueue' = Enqueued(s)
    /\ delay' = [delay EXCEPT ![s] = 0]
    /\ UNCHANGED <<life, boxes, permits, modelVars, cap, retries, envVars>>

Acquire(s) ==
    /\ pc[s] = "sem"
    /\ permits > 0
    /\ Head(semQueue) = s
    /\ permits' = permits - 1
    /\ semQueue' = Tail(semQueue)
    /\ Go(s, "infer")
    /\ UNCHANGED <<life, boxes, modelVars, linkVars, envVars>>

\* The loop over the boxes, of which n are left.
NextBox(s, n) ==
    /\ boxes' = [boxes EXCEPT ![s] = n]
    /\ \/ n = 0 /\ Go(s, "read") /\ Release /\ UNCHANGED ocrQueue
       \/ n > 0 /\ Go(s, "xadd") /\ UNCHANGED <<permits, ocrQueue>>
       \/ n > 0 /\ CallOcr(s) /\ UNCHANGED permits
    /\ UNCHANGED <<life, semQueue, yolo, yoloQueue, ocr, baked, loads, linkVars, envVars>>

Inferred(s) ==
    /\ pc[s] = "infer"
    /\ \E n \in 0..MaxBoxes : NextBox(s, n)

Published(s) ==
    /\ pc[s] = "xadd"
    /\ redisUp
    /\ NextBox(s, boxes[s] - 1)

\* `except Exception` inside the semaphore: the rest of the frame is given up.
FrameFails(s) ==
    /\ \/ pc[s] = "infer" /\ Fault
       \/ pc[s] = "xadd" /\ ~redisUp /\ UNCHANGED faults
    /\ Go(s, "read")
    /\ boxes' = [boxes EXCEPT ![s] = 0]
    /\ Release
    /\ UNCHANGED <<life, semQueue, modelVars, linkVars, camera, redisUp>>

\* Mutant of StreamLoadFails: the lock stays taken.
StreamLoadFailsLocked(s) ==
    /\ pc[s] = "load"
    /\ Fault
    /\ Backoff(s)
    /\ UNCHANGED <<life, boxes, semVars, modelVars, camera, redisUp>>

\* _get_yolo raises into the outer try.
StreamLoadFails(s) ==
    /\ pc[s] = "load"
    /\ Fault
    /\ yoloQueue' = Tail(yoloQueue)
    /\ Backoff(s)
    /\ UNCHANGED <<life, boxes, semVars, yolo, ocr, ocrQueue, baked, loads, camera, redisUp>>

Stream(s) ==
    /\ life \in {"starting", "serving"}
    /\ \/ Open(s) \/ OpenFails(s) \/ Reopen(s)
       \/ LoseFrame(s) \/ TakeFrame(s) \/ Acquire(s)
       \/ Inferred(s) \/ Published(s) \/ FrameFails(s)
       \/ Loaders(s)

StreamFaults(s) == life \in {"starting", "serving"} /\ (OpenRaises(s) \/ StreamLoadFails(s))

-----------------------------------------------------------------------------
(***************************************************************************)
(* infer_frame and infer_from_url.                                         *)
(***************************************************************************)

\* Images that do not decode and URLs that do not open are refused at once.
Arrive(q) ==
    /\ life = "serving"
    /\ pc[q] = "off"
    /\ \/ CallYolo(q)
       \/ Go(q, "done") /\ UNCHANGED yoloQueue
    /\ UNCHANGED <<life, boxes, semVars, yolo, ocr, ocrQueue, baked, loads, linkVars, envVars>>

\* Inference and the loop over its boxes, or an exception; no semaphore.
RequestInferred(q) ==
    /\ pc[q] = "infer"
    /\ \E n \in 0..MaxBoxes :
          /\ boxes' = [boxes EXCEPT ![q] = n]
          /\ \/ n = 0 /\ Go(q, "done") /\ UNCHANGED ocrQueue
             \/ n > 0 /\ Go(q, "xadd") /\ UNCHANGED ocrQueue
             \/ n > 0 /\ CallOcr(q)
    /\ UNCHANGED <<life, semVars, yolo, yoloQueue, ocr, baked, loads, linkVars, envVars>>

\* One XADD; a failure is logged and the next event is tried.
RequestPublishes(q) ==
    /\ pc[q] = "xadd"
    /\ boxes' = [boxes EXCEPT ![q] = @ - 1]
    /\ Go(q, IF boxes[q] = 1 THEN "done" ELSE "xadd")
    /\ UNCHANGED <<life, semVars, modelVars, linkVars, envVars>>

RequestLoadFails(q) ==
    /\ pc[q] = "load"
    /\ Fault
    /\ yoloQueue' = Tail(yoloQueue)
    /\ Go(q, "done")
    /\ UNCHANGED <<life, boxes, semVars, yolo, ocr, ocrQueue, baked, loads, linkVars, camera, redisUp>>

Request(q) == RequestInferred(q) \/ RequestPublishes(q) \/ Loaders(q)

-----------------------------------------------------------------------------
(***************************************************************************)
(* lifespan.                                                               *)
(***************************************************************************)

\* The first _get_yolo, whose failure is only logged.
Prewarm ==
    /\ life = "prewarm"
    /\ life' = "starting"
    /\ \/ /\ yolo' = TRUE
          /\ loads' = [loads EXCEPT !["yolo"] = @ + 1]
       \/ UNCHANGED <<yolo, loads>>
    /\ UNCHANGED <<pc, boxes, semVars, yoloQueue, ocr, ocrQueue, baked, linkVars, envVars>>

\* create_task, a processor every 2 s.
StartStream(s) ==
    /\ life = "starting"
    /\ pc[s] = "off"
    /\ Go(s, "open")
    /\ UNCHANGED <<life, boxes, semVars, modelVars, linkVars, envVars>>

Serve ==
    /\ life = "starting"
    /\ \A s \in Streams : pc[s] # "off"
    /\ life' = "serving"
    /\ UNCHANGED <<pc, boxes, semVars, modelVars, linkVars, envVars>>

\* The server lets open requests end; then every stream task is cancelled.
Stop ==
    /\ life = "serving"
    /\ \A q \in Requests : pc[q] \in {"off", "done"}
    /\ life' = "stopping"
    /\ UNCHANGED <<pc, boxes, semVars, modelVars, linkVars, envVars>>

CancelReleases(s) == pc[s] \in Holding

\* CancelledError at the task's await: the locks, the semaphore and cap are given back.
Cancelled(s) ==
    /\ life = "stopping"
    /\ pc[s] \notin {"off", "done"}
    /\ Go(s, "done")
    /\ permits' = IF CancelReleases(s) THEN permits + 1 ELSE permits
    /\ semQueue' = Without(semQueue, {s})
    /\ yoloQueue' = Without(yoloQueue, {s})
    /\ ocrQueue' = Without(ocrQueue, {s})
    /\ cap' = [cap EXCEPT ![s] = FALSE]
    /\ boxes' = [boxes EXCEPT ![s] = 0]
    /\ UNCHANGED <<life, yolo, ocr, baked, loads, retries, delay, envVars>>

Stopped ==
    /\ life = "stopping"
    /\ \A s \in Streams : pc[s] = "done"
    /\ life' = "stopped"
    /\ UNCHANGED <<pc, boxes, semVars, modelVars, linkVars, envVars>>

Lifespan == Prewarm \/ Serve \/ Stopped \/ \E s \in Streams : StartStream(s) \/ Cancelled(s)

-----------------------------------------------------------------------------

CameraFails(s) ==
    /\ camera[s]
    /\ Fault
    /\ camera' = [camera EXCEPT ![s] = FALSE]
    /\ UNCHANGED <<life, pc, boxes, semVars, modelVars, linkVars, redisUp>>

CameraReturns(s) ==
    /\ ~camera[s]
    /\ camera' = [camera EXCEPT ![s] = TRUE]
    /\ UNCHANGED <<life, pc, boxes, semVars, modelVars, linkVars, redisUp, faults>>

RedisFails ==
    /\ redisUp
    /\ Fault
    /\ redisUp' = FALSE
    /\ UNCHANGED <<life, pc, boxes, semVars, modelVars, linkVars, camera>>

RedisReturns ==
    /\ ~redisUp
    /\ redisUp' = TRUE
    /\ UNCHANGED <<life, pc, boxes, semVars, modelVars, linkVars, camera, faults>>

\* No request other than q occupies the event loop with its inference.
LoopFree(q) == \A r \in Requests \ {q} : pc[r] # "infer"

LoopIsFree == \A r \in Requests : pc[r] # "infer"

Next ==
    \/ /\ LoopIsFree
       /\ \/ \E s \in Streams : Stream(s) \/ StreamFaults(s)
          \/ Lifespan \/ Stop
    \/ \E q \in Requests : LoopFree(q) /\ (Arrive(q) \/ Request(q) \/ RequestLoadFails(q))
    \/ \E s \in Streams : CameraFails(s) \/ CameraReturns(s)
    \/ RedisFails \/ RedisReturns

\* The event loop serves every ready task, cameras come back; nobody has to
\* stop the service or to call it.
Fairness ==
    /\ \A s \in Streams : WF_vars(LoopIsFree /\ Stream(s)) /\ WF_vars(CameraReturns(s))
    /\ \A q \in Requests : WF_vars(LoopFree(q) /\ Request(q))
    /\ WF_vars(LoopIsFree /\ Lifespan)

Spec == Init /\ [][Next]_vars /\ Fairness

-----------------------------------------------------------------------------

\* The streams between taking and giving back a permit.
Holders == {s \in Streams : pc[s] \in Holding}

PermitsCounted == permits + Cardinality(Holders) = MaxInference

\* Permits are never lost nor invented, whichever way a frame ends, the task
\* is cancelled or its inference fails: at most MaxInference streams hold one,
\* and only waiters are in the queues.
PermitsBalanced ==
    /\ PermitsCounted
    /\ IsInjective(semQueue) /\ IsInjective(yoloQueue) /\ IsInjective(ocrQueue)
    /\ Range(semQueue) = {s \in Streams : pc[s] = "sem"}
    /\ Range(yoloQueue) = {t \in Tasks : pc[t] \in {"yolo", "load"}}
    /\ Range(ocrQueue) = {t \in Tasks : pc[t] \in {"ocr", "ocrload"}}

\* However many tasks ask for them at once, and whatever load failed before,
\* the model and the OCR engine are each loaded once.
LoadedOnce == loads["yolo"] <= 1 /\ loads["ocr"] <= 1

\* A task that waits to reconnect after a lost stream, or has ended, holds no capture.
CaptureReleased ==
    \A s \in Streams : cap[s] => pc[s] \in Trying

\* A frame that waits for the semaphore is processed: no stream starves, and
\* waiting for OCR inside the semaphore blocks nobody for ever.
FrameIsProcessed ==
    \A s \in Streams : pc[s] = "sem" ~> (pc[s] = "infer" \/ life = "stopping")

\* Every stream task comes back to reading frames, whatever failed.
StreamRecovers ==
    \A s \in Streams : pc[s] \in Waiting ~> (pc[s] = "read" \/ life = "stopping")

\* A request that was accepted is answered, and a service that stops ends its tasks.
RequestAnswered ==
    /\ \A q \in Requests : pc[q] # "off" ~> pc[q] = "done"
    /\ life = "stopping" ~> life = "stopped"

=============================================================================
