# A verification of GICVMAP in TLA+

GICVMAP watches camera streams, reads number plates, compares them with a
watchlist and shows alerts on a map.  This directory holds TLA+ models of its
services and of its browser client, the TLC runs that check small instances of
them, and proofs that TLAPS checks for every value of the constants.  All
paths below are relative to `src/`.

## 1. The system

An event travels from a camera to an operator like this:

    camera --RTSP--> AI service --XADD--> Redis stream detection_events
      --XREADGROUP--> alert worker --INSERT--> Postgres (detections, alerts)
      --PUBLISH ws_broadcast--> subscriber in the alert service
      --WebSocket--> dashboards

while operators edit cameras, watchlist, users and alerts through the registry,
watchlist, auth and alert services, and a background task of the registry
service reconciles the cameras' status with the MediaMTX configuration.

| Part | State it keeps | Operations | Talks to | What makes it correct |
|---|---|---|---|---|
| AI service, `backend/ai-service/main.py` | model and OCR singletons with their locks, inference semaphore, a task per stream with capture and retry counter | stream loop, `/infer`, `XADD`, lifespan | cameras, Redis | permits, locks and captures come back on every path; models load once; every stream comes back; shutdown ends |
| Alert worker, `backend/alert_worker.py` | consumer group, pending list, position in the batch | `run_worker`, `process_detection` | Redis, Postgres | no event stored or alerted twice; alerts stand on stored detections; what is processed is stored; without faults every match is alerted on; no backlog |
| Alert push, `backend/alert/router.py`, `frontend/src/hooks/useAlertWebSocket.ts` | list of sockets, place in the broadcast, reconnection timers | endpoint, `broadcast_alert`, hook | pub/sub, browsers | every connected client gets each alert once and in order; lost dashboards come back |
| Alert API, same router | rows of `alerts`, `alert_rules` | acknowledge, dismiss, list, export, rules | Postgres | an alert leaves "new" once; what was done is not undone |
| Watchlist API, `backend/watchlist/router.py` | rows of `watchlist` | create, update, delete, match | Postgres | the worker sees a row's state at one moment |
| Camera registry, `backend/registry/router.py` | rows of `cameras` | CRUD, CSV import, discovery, onboarding | Postgres, cameras | all rows of a list that can be inserted are there after its COMMIT, or none is |
| Status reconciler, `backend/registry/status_sync.py` | none between rounds | read configuration, SELECT, UPDATE | MediaMTX, Postgres | shown status converges to the configuration; holds are kept |
| Auth, `backend/auth/router.py`, `backend/shared/auth.py` | rows of `users` and grants, tokens | login, refresh, register, update, delete, reset | Postgres | a user and its grants are written together; a refused call ends in one refresh or one logout |
| Alert panel and badge, `frontend/src/components/AlertPanel.tsx`, `Dashboard.tsx` | filter, list, modal, badge | polls, filter, acknowledge, dismiss | alert API | list and badge come to agree with the service, whatever overtakes |
| Video tile, `LazyVideoPlayer.tsx` | nine refs, six states, closures of earlier renders | observer, load and switch effects, HLS and WebRTC loaders, timers, error card | MediaMTX | one stream at a time; a picture is a stream that plays; out of sight nothing runs; in sight something does |
| Video wall, `VideoWall.tsx` | grid, page, expanded camera | change, turn, expand | dashboard's cameras | no page is empty |
| Management forms, `CameraManagement.tsx`, `UserManagement.tsx`, `WatchlistManagement.tsx`, `AlertRules.tsx` | list, form, modal, scan and selection, flags of buttons | load, save, delete, import, scan, onboard, reset | registry, auth, watchlist, alert API | buttons come back; a form saves the record it shows |
| Reports, search, audit, integrations and AI status, `Reports.tsx`, `VehicleSearch.tsx`, `AuditLog.tsx`, `IntegrationsPanel.tsx`, `AIStatusPanel.tsx` | list, filter, flags | load, refresh, filter, look up | the services | the list is that of the last filter |
| Session, `services/api.ts`, `store/auth.ts`, `App.tsx`, `LoginPage.tsx` | tokens, user | login, interceptor, refresh, logout | auth | an expired token is noticed and met |
| Search, statistics, integrations services | none | read-only | Postgres | |
| Audit, shared | audit log | append | Postgres | |
| Schema, `database/init.sql` | constraints, triggers | | | |

What is hard here: every service is one event loop whose coroutines interleave
at each `await`; several services change the same rows; Redis, Postgres, the
cameras and the processes fail independently and are retried, or not, in
different places; and the client's callbacks keep the state of the render that
created them, while answers arrive in any order and after their panel is gone.
`PROJECT.json` lists the hazards at the lines where they bite.

## 2. The modules

| Module | Models | State and actions |
|---|---|---|
| `EventFate` | the abstract promise of the pipeline | one variable, the fate of each event: unpublished, queued, taken, stored, lost |
| `AlertWorker` | stream, consumer group, worker task, tables, operators' edits, faults | `pc` is the await the task is at; one action per await (`Poll`, `LookupCamera`, `ProvisionCamera`, `StoreDetection`, `MatchWatchlist`, `CreateAlert`, `Announce`, `Acknowledge`), each with its failure (the server down, or the reply lost after it executed) |
| `MCAlertWorker` | instances for TLC | |
| `CameraRegistry` | the table `cameras` and the requests that change it, one transaction each | `CreateCamera`, `UpdateCamera`, `DeleteCamera`, `BulkUpload`, `OnboardDiscovered`, `ProvisionCamera`; a row of a list is good, inconvertible, refused by Postgres or, of a device, without an IP address |
| `StatusSync` (extends `CameraRegistry`) | the reconciler among those requests | `ReadConfig`, `SelectRows`, `UpdateRow`, `Commit`, `FailRound`; row locks keep requests off rows already updated |
| `AlertPush` | subscriber and broadcast loop, WebSocket endpoint, reconnecting hook | `Receive`, `Sent`, `SendFails` step through the list by position as Python's iterator does; `Accept` and `Disconnect` change it between two sends; `OnClose`, `TimerFires`, `Unmount` are the hook's callbacks |
| `InferenceService` | stream tasks, `/infer` requests, lazy loading, semaphore, lifespan | `pc[t]` is the await task t is at; queues are the waiters of the two locks and of the semaphore; a request's inference runs without an await, so no other coroutine moves meanwhile (`LoopIsFree`) |
| `AlertDesk` | the alert panel and the badge of one operator, the service's guarded updates, other operators | a request is a slot of `call`: sent, served, answered; `Poll`, `PollCount`, `SetFilter`, `Handle` send, `ServeRead` and `ServeAction` are the service's statements, `AnswerList`, `AnswerCount`, `AnswerAction` run the rest of the handler |
| `VideoTile` | one tile of the wall | `Render` is a render with its effects; `Scroll`, `Unmount`, the stream's events (`OfferAnswered`, `OfferFails`, `Plays`, `Fails`, `TimesOut`), the timers (`ReloadFires`, `DelayFires`, `RetryFires`) and the error card's buttons are the rest.  A callback carries the closure `[blocked, webRtc]` of the render that made it |
| `Panels` | what the panels share: one mounted panel, calls in flight, flags, the list, leaving and mounting | `Ask`, `Press`, `LoadIn` send; `ServeRead`, `ServeWrite`, `ServeLeft` are the service; `AnswerLoad`, `AnswerRefused`, `Mount` |
| `FormPanels` (extends `Panels`) | the four panels that change records | one action per handler up to its await, one per kind of answer |
| `ListPanels` (extends `Panels`) | the panels that read | refresh buttons, filters, lookups |
| `Client` (extends both) | the whole client of one operator | the session with `SubmitLogin`, `Expires`, `Refuse` (a call meets the 401) and the interceptor, `Navigate`, the wall's pages, and every panel through `PanelStep` |
| `Queues` | `list.remove` of `alert/router.py` and the waiters that asyncio's locks give up | `Without`, by position: what stays, each element at its rank |
| `QueueTheorems` | lemmas about `Queues` | |
| `...Proofs` | the proofs about the module of that name | |

Data is reduced to what the properties tell apart: an event is its position in
the stream, a plate or a camera a model value, a frame any number of boxes, a
camera row its status and its relay path, an alert's row its status, a form the
record its values came from, a list the filter it was loaded for and whether it
has the operator's own changes.  Failures are actions with a common budget, and
in the client every call may fail.

How the modules stand to each other: `AlertWorker` implements `EventFate`;
`StatusSync` runs among the transactions of `CameraRegistry`; `Client` is
composed of `FormPanels` and `ListPanels` over `Panels`.  `Client` leaves the
inside of three screens to models of their own, whose interaction with it is by
mounting only: `AlertDesk` (alerts, and beside the map), `VideoTile` (a camera
of the wall's page) and `AlertPush` (the live list).

## 3. The runs

| Run | Configuration | What it shows |
|---|---|---|
| `worker_faults` | `MCAlertWorker.cfg` | Safety of the pipeline and its refinement of `EventFate`, with any two faults among Redis, Postgres, loss of the stream and crash, and one edit; an event is processed without being stored only if Postgres was away during that very event, or its camera was deleted between its lookup and its INSERT |
| `worker_live` | `MCAlertWorker_live.cfg` | Under fairness, with one outage or crash, every event is processed unless it is trimmed, the batch it was given out in was cut off before its turn, or the task met Redis away at its start; without faults every match of a row that stayed active is alerted on and announced, unless another row it matches, or its camera in flight, is deleted |
| `worker_dropped` | `MCAlertWorker_dropped.cfg` | Counterexample to "no event is silently dropped" (`docs/DISASTER_RECOVERY.md:142`): the rest of a batch that an outage cuts off stays pending and is never read again |
| `status_sync` | `MCStatusSync.cfg` | Reconciler and requests: planned and written changes are current, holds seen are kept, a committed round is complete, status converges |
| `status_sync_hold` | `MCStatusSync_hold.cfg` | Counterexample to "never auto-overwrite an admin hold" (`registry/status_sync.py:75`) |
| `alert_push` | `MCAlertPush.cfg` | The socket list stays right although it changes under the loop, order is kept, a broadcast nobody left reaches everyone, the subscriber ends only when Redis fails or when a broadcast finds a socket dead that its handler took off the list during the same broadcast, the dead leave the list, lost dashboards come back |
| `ai_service` | `MCInferenceService.cfg` | Permits, locks and captures come back on every path, models load once, no stream starves, every stream reconnects, requests are answered |
| `alert_desk` | `MCAlertDesk.cfg` | What was handled stays so with other operators pressing on old lists; list and badge converge although answers overtake each other |
| `video_tile` | `MCVideoTile.cfg` | The inductive invariant of the tile, one stream at a time, what is shown plays, what is hidden is released, and what is in sight is not dropped by any callback |
| `video_tile_retry` | `MCVideoTile_retry.cfg` | Counterexample to "keeps retrying forever while the tile is visible and the camera is online" (`LazyVideoPlayer.tsx:326`): scrolled away when the reload is due, back during the pause, never loaded again |
| `client` | `MCClient.cfg` | All panels, the wall and the session: buttons come back, forms keep their record, no page is empty, an expired token is noticed; lists become current, unless an answer they wanted did not come, or, on panels whose loads do not wait for each other, an older load was answered last; a password asked for in the modal of the user it is shown for is that user's |
| `client_refresh` | `MCClient_refresh.cfg` | Counterexample to "client uses refresh_token to get new one" (`docs/SECURITY.md:72`): the refresh is refused, so expiry signs the operator out |

`PROJECT.json` names, for every property of a passing run, a plausible bug of
the code (`mutants`) that makes TLC find it violated.

### What the code does that the passing runs except

The models do what the code does, and where a promise of the code holds only
with an exception, the property names the exception.  These are the cases that
a reader of the properties should know of; each is a behaviour of the model.

- `backend/alert_worker.py:255`: the group is created before the loop that
  retries, so a worker that meets Redis away at its start is dead
  (`docs/DISASTER_RECOVERY.md:60` says that failures are retried).
  `EventuallyHandled` excepts it.
- `backend/alert_worker.py:57`: the camera of an event may be deleted between its
  lookup and an INSERT that refers to it.  The INSERT is refused, and the event's
  detection or its remaining alerts are given up.  `HandledIsStored` and
  `AlertsComplete` except it.
- `backend/registry/router.py:215` and `:421`: a row that Postgres refuses rolls
  back the whole list, also the rows before it, which are counted as created.
  No property is about the counts.
- `backend/alert/router.py:184`: while a broadcast waits for one send, a client
  that leaves moves those after it forward under the loop's index, and one is
  skipped ("all connected clients", `:182`).  `DeliveredIfNoneLeft` excepts
  broadcasts during which a client left.
- `backend/alert/router.py:190`: a client that its handler takes off the list
  while the broadcast finds it dead is removed twice, which ends the subscriber
  for good, as does an error of Redis (`:51`); the live feed of `docs/PRD.md:361`
  stays silent until the service is restarted.  `SubscriberSurvives` excepts these two causes and no other.
- `frontend/src/components/AuditLog.tsx:64` and the other panels whose loads do
  not wait for each other: an older load that is answered last wins.
  `ListIsCurrent` excepts it on these panels.
- `frontend/src/components/UserManagement.tsx:262`: a password on its way when the
  modal is opened for another user is shown in this user's modal.
  `PasswordIsHis` excepts it.

### Bounds

- Worker: three events, batches of two and a stream of at most two entries,
  so that a batch can be full, partial, interrupted in its middle and
  followed by another, and that trimming passes entries unread; two watchlist
  rows with the same plate, so that one event has two alerts and a failure can
  fall between them; two cameras and an invalid id; two faults, so that
  a recovery can fail again; one edit.  The liveness run has one fault.
- Reconciler: two cameras and two paths, so that a round has an order, a
  change and a row it must leave alone; two requests, so that a camera can be
  deleted and provisioned again; one change of the configuration; one failure.
- Push: two dashboards, three sockets, so that one reconnects while the
  other is served; two alerts, so that one waits while the other is sent; one
  failure.  Three sockets also let one client be before, at and after the
  iterator's position.
- AI service: two streams and a request for one permit, so that the semaphore
  and both locks have waiters; two boxes, so that a failure can fall between
  the events of a frame; one failure.
- Alert desk: one alert, whose row is on the list in each of its states; two
  calls, so that one overtakes the other; two changes of the filter, so that
  the answer for the filter before last can arrive last; one failure.
- Tile: three slots, because a tile can have a stream that closes, one that
  plays and one that a second load makes; one click on the error card, after
  which the code's exclusions end.  `IInv` and `StaysTended` are proved for any
  number of clicks; TLC was also run by hand with two and three, which is how a
  fault of an earlier form of `Working` was found (it left out the load that
  the effects of a coming render will start).
- Client: two records, so that a form can be opened for another one; two
  choices of a filter; two calls in flight; one device; ten online cameras on
  grids of two and three columns, so that the last page is full, partly full
  and gone after a change of the grid.  The run for the refresh is smaller.

`CHECK_DEADLOCK FALSE` stands in every configuration because behaviours end:
events, sockets, clicks and edits run out, a tile is unmounted, a service stops,
or (in the worker's case) the task has died, which is a real state of the
program.

### Fairness

Coroutines that are ready are always run by the event loop: weak fairness of
each task's own steps (`Worker`, `Reconciler`, `Subscriber`, `Handlers`,
`Stream`, `Request`), of timers and close events in the browser.  Outages end
and stopped containers are started again (`restart: unless-stopped`): weak
fairness of `RedisRecovers`, `DbRecovers`, `Restart`, `CameraReturns`.
Publishers, operators, network failures and shutdown have no fairness.  The
semaphore and the locks are served in order of arrival, as asyncio does;
without that order streams could starve, which the mutant `EnqueuedFirst` shows.

In the client, React renders what was set and fires its effects, and timers
fire: weak fairness of `Render`, `ReloadFires`, `DelayFires`, `RetryFires` and
of the connecting timer; the awaits of `loadWebRtc` end with an answer or an
error.  What a stream does afterwards (`Plays`, `Fails`) has none: it may connect
for ever, and the properties do not count on it.  Requests of the alert desk end (nginx
gives up after 60 s) and its intervals fire again and again: strong
fairness of `Poll` and `PollCount`, as both slots may be taken for a while.
`Client` assumes of its interval only that one poll comes through
(`WF_vars(PollRefused)`).

## 4. The proofs

Proved for every value of the constants that satisfies the modules'
assumptions (bounds are natural numbers; the set of streams is finite; grids
are positive):

- `AlertWorkerProofs`: `Spec => []IInv`, and from it the type invariant,
  `AtMostOnce`, `AlertsGrounded`, `StoredInOrder`, `AckAfterHandling`.
  `AtMostOnce` is not inductive: that an event is not stored twice rests on
  where it stands to the read position.  `IInv` therefore says that the read
  position (`NextId`: the group's last-delivered id, or the oldest entry the
  stream holds) only grows, that the batch lies below it, and that nothing at
  or above it, nor above the current event of the batch, is stored.  A lost
  stream resets the group's id but not the read position, since ids go on.
  `HandledIsStored` adds `StorableInv`: while Postgres is away the event being
  processed is noted as disturbed, and the camera that was looked up for it is
  in the table or its deletion is noted with that event.  `AlertsComplete` adds `CompleteInv`: while the matches of an event
  are worked off, each row it is owed to is still to come, being announced, or
  announced; what is owed after a step was owed before it (`OwedBefore`), as
  edits, deletions and faults only take away.  `Spec => RefinesEventFate` is
  the refinement: the mapping `FateOf` reads an event's fate off the tables, the read position and
  the worker's place, and each step maps to one of `Publish`, `Take`, `Store`,
  `Lose` or a stutter, by the same invariant.
- `StatusSyncProofs`: `RoundIsCurrent` and the action property `HoldsKept`,
  from `RoundInv`: what is planned or written was computed from rows that no
  request has changed since.  `RoundComplete` adds `PlanInv`, its converse:
  a row that was read and does not show its target is planned or written.
- `QueueTheorems`: what `Without` does to a list, for every list and every
  set of elements taken out: it keeps all others and no other, none twice if
  none was, each no further back than it stood, and the head if that stays.
  The rank of a kept position is the number of positions kept up to it, so this
  is counting: ranks of kept positions are distinct, increase, and reach every
  number up to their count.
- `AlertPushProofs`, browser side: `OneSocketPerView`, from `BrowserInv`: sockets
  are handed out in order, each to one dashboard, and every socket that is not
  closed is some dashboard's current one.  Service side: `ListIsCurrent`,
  `InOrderOnce`, and the action properties `DeliveredIfNoneLeft` and
  `SubscriberSurvives`, from `ServiceInv`.  None is inductive, because the list
  changes under the index of the loop.  `ListInv` says who is on the list;
  `OrderInv`, that all a socket got was published before what still waits;
  `LoopInv`, that no socket behind the index has got the alert yet, which
  survives any removal because elements only move forward; `RoundInv`, that
  as long as nobody was taken off, all before the index got it or are gone; and
  `LeftInv`, that the loop's socket and those found dead are on the list unless
  their handler took them off during this broadcast, which names the one socket
  that a removal can fail for.
- `InferenceServiceProofs`: `PermitsCounted`, from it the bound on the streams
  inside the semaphore, and `PermitsBalanced`.  A step moves one task; the
  lemmas `...Move` classify every action as keeping, taking or giving
  a permit, and one lemma about cardinalities does the rest.  `CaptureReleased`
  goes the same way: a step opens a capture inside the try, releases it, or
  leaves it alone without leaving the try.  `ModelInv` has the queues and the
  models: each queue holds, once, the tasks whose `pc` is that of a waiter or of
  the holder (`QueuesInv`), a task that loads is at the head of its queue and the
  model is not there (`LockInv`), and there are as many loads as models
  (`LoadsInv`).  `LoadedOnce` follows: the second look under the lock is what
  `LockInv` needs.  The type invariant needs `FrameInv`: a task that reads or
  publishes a plate has a box left.
- `AlertDeskProofs`: `HandledStays`.  Only `ServeAction`, `OtherOperator` and
  `Raise` write `status`, each under the guard of its statement's WHERE.
- `VideoTileProofs`: `Spec => []IInv` of the tile, and from it `OneStream` and
  `LoadedIsPlaying`.  Neither is inductive: that a load finds no stream rests
  on what the callbacks captured.  `IInv` says that a pending reload and the
  reload of any stream have loaders that can load (`ReloadCanLoad`), and that,
  until the user retries by hand, what is loaded, loading, pending and delayed
  excludes each other (`OneAtATime`).  The action property `StaysTended` holds
  after retries too, where `OneAtATime` does not, and so has an invariant of its
  own, `TendInv`: no error comes between "Try HLS instead" and its render
  (`SwitchInv`), a tile that was rendered out of sight delays no load
  (`HiddenInv`), when a tile that waits for a delayed load is not idle any more, a
  stream or a reload is there (`DelayInv`), and there is one timer of each kind (`SingleInv`).
- `ClientProofs`: `WallShowsCameras`, from `WallInv`: the page's first camera
  exists, which needs a little arithmetic of pages (`PageStarts`).  `SpinnersEnd` and
  `FormsMatch`, from `PanelInv`: every call has a shape that fits its kind
  (a flag only the handlers of that kind set, the record its form had), every set flag has its
  call, and no gated flag has two.  Every step of every panel is shown to keep
  the calls and flags (`Kept`), to send or end one call (`Moves`), or to mount a
  panel, and each kind preserves the invariant once.  `ListIsCurrent` and
  `PasswordIsHis`, from `BroughtInv`.  The list is current only when nothing is
  in flight; before that, it is known to be behind, or a write that took effect
  will have the list loaded, or the newest load will bring it, or it is current
  and no newest load is coming (`NewsInv`); there is one newest load, for the
  filter chosen last (`ChosenInv`); and on the vehicle search, the AI status and
  the integrations, whose loads wait for each other, none is ever overtaken
  (`SerialInv`), so that `ListIsCurrent` excepts no order of answers there.  On
  the other panels it excepts the list that an overtaken load leaves when its
  answer comes last, which is what the code shows (`AuditLog.tsx:64`).  The
  newest reset in flight is for the modal's user (`PasswordInv`); of a password
  that was on its way when the modal changed users `PasswordIsHis` says nothing.
  Most steps bring neither (`Quiet`).  The type invariant needs that every load
  carries a filter that can be chosen.

Every invariant and every action property that a passing run checks is one of
these theorems.  Model-checked only is all liveness, which is out of the prover's
reach: `EventuallyHandled`, both properties `Converges`, `Reconnects`,
`DeadAreUnlisted`, `FrameIsProcessed`, `StreamRecovers`, `RequestAnswered`,
`HiddenReleases`, `ExpiredIsNoticed`.

`Without` stands where `SelectSeq` could: that one is a recursive definition,
about which nothing can be proved for every list.

## 5. Not modelled

- Pure functions of data the models leave open: plate normalisation, OCR
  scoring, ONVIF parsing, CSV columns, distances on the map, layout, wording.
- Permissions decide who may send a request, not what it does; of the client's
  only the items of the sidebar matter and are modelled (`CanSee`).
- Search, statistics, integrations and the audit log keep no state that another
  part reads back; the export of alerts is a read like the list.
- `AlertToast.tsx` and the hook's list of 50 alerts: what a toast shows follows
  from the length of that list in two lines, and no document says what is
  promised.  `CameraMap.tsx` draws what it is given.
- What is typed or ticked in a form, and filters over rows that are loaded
  already.
- The tile of a camera that changes its status or has no stream's URL, and
  the native HLS of Safari.
- `register` and `update_user` commit the user and its grants in two
  transactions; the grants are not modelled, so what lies between the two is
  not looked at.  For the client such a call is a write that may take effect
  and be answered with an error.
- asyncio's thread pool, delays in seconds and OpenCV's behaviour when a
  capture is released while it is read.
- The delays and the choice of plates of `demo_seeder.py`.  It runs beside the
  services for good (`docker-compose.yml:178`) and publishes to
  `detection_events` with cameras it read once; to the worker it is one more
  publisher, which `Publish` covers.
- Scripts run by hand: `seed_demo_data.py`, `check_sentinel.py` and the generator
  of the presentation.

The components with status `not_modelled` or `partly` in `PROJECT.json` say the
same part by part.

## 6. What remains

1. Users and grants: the two commits of `register` and `update_user` against
   a client that repeats the call, and `decode_token`'s roles.
2. Composition: `InferenceService` publishing into `AlertWorker`'s stream and
   `AlertPush` fed by its announcements, each through its abstract
   specification (`EventFate` extended with "announced" and "delivered").
3. The toasts and the hook's list, once it is said what they promise.
4. Proofs: the type invariants of `AlertPush` (whose index is bounded because
   the list has no socket twice), `AlertDesk` and `StatusSync`; that the push
   implements an abstract broadcast, and the alert service and its operators an
   abstract alert that is handled once.

Runs in all stay few: the counterexample runs give way to others once the
code or the documents are corrected.
