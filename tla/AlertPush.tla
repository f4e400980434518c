------------------------------ MODULE AlertPush ------------------------------
(***************************************************************************)
(* How an alert reaches the browsers: the alert service's subscriber of    *)
(* the channel `ws_broadcast`, the list ws_connections that it iterates    *)
(* while the handlers of the WebSocket endpoint append to it and remove    *)
(* from it (backend/alert/router.py), and the reconnecting hook of the     *)
(* dashboard (frontend/src/hooks/useAlertWebSocket.ts).  All coroutines of *)
(* the service share one thread: a step runs from one await to the next.   *)
(***************************************************************************)
EXTENDS Integers, Sequences, SequencesExt, Queues

CONSTANTS
    Views,          \* mounts of the dashboard, each with its own hook
    MaxSockets,     \* bound on the WebSockets ever opened
    MaxAlerts,      \* bound on the alerts published
    MaxDrops        \* bound on broken connections, Redis failures and restarts

ASSUME PushAssumption == MaxSockets \in Nat /\ MaxAlerts \in Nat /\ MaxDrops \in Nat

Sockets == 1..MaxSockets
Alerts == 1..MaxAlerts

VARIABLES
    \* the service
    conns,          \* ws_connections
    handler,        \* socket -> the coroutine alert_websocket that serves it
    subscriber,     \* where _start_redis_subscriber and broadcast_alert are
    inbox,          \* alerts the channel has brought and nobody has read yet
    msg,            \* the alert being broadcast
    index,          \* elements of ws_connections the loop has taken so far
    target,         \* the socket it is sending to
    failed,         \* `disconnected`
    \* the browsers
    view,           \* view -> "unborn", "mounted" or "unmounted"
    socket,         \* view -> its WebSocket whose close event is to come, or 0
    timer,          \* view -> is a reconnection scheduled?
    peer,           \* socket -> its state as the browser sees it
    \* ghosts and bounds
    opened,         \* number of WebSockets opened
    published,      \* number of alerts published
    got,            \* socket -> alerts that reached the browser
    left,           \* sockets whose handler took them out of ws_connections during this broadcast
    drops

serviceVars == <<conns, handler, subscriber, inbox, msg, index, target, failed, left>>
browserVars == <<view, socket, timer, peer, opened>>
vars == <<serviceVars, browserVars, published, got, drops>>

TypeOK ==
    /\ conns \in Seq(Sockets)
    /\ handler \in [Sockets -> {"none", "receiving", "done"}]
    /\ subscriber \in {"off", "listen", "send", "dead"}
    /\ inbox \in Seq(Alerts)
    /\ msg \in 0..MaxAlerts
    /\ index \in 0..MaxSockets
    /\ target \in 0..MaxSockets
    /\ failed \in Seq(Sockets)
    /\ view \in [Views -> {"unborn", "mounted", "unmounted"}]
    /\ socket \in [Views -> 0..MaxSockets]
    /\ timer \in [Views -> BOOLEAN]
    /\ peer \in [Sockets -> {"none", "opening", "open", "closed"}]
    /\ opened \in 0..MaxSockets
    /\ published \in 0..MaxAlerts
    /\ got \in [Sockets -> Seq(Alerts)]
    /\ left \in SUBSET Sockets
    /\ drops \in 0..MaxDrops
    /\ subscriber # "send" => msg = 0 /\ failed = <<>>

Init ==
    /\ conns = <<>>
    /\ handler = [s \in Sockets |-> "none"]
    /\ subscriber = "off"
    /\ inbox = <<>>
    /\ msg = 0
    /\ index = 0
    /\ target = 0
    /\ failed = <<>>
    /\ view = [v \in Views |-> "unborn"]
    /\ socket = [v \in Views |-> 0]
    /\ timer = [v \in Views |-> FALSE]
    /\ peer = [s \in Sockets |-> "none"]
    /\ opened = 0
    /\ published = 0
    /\ got = [s \in Sockets |-> <<>>]
    /\ left = {}
    /\ drops = 0

-----------------------------------------------------------------------------
(***************************************************************************)
(* The browsers: useAlertWebSocket.                                        *)
(***************************************************************************)

\* connect().
Connect(v) ==
    /\ opened < MaxSockets
    /\ opened' = opened + 1
    /\ socket' = [socket EXCEPT ![v] = opened + 1]
    /\ peer' = [peer EXCEPT ![opened + 1] = "opening"]

Mount(v) ==
    /\ view[v] = "unborn"
    /\ view' = [view EXCEPT ![v] = "mounted"]
    /\ Connect(v)
    /\ UNCHANGED <<serviceVars, timer, published, got, drops>>

\* The effect's cleanup: close() and clearTimeout().  The close event still
\* comes, as the handler is not detached.
Unmount(v) ==
    /\ view[v] = "mounted"
    /\ view' = [view EXCEPT ![v] = "unmounted"]
    /\ timer' = [timer EXCEPT ![v] = FALSE]
    /\ peer' = IF socket[v] = 0 THEN peer ELSE [peer EXCEPT ![socket[v]] = "closed"]
    /\ UNCHANGED <<serviceVars, socket, opened, published, got, drops>>

\* Mutant of OnClose: the reconnection is scheduled without waiting for the close.
OnCloseEarly(v) ==
    /\ socket[v] # 0
    /\ socket' = [socket EXCEPT ![v] = 0]
    /\ timer' = [timer EXCEPT ![v] = TRUE]
    /\ UNCHANGED <<serviceVars, view, peer, opened, published, got, drops>>

\* Mutant of OnClose: no reconnection is scheduled.
OnCloseSilent(v) ==
    /\ socket[v] # 0
    /\ peer[socket[v]] = "closed"
    /\ socket' = [socket EXCEPT ![v] = 0]
    /\ UNCHANGED <<serviceVars, view, timer, peer, opened, published, got, drops>>

\* onclose: connect() again in 3 s.  An unmounted view does so too.
OnClose(v) ==
    /\ socket[v] # 0
    /\ peer[socket[v]] = "closed"
    /\ socket' = [socket EXCEPT ![v] = 0]
    /\ timer' = [timer EXCEPT ![v] = TRUE]
    /\ UNCHANGED <<serviceVars, view, peer, opened, published, got, drops>>

TimerFires(v) ==
    /\ timer[v]
    /\ timer' = [timer EXCEPT ![v] = FALSE]
    /\ Connect(v)
    /\ UNCHANGED <<serviceVars, view, published, got, drops>>

\* The network breaks a connection, or one cannot be made.
Break(s) ==
    /\ peer[s] \in {"opening", "open"}
    /\ drops < MaxDrops
    /\ drops' = drops + 1
    /\ peer' = [peer EXCEPT ![s] = "closed"]
    /\ UNCHANGED <<serviceVars, view, socket, timer, opened, published, got>>

-----------------------------------------------------------------------------
(***************************************************************************)
(* The service's handlers: alert_websocket.                                *)
(***************************************************************************)

\* Mutant of Listed: the new client goes to the front of the list.
ListedFirst(s) == <<s>> \o conns

Listed(s) == Append(conns, s)

Accept(s) ==
    /\ peer[s] = "opening"
    /\ handler[s] = "none"
    /\ peer' = [peer EXCEPT ![s] = "open"]
    /\ handler' = [handler EXCEPT ![s] = "receiving"]
    /\ conns' = Listed(s)
    /\ UNCHANGED <<subscriber, inbox, msg, index, target, failed, left, view, socket, timer,
                   opened, published, got, drops>>

\* Mutant of Unlisted: the handler leaves its socket in the list.
UnlistedNever(s) == conns

\* list.remove; without the element it raises and leaves the list alone.
Unlisted(s) == Without(conns, {s})

\* receive_text raises WebSocketDisconnect.
Disconnect(s) ==
    /\ handler[s] = "receiving"
    /\ peer[s] = "closed"
    /\ handler' = [handler EXCEPT ![s] = "done"]
    /\ conns' = Unlisted(s)
    /\ left' = IF subscriber = "send" THEN left \cup {s} ELSE left
    /\ UNCHANGED <<subscriber, inbox, msg, index, target, failed, browserVars, published, got, drops>>

-----------------------------------------------------------------------------
(***************************************************************************)
(* The subscriber: _start_redis_subscriber and broadcast_alert.            *)
(***************************************************************************)

Subscribe ==
    /\ subscriber = "off"
    /\ subscriber' = "listen"
    /\ UNCHANGED <<conns, handler, inbox, msg, index, target, failed, left, browserVars,
                   published, got, drops>>

\* The worker's PUBLISH; a channel without subscriber keeps nothing.
Publish ==
    /\ published < MaxAlerts
    /\ published' = published + 1
    /\ inbox' = IF subscriber \in {"listen", "send"} THEN Append(inbox, published + 1) ELSE inbox
    /\ UNCHANGED <<conns, handler, subscriber, msg, index, target, failed, left, browserVars,
                   got, drops>>

\* Mutant of Missing: a client whose send failed has been taken out at once.
MissingAll(bad) == DOMAIN bad

\* `for ws in disconnected: ws_connections.remove(ws)`, up to the first that is
\* not in the list any more; its ValueError ends the subscriber.
Missing(bad) == {i \in DOMAIN bad : ~Contains(conns, bad[i])}

Dropped(bad) == {bad[i] : i \in {k \in DOMAIN bad : \A m \in Missing(bad) : k < m}}

\* Mutant of More: the first failure ends the loop.
MoreUntilFailure(bad) == index < Len(conns) /\ bad = <<>>

\* The list iterator goes by position in the list as it is now.
More(bad) == index < Len(conns)

LoopOver ==
    /\ msg' = 0
    /\ index' = 0
    /\ target' = 0
    /\ left' = {}
    /\ failed' = <<>>

\* The next element, or the end of broadcast_alert.
NextTarget(bad) ==
    IF More(bad)
    THEN /\ subscriber' = "send"
         /\ index' = index + 1
         /\ target' = conns[index + 1]
         /\ failed' = bad
         /\ UNCHANGED <<conns, msg, left>>
    ELSE /\ conns' = Without(conns, Dropped(bad))
         /\ subscriber' = IF Missing(bad) = {} THEN "listen" ELSE "dead"
         /\ LoopOver

Receive ==
    /\ subscriber = "listen"
    /\ inbox # <<>>
    /\ inbox' = Tail(inbox)
    /\ IF conns = <<>>
       THEN UNCHANGED <<conns, subscriber, msg, index, target, failed, left>>
       ELSE /\ msg' = Head(inbox)
            /\ subscriber' = "send"
            /\ index' = 1
            /\ target' = conns[1]
            /\ UNCHANGED <<conns, failed, left>>
    /\ UNCHANGED <<handler, browserVars, published, got, drops>>

\* send_json returns, and the loop goes on to its next await.
Sent ==
    /\ subscriber = "send"
    /\ got' = IF peer[target] = "open" THEN [got EXCEPT ![target] = Append(@, msg)] ELSE got
    /\ NextTarget(failed)
    /\ UNCHANGED <<handler, inbox, browserVars, published, drops>>

\* send_json raises, as it may once the client is gone.
SendFails ==
    /\ subscriber = "send"
    /\ peer[target] = "closed"
    /\ NextTarget(Append(failed, target))
    /\ UNCHANGED <<handler, inbox, browserVars, published, got, drops>>

\* The connection to Redis breaks or cannot be made: subscribe() or listen()
\* raises, and nobody subscribes again.
RedisFails ==
    /\ subscriber \in {"off", "listen"}
    /\ drops < MaxDrops
    /\ drops' = drops + 1
    /\ subscriber' = "dead"
    /\ inbox' = <<>>
    /\ UNCHANGED <<conns, handler, msg, index, target, failed, left, browserVars, published, got>>

\* The process ends and is started again.
Restart ==
    /\ drops < MaxDrops
    /\ drops' = drops + 1
    /\ conns' = <<>>
    /\ handler' = [s \in Sockets |-> IF peer[s] \in {"open", "closed"} THEN "done" ELSE "none"]
    /\ peer' = [s \in Sockets |-> IF peer[s] = "open" THEN "closed" ELSE peer[s]]
    /\ subscriber' = "off"
    /\ inbox' = <<>>
    /\ LoopOver
    /\ UNCHANGED <<view, socket, timer, opened, published, got>>

-----------------------------------------------------------------------------

Subscriber == Subscribe \/ Receive \/ Sent \/ SendFails

Browser(v) == OnClose(v) \/ TimerFires(v)

Handlers(s) == Accept(s) \/ Disconnect(s)

Next ==
    \/ \E v \in Views : Mount(v) \/ Unmount(v) \/ Browser(v)
    \/ \E s \in Sockets : Handlers(s) \/ Break(s)
    \/ Publish \/ Subscriber \/ RedisFails \/ Restart

\* Coroutines, timers and close events are always served; users, the network
\* and Redis owe nothing.
Fairness ==
    /\ WF_vars(Subscriber)
    /\ \A v \in Views : WF_vars(Browser(v))
    /\ \A s \in Sockets : WF_vars(Handlers(s))

Spec == Init /\ [][Next]_vars /\ Fairness

-----------------------------------------------------------------------------

Reachable(s) == peer[s] = "open" /\ handler[s] = "receiving"

\* A client that is connected is in the list, exactly once, and none is there
\* whose handler has ended: neither handlers nor a failed send take another
\* client out.
ListIsCurrent ==
    /\ IsInjective(conns)
    /\ \A s \in Sockets : Reachable(s) => Contains(conns, s)
    /\ \A i \in DOMAIN conns : handler[conns[i]] = "receiving"

\* Every client gets the alerts in the order of publication and none twice,
\* although the list changes under the loop that iterates it.
InOrderOnce == \A s \in Sockets : \A i, k \in DOMAIN got[s] : i < k => got[s][i] < got[s][k]

\* s gets the alert that is being broadcast, if it is connected.
Reaches(s) == Reachable(s) => msg \in Range(got'[s])

\* A broadcast during which no handler removed its socket reached all that are
\* connected when it ends.
DeliveredIfNoneLeft ==
    [][subscriber = "send" /\ index' = 0 /\ left = {} /\ drops' = drops =>
          \A s \in Sockets : Reaches(s)]_vars

\* The subscriber ends only because Redis fails, or because of a client that
\* its own handler took out of the list during the broadcast that had it as a
\* receiver and found it gone: clients that fail, leave or come in any other
\* way, in any number, do not end it.
SubscriberSurvives ==
    [][subscriber' = "dead" /\ subscriber # "dead" =>
          \/ drops' # drops
          \/ \E s \in left : peer[s] = "closed" /\ s \in Range(failed) \cup {target}]_vars

\* A connection that is not closed belongs to exactly one dashboard, as its
\* current one, and no dashboard waits to reconnect while it has one: however
\* errors, closes, timers and unmounts interleave, none gets an alert twice.
OneSocketPerView ==
    /\ \A s \in Sockets : peer[s] \in {"opening", "open"} =>
           \E v \in Views : socket[v] = s /\ \A u \in Views \ {v} : socket[u] # s
    /\ \A v \in Views : socket[v] # 0 => ~timer[v]

\* A dead client does not stay in the list, whether its handler or the
\* broadcast finds out.
DeadAreUnlisted == \A s \in Sockets : (peer[s] = "closed") ~> ~Contains(conns, s)

\* A dashboard that lost its connection gets another one (in the model, while
\* the bound on sockets allows).
Reconnects ==
    \A v \in Views : (view[v] = "mounted") ~>
        (view[v] = "unmounted" \/ opened = MaxSockets \/ (socket[v] # 0 /\ Reachable(socket[v])))

=============================================================================
