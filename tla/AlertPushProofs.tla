--------------------------- MODULE AlertPushProofs ---------------------------
(***************************************************************************)
(* What AlertPush promises for any number of dashboards, sockets, alerts   *)
(* and failures.                                                           *)
(*                                                                         *)
(* The browser: sockets are handed out in order, each to one dashboard     *)
(* (BrowserInv).  The service: the list has every connected socket, once,  *)
(* and none without a handler (ListInv); what a socket got comes before all*)
(* that still waits (OrderInv); the sockets that the loop has yet to reach *)
(* have not got the alert, wherever a removal has moved them (LoopInv); as *)
(* long as nobody left, those before the index got it or are gone          *)
(* (RoundInv); and a receiver that is not in the list any more left it     *)
(* through its own handler, during this broadcast (LeftInv).               *)
(***************************************************************************)
EXTENDS AlertPush, QueueTheorems

USE DEF vars, serviceVars, browserVars, Sockets

BrowserTypeOK ==
    /\ view \in [Views -> {"unborn", "mounted", "unmounted"}]
    /\ socket \in [Views -> Nat]
    /\ timer \in [Views -> BOOLEAN]
    /\ peer \in [Sockets -> {"none", "opening", "open", "closed"}]
    /\ opened \in Nat

\* Sockets are handed out in order, each to one dashboard, and every socket
\* that is not closed is some dashboard's current one.
Unopened == \A s \in Sockets : s > opened => peer[s] = "none"

Current == \A v \in Views : /\ socket[v] <= opened
                            /\ opened <= MaxSockets
                            /\ socket[v] # 0 => ~timer[v]
                            /\ view[v] = "unborn" => socket[v] = 0 /\ ~timer[v]

Distinct == \A v, u \in Views : v # u /\ socket[v] # 0 => socket[u] # socket[v]

Owned == \A s \in Sockets : peer[s] \in {"opening", "open"} => \E v \in Views : socket[v] = s

BrowserInv == BrowserTypeOK /\ Unopened /\ Current /\ Distinct /\ Owned

USE DEF BrowserTypeOK, Unopened, Current, Distinct, Owned

LEMMA ConnectPreserves ==
    ASSUME BrowserInv, NEW v \in Views, Mount(v) \/ TimerFires(v)
    PROVE  BrowserInv'
<1> USE DEF BrowserInv
<1>1. socket[v] = 0 /\ opened < MaxSockets /\ timer'[v] = FALSE /\ view'[v] # "unborn"
    BY DEF Mount, TimerFires, Connect
<1>2. /\ opened' = opened + 1
      /\ socket' = [socket EXCEPT ![v] = opened + 1]
      /\ peer' = [peer EXCEPT ![opened + 1] = "opening"]
      /\ opened + 1 \in Sockets
    BY PushAssumption DEF Mount, TimerFires, Connect
<1>3. /\ timer' \in [Views -> BOOLEAN] /\ \A u \in Views \ {v} : timer'[u] = timer[u]
      /\ view' \in [Views -> {"unborn", "mounted", "unmounted"}]
      /\ \A u \in Views \ {v} : view'[u] = view[u]
    BY DEF Mount, TimerFires
<1>4. BrowserTypeOK'
    <2>1. opened' \in Nat /\ socket' \in [Views -> Nat]
        BY <1>2
    <2>2. peer' \in [Sockets -> {"none", "opening", "open", "closed"}]
        BY <1>2
    <2> QED
        BY <1>3, <2>1, <2>2
<1>5. Unopened'
    BY <1>2
<1>6. Distinct'
    BY <1>2
<1>7. Current'
    BY <1>1, <1>2, <1>3, PushAssumption
<1>8. Owned'
    BY <1>1, <1>2
<1> QED
    BY <1>4, <1>5, <1>6, <1>7, <1>8

\* Handlers, the network and the service only open and close what exists.
LEMMA PeersPreserve ==
    ASSUME BrowserInv,
           UNCHANGED <<view, socket, timer, opened>>,
           peer' \in [Sockets -> {"none", "opening", "open", "closed"}],
           \A s \in Sockets : \/ peer'[s] = peer[s]
                              \/ peer[s] # "none" /\ peer'[s] = "closed"
                              \/ peer[s] = "opening" /\ peer'[s] = "open"
    PROVE  BrowserInv'
BY DEF BrowserInv

LEMMA NextBrowserInv == BrowserInv /\ [Next]_vars => BrowserInv'
<1> SUFFICES ASSUME BrowserInv, [Next]_vars
             PROVE  BrowserInv'
    OBVIOUS
<1>1. ASSUME NEW v \in Views, Mount(v) \/ TimerFires(v)
      PROVE  BrowserInv'
    BY <1>1, ConnectPreserves
<1>2. ASSUME NEW v \in Views, Unmount(v)
      PROVE  BrowserInv'
    <2>1. view' \in [Views -> {"unborn", "mounted", "unmounted"}] /\ timer' \in [Views -> BOOLEAN]
        BY <1>2 DEF Unmount, BrowserInv
    <2>2. /\ peer' \in [Sockets -> {"none", "opening", "open", "closed"}]
          /\ \A s \in Sockets : peer'[s] = peer[s] \/ (peer'[s] = "closed" /\ s = socket[v])
        BY <1>2 DEF Unmount, BrowserInv
    <2>3. UNCHANGED <<socket, opened>> /\ \A u \in Views : timer'[u] => timer[u]
        BY <1>2 DEF Unmount, BrowserInv
    <2>4. \A u \in Views : view'[u] = "unborn" => view[u] = "unborn"
        BY <1>2 DEF Unmount, BrowserInv
    <2>5. Unopened' /\ Distinct'
        <3>1. socket[v] <= opened
            BY DEF BrowserInv
        <3> QED
            BY <2>2, <2>3, <3>1 DEF BrowserInv
    <2>6. Current'
        BY <2>1, <2>3, <2>4 DEF BrowserInv
    <2>7. Owned'
        BY <2>2, <2>3 DEF BrowserInv
    <2>8. BrowserTypeOK'
        BY <2>1, <2>2, <2>3, Zenon DEF BrowserInv
    <2> QED
        BY <2>5, <2>6, <2>7, <2>8 DEF BrowserInv
<1>3. ASSUME NEW v \in Views, OnClose(v)
      PROVE  BrowserInv'
    BY <1>3 DEF OnClose, BrowserInv
<1>4. ASSUME NEW s \in Sockets, Handlers(s) \/ Break(s)
      PROVE  BrowserInv'
    <2>1. UNCHANGED <<view, socket, timer, opened>>
        BY <1>4 DEF Handlers, Accept, Disconnect, Break
    <2>2. \/ peer' = peer
          \/ peer[s] \in {"opening", "open"} /\ peer' = [peer EXCEPT ![s] = "closed"]
          \/ peer[s] = "opening" /\ peer' = [peer EXCEPT ![s] = "open"]
        BY <1>4 DEF Handlers, Accept, Disconnect, Break
    <2>3. peer' \in [Sockets -> {"none", "opening", "open", "closed"}]
        BY <2>2 DEF BrowserInv
    <2>4. \A x \in Sockets : \/ peer'[x] = peer[x]
                             \/ peer[x] # "none" /\ peer'[x] = "closed"
                             \/ peer[x] = "opening" /\ peer'[x] = "open"
        BY <2>2 DEF BrowserInv
    <2> QED
        BY <2>1, <2>3, <2>4, PeersPreserve
<1>5. CASE Publish \/ Subscriber \/ RedisFails \/ UNCHANGED vars
    <2>1. UNCHANGED <<view, socket, timer, opened, peer>>
        BY <1>5 DEF Publish, Subscriber, Subscribe, Receive, Sent, SendFails, RedisFails
    <2> QED
        BY <2>1, PeersPreserve DEF BrowserInv
<1>6. CASE Restart
    <2>1. UNCHANGED <<view, socket, timer, opened>>
        BY <1>6 DEF Restart
    <2>2. peer' = [s \in Sockets |-> IF peer[s] = "open" THEN "closed" ELSE peer[s]]
        BY <1>6 DEF Restart
    <2> QED
        BY <2>1, <2>2, PeersPreserve DEF BrowserInv
<1> QED
    BY <1>1, <1>2, <1>3, <1>4, <1>5, <1>6 DEF Next, Browser

\* However errors, closes, timers and unmounts interleave, each live connection
\* belongs to one dashboard and no dashboard has two.
THEOREM OneSocketPerViewAlways == Spec => []OneSocketPerView
<1>1. Init => BrowserInv
    BY PushAssumption DEF Init, BrowserInv
<1>2. BrowserInv => OneSocketPerView
    BY DEF BrowserInv, OneSocketPerView
<1> QED
    BY <1>1, <1>2, NextBrowserInv, PTL DEF Spec

-----------------------------------------------------------------------------
(***************************************************************************)
(* The service.  What the list of connections has to do with the sockets,  *)
(* the alerts and the loop that iterates it.                               *)
(***************************************************************************)

ServiceTypeOK ==
    /\ conns \in Seq(Sockets)
    /\ handler \in [Sockets -> {"none", "receiving", "done"}]
    /\ subscriber \in {"off", "listen", "send", "dead"}
    /\ inbox \in Seq(Alerts)
    /\ msg \in 0..MaxAlerts
    /\ index \in Nat
    /\ target \in 0..MaxSockets
    /\ failed \in Seq(Sockets)
    /\ published \in 0..MaxAlerts
    /\ got \in [Sockets -> Seq(Alerts)]
    /\ left \in SUBSET Sockets
    /\ peer \in [Sockets -> {"none", "opening", "open", "closed"}]

\* A socket has a handler once it is accepted, and gets nothing before.
HandlerInv ==
    \A s \in Sockets :
        /\ handler[s] # "none" => peer[s] \in {"open", "closed"}
        /\ peer[s] = "open" => handler[s] = "receiving"
        /\ handler[s] = "none" => got[s] = <<>>

\* The list holds sockets with a handler, once each, and all that are connected;
\* those that a send failed for are not.
ListInv ==
    /\ \A i, j \in 1..Len(conns) : conns[i] = conns[j] => i = j
    /\ \A i \in 1..Len(conns) : handler[conns[i]] = "receiving"
    /\ \A s \in Sockets : peer[s] = "open" => \E i \in 1..Len(conns) : conns[i] = s
    /\ \A i \in 1..Len(failed) : peer[failed[i]] = "closed"

\* Everything that s got is before alert a.
Before(s, a) == \A i \in 1..Len(got[s]) : got[s][i] < a

\* What waits in the channel is in order, and after all that was sent.
OrderInv ==
    /\ \A s \in Sockets : /\ \A i, j \in 1..Len(got[s]) : i < j => got[s][i] < got[s][j]
                          /\ Before(s, published + 1)
    /\ \A k \in 1..Len(inbox) :
          /\ inbox[k] <= published
          /\ msg < inbox[k]
          /\ \A s \in Sockets : Before(s, inbox[k])
          /\ \A m \in 1..Len(inbox) : k < m => inbox[k] < inbox[m]

\* During a broadcast: no socket has a later alert than msg, and those that the
\* loop will still reach have not got it yet, wherever a removal has moved them.
LoopInv ==
    IF subscriber = "send"
    THEN /\ msg \in 1..published
         /\ index > 0
         /\ target \in Sockets /\ handler[target] # "none" /\ Before(target, msg)
         /\ \A s \in Sockets : Before(s, msg + 1)
         /\ \A i \in 1..Len(conns) : i > index => conns[i] # target /\ Before(conns[i], msg)
    ELSE msg = 0 /\ failed = <<>> /\ left = {}

\* As long as nobody has left during it: the loop is at target, and all before it
\* got the alert or are gone.
Reached == {s \in Sockets : peer[s] = "closed" \/ \E k \in 1..Len(got[s]) : got[s][k] = msg}

RoundInv ==
    subscriber = "send" /\ left = {} =>
        /\ index <= Len(conns) /\ conns[index] = target
        /\ \A i \in 1..Len(conns) : i < index => conns[i] \in Reached

\* The loop's socket and those that a send failed for are in the list, unless
\* their handler took them out during this broadcast.
Accounted(s) == s \in left \/ \E i \in 1..Len(conns) : conns[i] = s

LeftInv ==
    subscriber = "send" => Accounted(target) /\ \A k \in 1..Len(failed) : Accounted(failed[k])

ServiceInv ==
    ServiceTypeOK /\ HandlerInv /\ ListInv /\ OrderInv /\ LoopInv /\ RoundInv /\ LeftInv

HIDE DEF Sockets, BrowserTypeOK, Unopened, Current, Distinct, Owned

LEMMA SocketNumbers == Sockets \subseteq 0..MaxSockets /\ \A s \in Sockets : s # 0
BY PushAssumption DEF Sockets

LEMMA BeforeLater ==
    ASSUME ServiceTypeOK, NEW s \in Sockets, NEW a \in Int, NEW b \in Int, a <= b, Before(s, a)
    PROVE  Before(s, b)
<1>1. got[s] \in Seq(Alerts)
    BY DEF ServiceTypeOK
<1>2. \A i \in 1..Len(got[s]) : got[s][i] \in Int
    BY <1>1, PushAssumption DEF Alerts
<1>3. \A i \in 1..Len(got[s]) : got[s][i] < a
    BY DEF Before
<1>4. ASSUME NEW i \in 1..Len(got[s])  PROVE got[s][i] < b
    BY <1>2, <1>3, <1>4
<1> QED
    BY <1>4 DEF Before

\* Connections are made, accepted and closed by others.
LEMMA PeerStep ==
    ASSUME ServiceInv, UNCHANGED <<serviceVars, got, published>>,
           peer' \in [Sockets -> {"none", "opening", "open", "closed"}],
           \A s \in Sockets : \/ peer'[s] = peer[s]
                              \/ peer[s] = "none" /\ peer'[s] = "opening"
                              \/ peer'[s] = "closed"
    PROVE  ServiceInv'
<1> USE DEF ServiceInv
<1>1. ServiceTypeOK'
    BY DEF ServiceTypeOK
<1>2. HandlerInv'
    BY DEF HandlerInv
<1>3. ListInv'
    <2>1. \A i \in 1..Len(failed) : failed[i] \in Sockets
        BY DEF ServiceTypeOK
    <2> QED
        BY <2>1 DEF ListInv
<1>4. OrderInv'
    BY DEF OrderInv, Before
<1>5. LoopInv'
    BY DEF LoopInv, Before
<1>6. RoundInv'
    <2>1. \A i \in 1..Len(conns) : conns[i] \in Sockets
        BY DEF ServiceTypeOK
    <2>2. Reached \subseteq Reached'
        BY DEF Reached
    <2> QED
        BY <2>1, <2>2 DEF RoundInv
<1>7. LeftInv'
    BY DEF LeftInv, Accounted
<1> QED
    BY <1>1, <1>2, <1>3, <1>4, <1>5, <1>6, <1>7

\* A client that is accepted stands behind the loop's position.
LEMMA AcceptStep ==
    ASSUME ServiceInv, NEW s \in Sockets, Accept(s)
    PROVE  ServiceInv'
<1> USE DEF ServiceInv
<1>1. /\ peer[s] = "opening" /\ handler[s] = "none" /\ got[s] = <<>>
      /\ peer' = [peer EXCEPT ![s] = "open"] /\ handler' = [handler EXCEPT ![s] = "receiving"]
      /\ conns' = Append(conns, s)
      /\ UNCHANGED <<subscriber, inbox, msg, index, target, failed, left, got, published>>
    BY DEF Accept, Listed, HandlerInv
<1>2. /\ conns' \in Seq(Sockets) /\ Len(conns') = Len(conns) + 1 /\ Len(conns) \in Nat
      /\ \A i \in 1..Len(conns) : conns'[i] = conns[i] /\ conns[i] \in Sockets
      /\ conns'[Len(conns) + 1] = s
    BY <1>1 DEF ServiceTypeOK
<1>3. /\ \A u \in Sockets : u # s => peer'[u] = peer[u] /\ handler'[u] = handler[u]
      /\ peer'[s] = "open" /\ handler'[s] = "receiving"
    BY <1>1 DEF ServiceTypeOK
<1>4. ServiceTypeOK'
    <2>1. peer' \in [Sockets -> {"none", "opening", "open", "closed"}]
        BY <1>1 DEF ServiceTypeOK
    <2>2. handler' \in [Sockets -> {"none", "receiving", "done"}]
        BY <1>1 DEF ServiceTypeOK
    <2> QED
        BY <1>1, <1>2, <2>1, <2>2 DEF ServiceTypeOK
<1>5. HandlerInv'
    BY <1>1, <1>3 DEF HandlerInv
<1>6. \A i \in 1..Len(conns) : conns[i] # s
    BY <1>1 DEF ListInv
<1>7. ListInv'
    <2>1. \A i, j \in 1..Len(conns') : conns'[i] = conns'[j] => i = j
        BY <1>2, <1>6 DEF ListInv
    <2>2. \A i \in 1..Len(conns') : handler'[conns'[i]] = "receiving"
        BY <1>2, <1>3, <1>6 DEF ListInv
    <2>3. ASSUME NEW u \in Sockets, peer'[u] = "open"  PROVE \E i \in 1..Len(conns') : conns'[i] = u
        <3>1. CASE u = s
            BY <1>2, <3>1
        <3>2. CASE u # s
            <4>1. PICK i \in 1..Len(conns) : conns[i] = u
                BY <1>3, <2>3, <3>2 DEF ListInv
            <4> QED
                BY <1>2, <4>1
        <3> QED
            BY <3>1, <3>2
    <2>4. \A i \in 1..Len(failed) : failed[i] \in Sockets /\ failed[i] # s
        BY <1>1 DEF ServiceTypeOK, ListInv
    <2> QED
        BY <1>1, <1>3, <2>1, <2>2, <2>3, <2>4 DEF ListInv
<1>8. OrderInv'
    BY <1>1 DEF OrderInv, Before
<1>9. LoopInv'
    <2>1. Before(s, msg)
        BY <1>1 DEF Before
    <2>2. subscriber = "send" => target # s
        BY <1>1 DEF LoopInv
    <2>3. \A u \in Sockets : \A a : Before(u, a)' <=> Before(u, a)
        BY <1>1 DEF Before
    <2>4. subscriber = "send" => handler'[target] # "none" /\ target \in Sockets
        BY <1>3, <2>2 DEF LoopInv
    <2>5. subscriber = "send" => \A i \in 1..Len(conns') : i > index => conns'[i] # target /\ Before(conns'[i], msg)
        BY <1>2, <2>1, <2>2 DEF LoopInv
    <2> QED
        BY <1>1, <2>4, <2>5 DEF LoopInv, Before
<1>10. RoundInv'
    <2>1. Reached \ {s} \subseteq Reached'
        BY <1>1, <1>3 DEF Reached
    <2>2. index \in Nat
        BY DEF ServiceTypeOK
    <2>3. ASSUME subscriber = "send", left = {}
          PROVE  /\ index <= Len(conns') /\ conns'[index] = target
                 /\ \A i \in 1..Len(conns') : i < index => conns'[i] \in Reached'
        <3>1. /\ index \in 1..Len(conns) /\ conns[index] = target
              /\ \A i \in 1..Len(conns) : i < index => conns[i] \in Reached
            BY <1>2, <2>2, <2>3 DEF RoundInv, LoopInv
        <3>2. ASSUME NEW i \in 1..Len(conns'), i < index  PROVE conns'[i] \in Reached'
            <4>1. i \in 1..Len(conns) /\ i < index
                BY <1>2, <3>1, <3>2
            <4>2. conns[i] \in Reached \ {s}
                BY <1>6, <3>1, <4>1
            <4>3. conns'[i] = conns[i]
                BY <1>2, <4>1
            <4> QED
                BY <2>1, <4>2, <4>3
        <3>3. index <= Len(conns') /\ conns'[index] = target
            BY <1>2, <3>1
        <3> QED
            BY <3>2, <3>3
    <2> QED
        BY <1>1, <2>3 DEF RoundInv
<1>11. LeftInv'
    <2>1. \A u : Accounted(u) => Accounted(u)'
        BY <1>1, <1>2 DEF Accounted
    <2> QED
        BY <1>1, <2>1 DEF LeftInv, Accounted
<1> QED
    BY <1>4, <1>5, <1>7, <1>8, <1>9, <1>10, <1>11

\* What taking some sockets out of the list does to it.
LEMMA Shrinks ==
    ASSUME ServiceTypeOK, ListInv, NEW gone, conns' = Without(conns, gone)
    PROVE  /\ conns' \in Seq(Sockets)
           /\ \A i, j \in 1..Len(conns') : conns'[i] = conns'[j] => i = j
           /\ \A n \in 1..Len(conns') : \E i \in 1..Len(conns) :
                  i >= n /\ conns'[n] = conns[i] /\ conns[i] \notin gone
           /\ \A i \in 1..Len(conns) : conns[i] \notin gone =>
                  \E n \in 1..Len(conns') : conns'[n] = conns[i]
<1>1. conns \in Seq(Sockets) /\ IsInjective(conns)
    <2>1. conns \in Seq(Sockets)
        BY DEF ServiceTypeOK
    <2>2. DOMAIN conns = 1..Len(conns)
        BY <2>1
    <2>3. \A i, j \in 1..Len(conns) : conns[i] = conns[j] => i = j
        BY DEF ListInv
    <2> QED
        BY <2>1, <2>2, <2>3 DEF IsInjective
<1> DEFINE kept == Without(conns, gone)
<1>0. /\ kept \in Seq(Sockets) /\ Len(kept) \in 0..Len(conns)
      /\ \A n \in 1..Len(kept) : \E i \in n..Len(conns) :
             kept[n] = conns[i] /\ conns[i] \notin gone
      /\ \A i \in 1..Len(conns) : conns[i] \notin gone =>
             \E n \in 1..Len(kept) : kept[n] = conns[i]
      /\ IsInjective(kept)
    <2>1. \A n \in 1..Len(kept) : \E i \in n..Len(conns) : kept[n] = conns[i] /\ conns[i] \notin gone
        BY <1>1, WithoutProperties
    <2>2. kept \in Seq(Sockets) /\ Len(kept) \in 0..Len(conns) /\ IsInjective(kept)
        BY <1>1, WithoutProperties
    <2>3. \A i \in 1..Len(conns) : conns[i] \notin gone => \E n \in 1..Len(kept) : kept[n] = conns[i]
        BY <1>1, WithoutProperties
    <2> QED
        BY <2>1, <2>2, <2>3
<1> HIDE DEF kept
<1>2. /\ conns' \in Seq(Sockets) /\ Len(conns') \in 0..Len(conns)
      /\ \A n \in 1..Len(conns') : \E i \in n..Len(conns) :
             conns'[n] = conns[i] /\ conns[i] \notin gone
      /\ \A i \in 1..Len(conns) : conns[i] \notin gone =>
             \E n \in 1..Len(conns') : conns'[n] = conns[i]
      /\ IsInjective(conns')
    BY <1>0 DEF kept
<1>3. Len(conns) \in Nat /\ Len(conns') \in Nat
    BY <1>1, <1>2
<1>4. ASSUME NEW n \in 1..Len(conns')
      PROVE  \E i \in 1..Len(conns) : i >= n /\ conns'[n] = conns[i] /\ conns[i] \notin gone
    <2>1. PICK i \in n..Len(conns) : conns'[n] = conns[i] /\ conns[i] \notin gone
        BY <1>2
    <2>2. i \in 1..Len(conns) /\ i >= n
        BY <1>3, <2>1
    <2> QED
        BY <2>1, <2>2
<1>5. \A i, j \in 1..Len(conns') : conns'[i] = conns'[j] => i = j
    BY <1>2, <1>3 DEF IsInjective
<1> QED
    BY <1>2, <1>4, <1>5

\* A handler takes its socket out of the list, wherever the loop is.
LEMMA DisconnectStep ==
    ASSUME ServiceInv, NEW s \in Sockets, Disconnect(s)
    PROVE  ServiceInv'
<1> USE DEF ServiceInv
<1>1. /\ handler[s] = "receiving" /\ peer[s] = "closed"
      /\ handler' = [handler EXCEPT ![s] = "done"]
      /\ conns' = Without(conns, {s})
      /\ left' = IF subscriber = "send" THEN left \cup {s} ELSE left
      /\ UNCHANGED <<subscriber, inbox, msg, index, target, failed, peer, got, published>>
    BY DEF Disconnect, Unlisted
<1>2. /\ conns' \in Seq(Sockets)
      /\ \A i, j \in 1..Len(conns') : conns'[i] = conns'[j] => i = j
      /\ \A n \in 1..Len(conns') : \E i \in 1..Len(conns) :
             i >= n /\ conns'[n] = conns[i] /\ conns[i] # s
      /\ \A i \in 1..Len(conns) : conns[i] # s => \E n \in 1..Len(conns') : conns'[n] = conns[i]
    <2>1. /\ conns' \in Seq(Sockets)
          /\ \A i, j \in 1..Len(conns') : conns'[i] = conns'[j] => i = j
          /\ \A n \in 1..Len(conns') : \E i \in 1..Len(conns) :
                 i >= n /\ conns'[n] = conns[i] /\ conns[i] \notin {s}
          /\ \A i \in 1..Len(conns) : conns[i] \notin {s} =>
                 \E n \in 1..Len(conns') : conns'[n] = conns[i]
        BY <1>1, Shrinks
    <2> QED
        BY <2>1
<1>3. /\ conns \in Seq(Sockets) /\ Len(conns) \in Nat /\ Len(conns') \in Nat /\ index \in Nat
      /\ \A i \in 1..Len(conns) : conns[i] \in Sockets
    BY <1>2 DEF ServiceTypeOK
<1>4. handler'[s] = "done" /\ \A u \in Sockets : u # s => handler'[u] = handler[u]
    BY <1>1 DEF ServiceTypeOK
<1>5. ServiceTypeOK'
    <2>1. handler' \in [Sockets -> {"none", "receiving", "done"}] /\ left' \in SUBSET Sockets
        BY <1>1 DEF ServiceTypeOK
    <2> QED
        BY <1>1, <1>2, <2>1 DEF ServiceTypeOK
<1>6. HandlerInv'
    BY <1>1, <1>4 DEF HandlerInv
<1>7. ListInv'
    <2>1. \A n \in 1..Len(conns') : handler'[conns'[n]] = "receiving"
        BY <1>2, <1>3, <1>4 DEF ListInv
    <2>2. ASSUME NEW u \in Sockets, peer'[u] = "open"  PROVE \E n \in 1..Len(conns') : conns'[n] = u
        <3>1. u # s /\ peer[u] = "open"
            BY <1>1, <2>2
        <3>2. PICK i \in 1..Len(conns) : conns[i] = u
            BY <3>1 DEF ListInv
        <3> QED
            BY <1>2, <3>1, <3>2
    <2> QED
        BY <1>1, <1>2, <2>1, <2>2 DEF ListInv
<1>8. OrderInv'
    BY <1>1 DEF OrderInv, Before
<1>9. LoopInv'
    <2>1. CASE subscriber = "send"
        <3>1. target \in Sockets /\ handler'[target] # "none"
            BY <1>4, <2>1 DEF LoopInv
        <3>2. ASSUME NEW n \in 1..Len(conns'), n > index
              PROVE  conns'[n] # target /\ Before(conns'[n], msg)
            <4>1. PICK i \in 1..Len(conns) : i >= n /\ conns'[n] = conns[i]
                BY <1>2
            <4>2. i > index
                BY <1>3, <3>2, <4>1
            <4> QED
                BY <2>1, <4>1, <4>2 DEF LoopInv
        <3> QED
            BY <1>1, <2>1, <3>1, <3>2 DEF LoopInv, Before
    <2>2. CASE subscriber # "send"
        BY <1>1, <2>2 DEF LoopInv
    <2> QED
        BY <2>1, <2>2
<1>10. RoundInv'
    BY <1>1 DEF RoundInv
<1>11. LeftInv'
    <2> SUFFICES ASSUME subscriber = "send"
                 PROVE  Accounted(target)' /\ \A k \in 1..Len(failed) : Accounted(failed[k])'
        BY <1>1 DEF LeftInv, Accounted
    <2>1. left' = left \cup {s}
        BY <1>1
    <2>2. \A u : Accounted(u) => u \in left' \/ \E n \in 1..Len(conns') : conns'[n] = u
        BY <1>2, <2>1 DEF Accounted
    <2> QED
        BY <1>1, <2>2 DEF LeftInv, Accounted
<1> QED
    BY <1>5, <1>6, <1>7, <1>8, <1>9, <1>10, <1>11

\* The worker publishes after all that it has published before.
LEMMA PublishStep ==
    ASSUME ServiceInv, Publish
    PROVE  ServiceInv'
<1> USE DEF ServiceInv
<1>1. /\ published < MaxAlerts /\ published' = published + 1
      /\ inbox' = inbox \/ inbox' = Append(inbox, published + 1)
      /\ UNCHANGED <<conns, handler, subscriber, msg, index, target, failed, left, peer, got>>
    BY DEF Publish
<1>2. /\ published \in Nat /\ published + 1 \in Alerts /\ msg \in Int /\ msg <= published
      /\ inbox \in Seq(Alerts) /\ Len(inbox) \in Nat
      /\ \A k \in 1..Len(inbox) : inbox[k] \in Int
    BY <1>1, PushAssumption DEF ServiceTypeOK, LoopInv, Alerts
<1>3. ServiceTypeOK'
    <2>1. published' \in 0..MaxAlerts /\ inbox' \in Seq(Alerts)
        BY <1>1, <1>2, PushAssumption
    <2> QED
        BY <1>1, <2>1 DEF ServiceTypeOK
<1>4. HandlerInv' /\ ListInv' /\ RoundInv' /\ LeftInv'
    BY <1>1 DEF HandlerInv, ListInv, RoundInv, Reached, LeftInv, Accounted
<1>5. LoopInv'
    BY <1>1, <1>2 DEF LoopInv, Before
<1>6. OrderInv'
    <2>1. \A s \in Sockets : /\ Before(s, published + 1) /\ Before(s, published + 2)
                             /\ \A i, j \in 1..Len(got[s]) : i < j => got[s][i] < got[s][j]
        <3>1. \A s \in Sockets : Before(s, published + 1)
            BY DEF OrderInv
        <3>2. \A s \in Sockets : Before(s, published + 2)
            BY <1>2, <3>1, BeforeLater
        <3> QED
            BY <3>1, <3>2 DEF OrderInv
    <2>2. /\ Len(inbox') \in Len(inbox)..(Len(inbox) + 1)
          /\ \A k \in 1..Len(inbox) : inbox'[k] = inbox[k]
          /\ Len(inbox') > Len(inbox) => inbox'[Len(inbox) + 1] = published + 1
        BY <1>1, <1>2
    <2>3. ASSUME NEW k \in 1..Len(inbox')
          PROVE  /\ inbox'[k] <= published + 1
                 /\ msg < inbox'[k]
                 /\ \A s \in Sockets : Before(s, inbox'[k])
                 /\ \A m \in 1..Len(inbox') : k < m => inbox'[k] < inbox'[m]
        <3>1. CASE k \in 1..Len(inbox)
            <4>1. /\ inbox[k] <= published /\ msg < inbox[k]
                  /\ \A s \in Sockets : Before(s, inbox[k])
                  /\ \A m \in 1..Len(inbox) : k < m => inbox[k] < inbox[m]
                BY <3>1 DEF OrderInv
            <4>2. inbox'[k] = inbox[k] /\ inbox[k] \in Int
                BY <1>2, <2>2, <3>1
            <4>3. ASSUME NEW m \in 1..Len(inbox'), k < m  PROVE inbox[k] < inbox'[m]
                <5>1. CASE m \in 1..Len(inbox)
                    BY <2>2, <4>1, <4>3, <5>1
                <5>2. CASE m \notin 1..Len(inbox)
                    <6>1. m = Len(inbox) + 1 /\ Len(inbox') > Len(inbox)
                        BY <1>2, <2>2, <5>2
                    <6> QED
                        BY <1>2, <2>2, <4>1, <4>2, <6>1
                <5> QED
                    BY <5>1, <5>2
            <4> QED
                BY <1>2, <4>1, <4>2, <4>3
        <3>2. CASE k \notin 1..Len(inbox)
            <4>1. k = Len(inbox) + 1 /\ inbox'[k] = published + 1
                BY <1>2, <2>2, <3>2
            <4>2. \A m \in 1..Len(inbox') : ~(k < m)
                BY <1>2, <2>2, <4>1
            <4> QED
                BY <1>2, <2>1, <4>1, <4>2
        <3> QED
            BY <3>1, <3>2
    <2> QED
        BY <1>1, <1>2, <2>1, <2>3 DEF OrderInv, Before
<1> QED
    BY <1>3, <1>4, <1>5, <1>6

\* What a send, made or failed, does to the alerts that have arrived.
Delivery ==
    /\ got' \in [Sockets -> Seq(Alerts)]
    /\ \A s \in Sockets :
          /\ \A i, j \in 1..Len(got'[s]) : i < j => got'[s][i] < got'[s][j]
          /\ \A i \in 1..Len(got'[s]) : got'[s][i] <= msg
          /\ s # target => got'[s] = got[s]
    /\ peer[target] = "closed" \/ \E k \in 1..Len(got'[target]) : got'[target][k] = msg

LEMMA SentDelivers ==
    ASSUME ServiceInv, Sent
    PROVE  Delivery
<1> USE DEF ServiceInv
<1>1. /\ subscriber = "send" /\ target \in Sockets /\ msg \in 1..MaxAlerts /\ msg \in Alerts
      /\ peer[target] \in {"open", "closed"} /\ Before(target, msg)
    BY DEF Sent, ServiceTypeOK, HandlerInv, LoopInv, Alerts
<1>2. /\ got \in [Sockets -> Seq(Alerts)]
      /\ got' = IF peer[target] = "open" THEN [got EXCEPT ![target] = Append(@, msg)] ELSE got
    BY DEF Sent, ServiceTypeOK
<1>3. /\ \A s \in Sockets : s # target => got'[s] = got[s]
      /\ peer[target] = "open" => got'[target] = Append(got[target], msg)
      /\ peer[target] = "closed" => got'[target] = got[target]
    BY <1>1, <1>2
<1>4. \A s \in Sockets : /\ got[s] \in Seq(Alerts) /\ Len(got[s]) \in Nat
                         /\ \A i \in 1..Len(got[s]) : got[s][i] \in Int /\ got[s][i] <= msg
                         /\ \A i, j \in 1..Len(got[s]) : i < j => got[s][i] < got[s][j]
    <2> TAKE s \in Sockets
    <2>1. got[s] \in Seq(Alerts)
        BY <1>2
    <2>2. \A i \in 1..Len(got[s]) : got[s][i] \in Int
        BY <2>1, PushAssumption DEF Alerts
    <2>3. \A i \in 1..Len(got[s]) : got[s][i] < msg + 1
        BY <1>1 DEF LoopInv, Before
    <2>4. msg \in Int
        BY <1>1
    <2>5. \A i \in 1..Len(got[s]) : got[s][i] <= msg
        BY <2>2, <2>3, <2>4
    <2>6. \A i, j \in 1..Len(got[s]) : i < j => got[s][i] < got[s][j]
        BY DEF OrderInv
    <2> QED
        BY <2>1, <2>2, <2>5, <2>6
<1>5. got' \in [Sockets -> Seq(Alerts)]
    <2>1. Append(got[target], msg) \in Seq(Alerts)
        BY <1>1, <1>4
    <2> QED
        BY <1>2, <2>1
<1>6. CASE peer[target] = "open"
    <2> DEFINE old == got[target]
               new == got'[target]
    <2>1. /\ old \in Seq(Alerts) /\ Len(old) \in Nat
          /\ \A i \in 1..Len(old) : old[i] \in Int /\ old[i] < msg
          /\ \A i, j \in 1..Len(old) : i < j => old[i] < old[j]
        BY <1>1, <1>4 DEF Before
    <2>2. new = Append(old, msg)
        BY <1>3, <1>6
    <2> HIDE DEF old, new
    <2>3. /\ Len(new) = Len(old) + 1
          /\ \A i \in 1..Len(old) : new[i] = old[i]
          /\ new[Len(old) + 1] = msg
        BY <2>1, <2>2
    <2>4. \A i \in 1..Len(new) : i \in 1..Len(old) \/ i = Len(old) + 1
        BY <2>1, <2>3
    <2>5. \A i, j \in 1..Len(new) : i < j => new[i] < new[j]
        <3> TAKE i \in 1..Len(new), j \in 1..Len(new)
        <3> HAVE i < j
        <3>1. i \in 1..Len(old)
            BY <2>1, <2>3
        <3> QED
            BY <2>1, <2>3, <2>4, <3>1
    <2>6. \A i \in 1..Len(new) : new[i] <= msg
        BY <1>1, <2>1, <2>3, <2>4
    <2>7. \E k \in 1..Len(new) : new[k] = msg
        BY <2>1, <2>3
    <2>8. ASSUME NEW s \in Sockets
          PROVE  /\ \A i, j \in 1..Len(got'[s]) : i < j => got'[s][i] < got'[s][j]
                 /\ \A i \in 1..Len(got'[s]) : got'[s][i] <= msg
        <3>1. CASE s = target
            BY <2>5, <2>6, <3>1 DEF new
        <3>2. CASE s # target
            BY <1>3, <1>4, <3>2
        <3> QED
            BY <3>1, <3>2
    <2> QED
        BY <1>3, <1>5, <2>7, <2>8 DEF Delivery, new
<1>7. CASE peer[target] = "closed"
    <2>1. \A s \in Sockets : got'[s] = got[s]
        BY <1>3, <1>7
    <2> QED
        BY <1>4, <1>5, <1>7, <2>1 DEF Delivery
<1> QED
    BY <1>1, <1>6, <1>7

LEMMA FailedDelivers ==
    ASSUME ServiceInv, SendFails
    PROVE  Delivery
<1> USE DEF ServiceInv
<1>1. /\ subscriber = "send" /\ peer[target] = "closed" /\ got' = got
      /\ got \in [Sockets -> Seq(Alerts)] /\ msg \in Int
    BY DEF SendFails, ServiceTypeOK
<1>2. ASSUME NEW s \in Sockets, NEW i \in 1..Len(got[s])  PROVE got[s][i] <= msg
    <2>1. got[s] \in Seq(Alerts)
        BY <1>1
    <2>2. got[s][i] \in Int
        BY <1>2, <2>1, PushAssumption DEF Alerts
    <2>3. got[s][i] < msg + 1
        BY <1>1, <1>2 DEF LoopInv, Before
    <2> QED
        BY <1>1, <2>2, <2>3
<1> QED
    BY <1>1, <1>2 DEF Delivery, OrderInv

\* The loop goes on to the next position, or ends and takes out those that failed.
LEMMA LoopStep ==
    ASSUME ServiceInv, subscriber = "send", Delivery,
           UNCHANGED <<handler, inbox, published, peer>>,
           NEW bad \in Seq(Sockets),
           \A k \in 1..Len(bad) : peer[bad[k]] = "closed",
           \A k \in 1..Len(bad) : Accounted(bad[k]),
           NextTarget(bad)
    PROVE  ServiceInv'
<1> USE DEF ServiceInv
<1>1. /\ conns \in Seq(Sockets) /\ Len(conns) \in Nat /\ index \in Nat \ {0}
      /\ \A i \in 1..Len(conns) : conns[i] \in Sockets
      /\ msg \in 1..MaxAlerts /\ msg \in 1..published /\ published \in 0..MaxAlerts
      /\ published \in Nat /\ msg \in Nat \ {0} /\ target \in Sockets
    BY PushAssumption DEF ServiceTypeOK, LoopInv
<1>2. \A s \in Sockets : got'[s] \in Seq(Alerts) /\ \A i \in 1..Len(got'[s]) : got'[s][i] \in Int
    <2> TAKE s \in Sockets
    <2>1. got'[s] \in Seq(Alerts)
        BY DEF Delivery
    <2> QED
        BY <2>1, PushAssumption DEF Alerts
<1>3. HandlerInv'
    <2>1. handler[target] # "none"
        BY DEF LoopInv
    <2> QED
        BY <2>1 DEF HandlerInv, Delivery
<1>4. \A s \in Sockets, a \in Int : a > msg => \A i \in 1..Len(got'[s]) : got'[s][i] < a
    BY <1>1, <1>2 DEF Delivery
<1>5. \A k \in 1..Len(inbox) : inbox[k] \in Int /\ inbox[k] > msg
    <2>1. inbox \in Seq(Alerts)
        BY DEF ServiceTypeOK
    <2>2. \A k \in 1..Len(inbox) : inbox[k] \in Int
        BY <2>1, PushAssumption DEF Alerts
    <2> QED
        BY <1>1, <2>2 DEF OrderInv
<1>6. ASSUME msg' = msg \/ msg' = 0
      PROVE  OrderInv'
    <2>1. published + 1 \in Int /\ published + 1 > msg
        BY <1>1
    <2>2. \A s \in Sockets : /\ \A i, j \in 1..Len(got'[s]) : i < j => got'[s][i] < got'[s][j]
                             /\ \A i \in 1..Len(got'[s]) : got'[s][i] < published + 1
        BY <1>4, <2>1 DEF Delivery
    <2>3. ASSUME NEW k \in 1..Len(inbox)
          PROVE  /\ inbox[k] <= published
                 /\ msg' < inbox[k]
                 /\ \A s \in Sockets : \A i \in 1..Len(got'[s]) : got'[s][i] < inbox[k]
                 /\ \A m \in 1..Len(inbox) : k < m => inbox[k] < inbox[m]
        <3>1. msg' < inbox[k]
            BY <1>1, <1>5, <1>6
        <3>2. \A s \in Sockets : \A i \in 1..Len(got'[s]) : got'[s][i] < inbox[k]
            BY <1>4, <1>5
        <3> QED
            BY <3>1, <3>2 DEF OrderInv
    <2> QED
        BY <2>2, <2>3 DEF OrderInv, Before
<1>7. CASE More(bad)
    <2>1. /\ index < Len(conns) /\ index + 1 \in 1..Len(conns)
          /\ subscriber' = "send" /\ index' = index + 1 /\ target' = conns[index + 1]
          /\ failed' = bad /\ UNCHANGED <<conns, msg, left>>
        BY <1>1, <1>7 DEF More, NextTarget
    <2>2. target' \in Sockets /\ target' # target /\ handler[target'] = "receiving"
        BY <1>1, <2>1 DEF LoopInv, ListInv
    <2>3. ServiceTypeOK'
        <3>1. target' \in 0..MaxSockets
            BY <2>2, SocketNumbers
        <3>2. index' \in Nat
            BY <1>1, <2>1
        <3> QED
            BY <2>1, <3>1, <3>2 DEF ServiceTypeOK, Delivery
    <2>4. ListInv'
        BY <2>1 DEF ListInv
    <2>5. LoopInv'
        <3>1. \A s \in Sockets : \A i \in 1..Len(got'[s]) : got'[s][i] < msg + 1
            <4>1. msg + 1 \in Int /\ msg + 1 > msg
                BY <1>1
            <4> QED
                BY <1>4, <4>1
        <3>2. ASSUME NEW i \in 1..Len(conns), i > index
              PROVE  \A k \in 1..Len(got'[conns[i]]) : got'[conns[i]][k] < msg
            <4>1. conns[i] # target /\ conns[i] \in Sockets /\ Before(conns[i], msg)
                BY <1>1, <3>2 DEF LoopInv
            <4>2. got'[conns[i]] = got[conns[i]]
                BY <4>1 DEF Delivery
            <4> QED
                BY <4>1, <4>2 DEF Before
        <3>3. ASSUME NEW i \in 1..Len(conns), i > index + 1  PROVE conns[i] # target' /\ i > index
            BY <1>1, <2>1, <3>3 DEF ListInv
        <3>4. \A k \in 1..Len(got'[target']) : got'[target'][k] < msg
            <4>1. index + 1 \in 1..Len(conns) /\ index + 1 > index
                BY <1>1, <2>1
            <4>2. \A k \in 1..Len(got'[conns[index + 1]]) : got'[conns[index + 1]][k] < msg
                BY <3>2, <4>1
            <4> QED
                BY <2>1, <4>2
        <3>5. index' > 0 /\ handler'[target'] # "none"
            BY <1>1, <2>1, <2>2
        <3> QED
            BY <1>1, <2>1, <2>2, <3>1, <3>2, <3>3, <3>4, <3>5 DEF LoopInv, Before
    <2>6. RoundInv'
        <3>1. Reached \subseteq Reached' /\ target \in Reached'
            BY <1>1, <2>1 DEF Reached, Delivery
        <3>2. ASSUME left = {}, NEW i \in 1..Len(conns), i < index + 1  PROVE conns[i] \in Reached'
            <4>1. i < index \/ i = index
                BY <1>1, <3>2
            <4> QED
                BY <3>1, <3>2, <4>1 DEF RoundInv
        <3> QED
            BY <1>1, <2>1, <3>2 DEF RoundInv
    <2>7. LeftInv'
        BY <2>1 DEF LeftInv, Accounted
    <2> QED
        BY <1>3, <1>6, <2>1, <2>3, <2>4, <2>5, <2>6, <2>7
<1>8. CASE ~More(bad)
    <2>1. /\ conns' = Without(conns, Dropped(bad)) /\ subscriber' \in {"listen", "dead"}
          /\ msg' = 0 /\ index' = 0 /\ target' = 0 /\ left' = {} /\ failed' = <<>>
        BY <1>8 DEF NextTarget, LoopOver
    <2>2. /\ conns' \in Seq(Sockets)
          /\ \A i, j \in 1..Len(conns') : conns'[i] = conns'[j] => i = j
          /\ \A n \in 1..Len(conns') : \E i \in 1..Len(conns) :
                 i >= n /\ conns'[n] = conns[i] /\ conns[i] \notin Dropped(bad)
          /\ \A i \in 1..Len(conns) : conns[i] \notin Dropped(bad) =>
                 \E n \in 1..Len(conns') : conns'[n] = conns[i]
        BY <2>1, Shrinks
    <2>3. \A s \in Dropped(bad) : peer[s] = "closed"
        <3>1. DOMAIN bad = 1..Len(bad)
            OBVIOUS
        <3> QED
            BY <3>1 DEF Dropped
    <2>4. ServiceTypeOK'
        <3>1. failed' \in Seq(Sockets)
            BY <2>1
        <3>2. msg' \in 0..MaxAlerts /\ index' \in Nat /\ target' \in 0..MaxSockets
            BY <2>1, PushAssumption
        <3> QED
            BY <2>1, <2>2, <3>1, <3>2 DEF ServiceTypeOK, Delivery
    <2>5. ListInv'
        <3>1. ASSUME NEW n \in 1..Len(conns')  PROVE handler[conns'[n]] = "receiving"
            <4>1. PICK i \in 1..Len(conns) : conns'[n] = conns[i]
                BY <2>2
            <4>2. handler[conns[i]] = "receiving"
                BY DEF ListInv
            <4> QED
                BY <4>1, <4>2
        <3>2. ASSUME NEW s \in Sockets, peer[s] = "open"  PROVE \E n \in 1..Len(conns') : conns'[n] = s
            <4>1. PICK i \in 1..Len(conns) : conns[i] = s
                BY <3>2 DEF ListInv
            <4> QED
                BY <2>2, <2>3, <3>2, <4>1
        <3>3. \A i \in 1..Len(failed') : peer[failed'[i]] = "closed"
            BY <2>1
        <3> QED
            BY <2>2, <3>1, <3>2, <3>3 DEF ListInv
    <2>6. LoopInv' /\ RoundInv' /\ LeftInv'
        BY <2>1 DEF LoopInv, RoundInv, LeftInv
    <2> QED
        BY <1>3, <1>6, <2>1, <2>4, <2>5, <2>6
<1> QED
    BY <1>7, <1>8

LEMMA SendStep ==
    ASSUME ServiceInv, Sent \/ SendFails
    PROVE  ServiceInv'
<1> USE DEF ServiceInv
<1>1. /\ subscriber = "send" /\ UNCHANGED <<handler, inbox, published, peer>>
      /\ target \in Sockets /\ failed \in Seq(Sockets) /\ Len(failed) \in Nat
      /\ \A k \in 1..Len(failed) : peer[failed[k]] = "closed"
    BY DEF Sent, SendFails, ServiceTypeOK, LoopInv, ListInv
<1>2. Accounted(target) /\ \A k \in 1..Len(failed) : Accounted(failed[k])
    BY <1>1 DEF LeftInv
<1>3. CASE Sent
    <2>1. NextTarget(failed)
        BY <1>3 DEF Sent
    <2> QED
        BY <1>1, <1>2, <1>3, <2>1, SentDelivers, LoopStep
<1>4. CASE SendFails
    <2> DEFINE bad == Append(failed, target)
    <2>1. NextTarget(bad) /\ peer[target] = "closed"
        BY <1>4 DEF SendFails
    <2>2. bad \in Seq(Sockets)
        BY <1>1
    <2>3. /\ Len(bad) = Len(failed) + 1 /\ bad[Len(failed) + 1] = target
          /\ \A k \in 1..Len(failed) : bad[k] = failed[k]
        BY <1>1
    <2> HIDE DEF bad
    <2>4. \A k \in 1..Len(bad) : k \in 1..Len(failed) \/ k = Len(failed) + 1
        BY <1>1, <2>3
    <2>5. \A k \in 1..Len(bad) : peer[bad[k]] = "closed"
        BY <1>1, <2>1, <2>3, <2>4
    <2>6. \A k \in 1..Len(bad) : Accounted(bad[k])
        BY <1>2, <2>3, <2>4
    <2> QED
        BY <1>1, <1>4, <2>1, <2>2, <2>5, <2>6, FailedDelivers, LoopStep
<1> QED
    BY <1>3, <1>4

\* The next alert of the channel is later than all that was sent.
LEMMA ReceiveStep ==
    ASSUME ServiceInv, Receive
    PROVE  ServiceInv'
<1> USE DEF ServiceInv
<1>1. /\ subscriber = "listen" /\ inbox # <<>> /\ inbox' = Tail(inbox)
      /\ UNCHANGED <<conns, handler, failed, left, peer, published, got>>
      /\ msg = 0 /\ failed = <<>> /\ left = {}
    BY DEF Receive, LoopInv
<1>2. /\ inbox \in Seq(Alerts) /\ inbox' \in Seq(Alerts)
      /\ Len(inbox) \in Nat /\ Len(inbox) > 0 /\ Len(inbox') = Len(inbox) - 1
      /\ Head(inbox) = inbox[1]
      /\ \A k \in 1..Len(inbox') : k + 1 \in 1..Len(inbox) /\ inbox'[k] = inbox[k + 1]
    BY <1>1 DEF ServiceTypeOK
<1>3. /\ inbox[1] \in Alerts /\ inbox[1] \in Nat /\ inbox[1] > 0 /\ inbox[1] \in 1..published
      /\ inbox[1] \in 0..MaxAlerts /\ 1 \in 1..Len(inbox) /\ published \in Nat
    <2>1. published \in Nat
        BY PushAssumption DEF ServiceTypeOK
    <2>2. inbox[1] \in Alerts /\ 1 \in 1..Len(inbox)
        BY <1>2
    <2>3. inbox[1] \in Nat /\ inbox[1] > 0 /\ inbox[1] \in 0..MaxAlerts
        BY <2>2, PushAssumption DEF Alerts
    <2>4. inbox[1] <= published
        BY <2>2 DEF OrderInv
    <2> QED
        BY <2>1, <2>2, <2>3, <2>4
<1>4. ASSUME msg' = 0 \/ msg' = inbox[1]  PROVE OrderInv'
    <2>1. ASSUME NEW k \in 1..Len(inbox')
          PROVE  /\ inbox'[k] <= published
                 /\ msg' < inbox'[k]
                 /\ \A s \in Sockets : Before(s, inbox'[k])
                 /\ \A m \in 1..Len(inbox') : k < m => inbox'[k] < inbox'[m]
        <3>1. k + 1 \in 1..Len(inbox) /\ inbox'[k] = inbox[k + 1] /\ k \in Nat /\ 1 < k + 1
            BY <1>2
        <3>2. /\ inbox[k + 1] <= published /\ msg < inbox[k + 1]
              /\ \A s \in Sockets : Before(s, inbox[k + 1])
            BY <3>1 DEF OrderInv
        <3>3. inbox[1] < inbox[k + 1]
            BY <1>3, <3>1 DEF OrderInv
        <3>4. ASSUME NEW m \in 1..Len(inbox'), k < m  PROVE inbox'[k] < inbox'[m]
            <4>1. m + 1 \in 1..Len(inbox) /\ inbox'[m] = inbox[m + 1] /\ k + 1 < m + 1
                BY <1>2, <3>1, <3>4
            <4> QED
                BY <3>1, <4>1 DEF OrderInv
        <3> QED
            BY <1>1, <1>4, <3>1, <3>2, <3>3, <3>4
    <2> QED
        BY <1>1, <2>1 DEF OrderInv, Before
<1>5. HandlerInv' /\ ListInv'
    BY <1>1 DEF HandlerInv, ListInv
<1>6. CASE conns = <<>>
    <2>1. UNCHANGED <<subscriber, msg, index, target>>
        BY <1>6 DEF Receive
    <2>2. ServiceTypeOK'
        BY <1>1, <1>2, <2>1 DEF ServiceTypeOK
    <2>3. LoopInv' /\ RoundInv' /\ LeftInv'
        BY <1>1, <2>1 DEF LoopInv, RoundInv, LeftInv
    <2> QED
        BY <1>1, <1>4, <1>5, <2>1, <2>2, <2>3
<1>7. CASE conns # <<>>
    <2>1. msg' = inbox[1] /\ subscriber' = "send" /\ index' = 1 /\ target' = conns[1]
        BY <1>2, <1>7 DEF Receive
    <2>2. /\ conns \in Seq(Sockets) /\ Len(conns) \in Nat /\ Len(conns) > 0 /\ 1 \in 1..Len(conns)
          /\ \A i \in 1..Len(conns) : conns[i] \in Sockets
        BY <1>7 DEF ServiceTypeOK
    <2>3. target' \in Sockets /\ handler[target'] = "receiving"
        BY <2>1, <2>2 DEF ListInv
    <2>4. ServiceTypeOK'
        <3>1. target' \in 0..MaxSockets /\ index' \in Nat /\ msg' \in 0..MaxAlerts
            BY <1>3, <2>1, <2>3, SocketNumbers
        <3> QED
            BY <1>1, <1>2, <2>1, <3>1 DEF ServiceTypeOK
    <2>5. LoopInv'
        <3>1. \A s \in Sockets : Before(s, inbox[1])
            BY <1>3 DEF OrderInv
        <3>2. \A s \in Sockets : Before(s, inbox[1] + 1)
            BY <1>3, <3>1, BeforeLater
        <3>3. \A i \in 1..Len(conns) : i > 1 => conns[i] # conns[1] /\ Before(conns[i], inbox[1])
            BY <2>2, <3>1 DEF ListInv
        <3>4. handler'[target'] # "none" /\ index' > 0
            BY <1>1, <2>1, <2>3
        <3> QED
            BY <1>1, <1>3, <2>1, <2>3, <3>1, <3>2, <3>3, <3>4 DEF LoopInv, Before
    <2>6. RoundInv' /\ LeftInv'
        BY <1>1, <2>1, <2>2 DEF RoundInv, LeftInv, Accounted
    <2> QED
        BY <1>1, <1>4, <1>5, <2>1, <2>4, <2>5, <2>6
<1> QED
    BY <1>6, <1>7

\* The subscriber starts or loses Redis between two broadcasts.
LEMMA SubscriberStep ==
    ASSUME ServiceInv, Subscribe \/ RedisFails
    PROVE  ServiceInv'
<1> USE DEF ServiceInv
<1>1. /\ subscriber # "send" /\ subscriber' \in {"listen", "dead"}
      /\ inbox' = inbox \/ inbox' = <<>>
      /\ UNCHANGED <<conns, handler, msg, index, target, failed, left, peer, published, got>>
    BY DEF Subscribe, RedisFails
<1>2. ServiceTypeOK'
    <2>1. inbox \in Seq(Alerts) /\ <<>> \in Seq(Alerts)
        BY DEF ServiceTypeOK
    <2>2. inbox' \in Seq(Alerts)
        BY <1>1, <2>1
    <2> QED
        BY <1>1, <2>2 DEF ServiceTypeOK
<1>3. HandlerInv' /\ ListInv'
    BY <1>1 DEF HandlerInv, ListInv
<1>4. OrderInv'
    <2>1. CASE inbox' = inbox
        BY <1>1, <2>1 DEF OrderInv, Before
    <2>2. CASE inbox' = <<>>
        BY <1>1, <2>2 DEF OrderInv, Before
    <2> QED
        BY <1>1, <2>1, <2>2
<1>5. LoopInv' /\ RoundInv' /\ LeftInv'
    BY <1>1 DEF LoopInv, RoundInv, LeftInv
<1> QED
    BY <1>2, <1>3, <1>4, <1>5

\* A new process starts with nothing; the browsers keep what they got.
LEMMA RestartStep ==
    ASSUME ServiceInv, Restart
    PROVE  ServiceInv'
<1> USE DEF ServiceInv
<1>1. /\ conns' = <<>> /\ subscriber' = "off" /\ inbox' = <<>>
      /\ handler' = [s \in Sockets |-> IF peer[s] \in {"open", "closed"} THEN "done" ELSE "none"]
      /\ peer' = [s \in Sockets |-> IF peer[s] = "open" THEN "closed" ELSE peer[s]]
      /\ msg' = 0 /\ index' = 0 /\ target' = 0 /\ left' = {} /\ failed' = <<>>
      /\ UNCHANGED <<published, got>>
    BY DEF Restart, LoopOver
<1>2. ServiceTypeOK'
    <2>1. handler' \in [Sockets -> {"none", "receiving", "done"}]
        BY <1>1
    <2>2. peer' \in [Sockets -> {"none", "opening", "open", "closed"}]
        BY <1>1 DEF ServiceTypeOK
    <2>3. /\ conns' \in Seq(Sockets) /\ inbox' \in Seq(Alerts) /\ failed' \in Seq(Sockets)
          /\ msg' \in 0..MaxAlerts /\ index' \in Nat /\ target' \in 0..MaxSockets
        BY <1>1, PushAssumption
    <2> QED
        BY <1>1, <2>1, <2>2, <2>3 DEF ServiceTypeOK
<1>3. HandlerInv'
    BY <1>1 DEF HandlerInv, ServiceTypeOK
<1>4. ListInv'
    BY <1>1 DEF ListInv
<1>5. OrderInv'
    BY <1>1 DEF OrderInv, Before
<1>6. LoopInv' /\ RoundInv' /\ LeftInv'
    BY <1>1 DEF LoopInv, RoundInv, LeftInv
<1> QED
    BY <1>2, <1>3, <1>4, <1>5, <1>6

\* What happens in the browsers and in the network only changes `peer`.
LEMMA OutsideStep ==
    ASSUME ServiceInv, BrowserInv,
           (\E v \in Views : Mount(v) \/ Unmount(v) \/ Browser(v)) \/ (\E s \in Sockets : Break(s))
    PROVE  ServiceInv'
<1> USE DEF ServiceInv
<1>1. ASSUME NEW v \in Views, Mount(v) \/ TimerFires(v)
      PROVE  ServiceInv'
    <2>1. /\ opened + 1 \in Sockets /\ opened + 1 > opened
          /\ peer' = [peer EXCEPT ![opened + 1] = "opening"]
          /\ UNCHANGED <<serviceVars, got, published>>
        BY <1>1, PushAssumption
           DEF Mount, TimerFires, Connect, BrowserInv, BrowserTypeOK, Sockets
    <2>2. peer[opened + 1] = "none"
        BY <2>1 DEF BrowserInv, Unopened
    <2> QED
        BY <2>1, <2>2, PeerStep DEF ServiceTypeOK
<1>2. ASSUME NEW v \in Views, Unmount(v)
      PROVE  ServiceInv'
    <2>1. /\ peer' = IF socket[v] = 0 THEN peer ELSE [peer EXCEPT ![socket[v]] = "closed"]
          /\ UNCHANGED <<serviceVars, got, published>>
        BY <1>2 DEF Unmount
    <2>2. /\ peer' \in [Sockets -> {"none", "opening", "open", "closed"}]
          /\ \A s \in Sockets : peer'[s] = peer[s] \/ peer'[s] = "closed"
        BY <2>1 DEF ServiceTypeOK
    <2> QED
        BY <2>1, <2>2, PeerStep
<1>3. ASSUME NEW v \in Views, OnClose(v)
      PROVE  ServiceInv'
    <2>1. UNCHANGED <<serviceVars, got, published, peer>>
        BY <1>3 DEF OnClose
    <2> QED
        BY <2>1, PeerStep DEF ServiceTypeOK
<1>4. ASSUME NEW s \in Sockets, Break(s)
      PROVE  ServiceInv'
    <2>1. peer' = [peer EXCEPT ![s] = "closed"] /\ UNCHANGED <<serviceVars, got, published>>
        BY <1>4 DEF Break
    <2>2. /\ peer' \in [Sockets -> {"none", "opening", "open", "closed"}]
          /\ \A u \in Sockets : peer'[u] = peer[u] \/ peer'[u] = "closed"
        BY <2>1 DEF ServiceTypeOK
    <2> QED
        BY <2>1, <2>2, PeerStep
<1> QED
    BY <1>1, <1>2, <1>3, <1>4 DEF Browser

LEMMA NextServiceInv == ServiceInv /\ BrowserInv /\ [Next]_vars => ServiceInv'
<1> SUFFICES ASSUME ServiceInv, BrowserInv, [Next]_vars
             PROVE  ServiceInv'
    OBVIOUS
<1>1. CASE UNCHANGED vars
    BY <1>1, PeerStep DEF ServiceInv, ServiceTypeOK
<1>2. CASE \E v \in Views : Mount(v) \/ Unmount(v) \/ Browser(v)
    BY <1>2, OutsideStep
<1>3. CASE \E s \in Sockets : Handlers(s) \/ Break(s)
    BY <1>3, AcceptStep, DisconnectStep, OutsideStep DEF Handlers
<1>4. CASE Publish \/ Subscriber \/ RedisFails \/ Restart
    BY <1>4, PublishStep, SubscriberStep, ReceiveStep, SendStep, RestartStep DEF Subscriber
<1> QED
    BY <1>1, <1>2, <1>3, <1>4 DEF Next

LEMMA InitServiceInv == Init => ServiceInv
<1> SUFFICES ASSUME Init  PROVE ServiceInv
    OBVIOUS
<1>1. ServiceTypeOK
    <2>1. conns \in Seq(Sockets) /\ inbox \in Seq(Alerts) /\ failed \in Seq(Sockets)
        BY DEF Init
    <2>2. /\ handler \in [Sockets -> {"none", "receiving", "done"}]
          /\ peer \in [Sockets -> {"none", "opening", "open", "closed"}]
        BY DEF Init
    <2>3. got \in [Sockets -> Seq(Alerts)]
        BY DEF Init
    <2>4. msg \in 0..MaxAlerts /\ published \in 0..MaxAlerts /\ target \in 0..MaxSockets /\ index \in Nat
        BY PushAssumption DEF Init
    <2> QED
        BY <2>1, <2>2, <2>3, <2>4 DEF Init, ServiceTypeOK
<1>2. HandlerInv /\ ListInv /\ LoopInv /\ RoundInv /\ LeftInv
    BY DEF Init, HandlerInv, ListInv, LoopInv, RoundInv, LeftInv
<1>3. OrderInv
    BY DEF Init, OrderInv, Before
<1> QED
    BY <1>1, <1>2, <1>3 DEF ServiceInv

LEMMA InitBrowserInv == Init => BrowserInv
BY PushAssumption
   DEF Init, BrowserInv, BrowserTypeOK, Unopened, Current, Distinct, Owned, Sockets

DropsInv == drops \in Nat

\* Failures are only counted up.
LEMMA NextDrops == DropsInv /\ [Next]_vars => DropsInv'
<1> USE DEF DropsInv
<1> SUFFICES ASSUME DropsInv, [Next]_vars, drops' # drops
             PROVE  DropsInv'
    OBVIOUS
<1>1. (\E s \in Sockets : Break(s)) \/ RedisFails \/ Restart
    BY DEF Next, Browser, Handlers, Mount, Unmount, OnClose, TimerFires, Accept, Disconnect,
           Subscriber, Publish, Subscribe, Receive, Sent, SendFails
<1> QED
    BY <1>1 DEF Break, RedisFails, Restart

LEMMA AlwaysServiceInv == Spec => [](ServiceInv /\ BrowserInv /\ DropsInv)
<1>1. Init => DropsInv
    BY DEF Init, DropsInv
<1> QED
    BY <1>1, InitServiceInv, InitBrowserInv, NextServiceInv, NextBrowserInv, NextDrops, PTL
    DEF Spec

\* Whatever handlers, broadcasts, failed sends and restarts do to ws_connections,
\* every connected client is in it once, and no other.
THEOREM ListIsCurrentAlways == Spec => []ListIsCurrent
<1>1. ASSUME ServiceInv  PROVE ListIsCurrent
    <2>1. conns \in Seq(Sockets) /\ DOMAIN conns = 1..Len(conns)
        BY <1>1 DEF ServiceInv, ServiceTypeOK
    <2>2. IsInjective(conns)
        BY <1>1, <2>1 DEF ServiceInv, ListInv, IsInjective
    <2>3. ASSUME NEW s \in Sockets, Reachable(s)  PROVE Contains(conns, s)
        BY <1>1, <2>3 DEF ServiceInv, ListInv, Reachable, Contains
    <2>4. \A i \in DOMAIN conns : handler[conns[i]] = "receiving"
        BY <1>1, <2>1 DEF ServiceInv, ListInv
    <2> QED
        BY <2>2, <2>3, <2>4 DEF ListIsCurrent
<1> QED
    BY <1>1, AlwaysServiceInv, PTL

\* No client gets two alerts out of order, or one twice.
THEOREM InOrderOnceAlways == Spec => []InOrderOnce
<1>1. ASSUME ServiceInv  PROVE InOrderOnce
    <2>1. ASSUME NEW s \in Sockets  PROVE DOMAIN got[s] = 1..Len(got[s])
        <3>1. got[s] \in Seq(Alerts)
            BY <1>1 DEF ServiceInv, ServiceTypeOK
        <3> QED
            BY <3>1
    <2> QED
        BY <1>1, <2>1 DEF ServiceInv, OrderInv, InOrderOnce
<1> QED
    BY <1>1, AlwaysServiceInv, PTL

\* The loop ends only after it has stood at every element of the list.
LEMMA RoundEnds ==
    ASSUME ServiceInv, DropsInv, [Next]_vars,
           subscriber = "send", index' = 0, left = {}, drops' = drops
    PROVE  /\ Delivery /\ peer' = peer /\ handler' = handler
           /\ \A i \in 1..Len(conns) : i < index => conns[i] \in Reached
           /\ index = Len(conns) /\ conns[index] = target
<1> USE DEF ServiceInv
<1>1. index \in Nat \ {0} /\ index <= Len(conns) /\ conns[index] = target
    BY DEF ServiceTypeOK, LoopInv, RoundInv
<1>2. index' # index
    BY <1>1
<1>3. Sent \/ SendFails
    <2>1. ASSUME NEW v \in Views, Mount(v) \/ Unmount(v) \/ Browser(v)  PROVE FALSE
        BY <1>2, <2>1 DEF Browser, Mount, Unmount, OnClose, TimerFires
    <2>2. ASSUME NEW s \in Sockets, Handlers(s) \/ Break(s)  PROVE FALSE
        BY <1>2, <2>2 DEF Handlers, Accept, Disconnect, Break
    <2>3. ~Publish /\ ~Subscribe /\ ~Receive /\ ~RedisFails /\ ~UNCHANGED vars
        BY <1>2 DEF Publish, Subscribe, Receive, RedisFails
    <2>4. ~Restart
        BY DEF Restart, DropsInv
    <2> QED
        BY <2>1, <2>2, <2>3, <2>4 DEF Next, Subscriber
<1>4. ~More(failed) /\ ~More(Append(failed, target)) /\ peer' = peer /\ handler' = handler
    BY <1>1, <1>3 DEF Sent, SendFails, NextTarget, More
<1>5. Delivery
    BY <1>3, SentDelivers, FailedDelivers
<1>6. Len(conns) \in Nat
    BY DEF ServiceTypeOK
<1> QED
    BY <1>1, <1>4, <1>5, <1>6 DEF More, RoundInv

\* A broadcast that ends without any removal has reached every client that is
\* connected then.
THEOREM DeliveredIfNoneLeftAlways == Spec => DeliveredIfNoneLeft
<1>1. ASSUME ServiceInv, DropsInv, [Next]_vars,
             subscriber = "send", index' = 0, left = {}, drops' = drops,
             NEW s \in Sockets, peer[s] = "open"
      PROVE  msg \in Range(got'[s])
    <2>1. /\ Delivery /\ index = Len(conns) /\ conns[index] = target
          /\ \A i \in 1..Len(conns) : i < index => conns[i] \in Reached
        BY <1>1, RoundEnds
    <2>2. PICK i \in 1..Len(conns) : conns[i] = s
        BY <1>1 DEF ServiceInv, ListInv
    <2>3. Len(conns) \in Nat
        BY <1>1 DEF ServiceInv, ServiceTypeOK
    <2>4. \E k \in 1..Len(got'[s]) : got'[s][k] = msg
        <3>1. CASE i < index
            <4>1. s # target
                BY <1>1, <2>1, <2>2, <2>3, <3>1 DEF ServiceInv, ListInv
            <4>2. s \in Reached /\ got'[s] = got[s]
                BY <2>1, <2>2, <3>1, <4>1 DEF Delivery
            <4> QED
                BY <1>1, <4>2 DEF Reached
        <3>2. CASE i = index
            BY <1>1, <2>1, <2>2, <3>2 DEF Delivery
        <3> QED
            BY <2>1, <2>3, <3>1, <3>2
    <2>5. got'[s] \in Seq(Alerts)
        BY <2>1 DEF Delivery
    <2>6. DOMAIN got'[s] = 1..Len(got'[s])
        BY <2>5
    <2> QED
        BY <2>4, <2>6 DEF Range
<1>2. ASSUME ServiceInv, DropsInv, [Next]_vars
      PROVE  subscriber = "send" /\ index' = 0 /\ left = {} /\ drops' = drops =>
                 \A s \in Sockets : Reaches(s)
    BY <1>1, <1>2 DEF Reaches, Reachable
<1>3. ServiceInv /\ DropsInv /\ [Next]_vars =>
          [subscriber = "send" /\ index' = 0 /\ left = {} /\ drops' = drops =>
               \A s \in Sockets : Reaches(s)]_vars
    BY <1>2
<1> QED
    BY <1>3, AlwaysServiceInv, PTL DEF Spec, DeliveredIfNoneLeft

\* While Redis answers, only a client that its handler took out of the list
\* during the very broadcast that had it as a receiver and found it gone can
\* end the subscriber.
THEOREM SubscriberSurvivesAlways == Spec => SubscriberSurvives
<1>1. ASSUME ServiceInv, DropsInv, [Next]_vars, subscriber' = "dead", subscriber # "dead",
             drops' = drops
      PROVE  \E s \in left : peer[s] = "closed" /\ s \in Range(failed) \cup {target}
    <2>1. Sent \/ SendFails
        <3>1. ~Restart /\ ~RedisFails
            BY <1>1 DEF Restart, RedisFails, DropsInv
        <3>2. ~Publish /\ ~Subscribe /\ ~Receive /\ ~UNCHANGED vars
            BY <1>1 DEF Publish, Subscribe, Receive
        <3>3. ASSUME NEW v \in Views, Mount(v) \/ Unmount(v) \/ Browser(v)  PROVE FALSE
            BY <1>1, <3>3 DEF Browser, Mount, Unmount, OnClose, TimerFires
        <3>4. ASSUME NEW s \in Sockets, Handlers(s) \/ Break(s)  PROVE FALSE
            BY <1>1, <3>4 DEF Handlers, Accept, Disconnect, Break
        <3> QED
            BY <1>1, <3>1, <3>2, <3>3, <3>4 DEF Next, Subscriber
    <2>2. /\ subscriber = "send" /\ failed \in Seq(Sockets) /\ Len(failed) \in Nat
          /\ conns \in Seq(Sockets)
          /\ Accounted(target)
          /\ \A k \in 1..Len(failed) : Accounted(failed[k]) /\ peer[failed[k]] = "closed"
        <3>1. subscriber = "send"
            BY <2>1 DEF Sent, SendFails
        <3> QED
            BY <1>1, <3>1 DEF ServiceInv, ServiceTypeOK, ListInv, LeftInv
    <2>3. \A k \in 1..Len(failed) : failed[k] \in Range(failed)
        <3>1. DOMAIN failed = 1..Len(failed)
            BY <2>2
        <3> QED
            BY <3>1 DEF Range
    <2>4. CASE Sent
        <3>1. NextTarget(failed)
            BY <2>4 DEF Sent
        <3>2. PICK k \in DOMAIN failed : ~Contains(conns, failed[k])
            BY <1>1, <3>1 DEF NextTarget, Missing
        <3>3. k \in 1..Len(failed) /\ failed[k] \in left
            BY <2>2, <3>2 DEF Accounted, Contains
        <3> QED
            BY <2>2, <2>3, <3>3
    <2>5. CASE SendFails
        <3> DEFINE bad == Append(failed, target)
        <3>1. NextTarget(bad) /\ peer[target] = "closed"
            BY <2>5 DEF SendFails
        <3>2. /\ DOMAIN bad = 1..(Len(failed) + 1) /\ bad[Len(failed) + 1] = target
              /\ \A k \in 1..Len(failed) : bad[k] = failed[k]
            BY <2>2
        <3> HIDE DEF bad
        <3>3. PICK k \in DOMAIN bad : ~Contains(conns, bad[k])
            BY <1>1, <3>1 DEF NextTarget, Missing
        <3>4. k \in 1..Len(failed) \/ k = Len(failed) + 1
            BY <2>2, <3>2
        <3>5. Accounted(bad[k]) /\ bad[k] \in Range(failed) \cup {target} /\ peer[bad[k]] = "closed"
            BY <2>2, <2>3, <3>1, <3>2, <3>4
        <3>6. bad[k] \in left
            BY <3>3, <3>5 DEF Accounted, Contains
        <3> QED
            BY <3>5, <3>6
    <2> QED
        BY <2>1, <2>4, <2>5
<1>2. ServiceInv /\ DropsInv /\ [Next]_vars =>
          [subscriber' = "dead" /\ subscriber # "dead" =>
              \/ drops' # drops
              \/ \E s \in left : peer[s] = "closed" /\ s \in Range(failed) \cup {target}]_vars
    BY <1>1
<1> QED
    BY <1>2, AlwaysServiceInv, PTL DEF Spec, SubscriberSurvives

=============================================================================
