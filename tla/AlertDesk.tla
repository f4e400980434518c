----------------------------- MODULE AlertDesk -----------------------------
(***************************************************************************)
(* Alerts between operators: the list of one operator's alert panel        *)
(* (frontend/src/components/AlertPanel.tsx), which is filled by polls, by  *)
(* changes of the filter and after an action, the badge that Dashboard.tsx *)
(* polls, and the guarded updates of backend/alert/router.py, which other  *)
(* operators run too.  Every request takes two steps, its effect on the    *)
(* service and its answer, and answers come in any order.                  *)
(***************************************************************************)
EXTENDS Integers, FiniteSets

CONSTANTS
    Alerts,
    MaxCalls,       \* bound on the requests in flight
    MaxClicks,      \* bound on the changes of the filter
    MaxFailures     \* bound on the requests that fail

ASSUME DeskAssumption == MaxCalls \in Nat /\ MaxClicks \in Nat /\ MaxFailures \in Nat

Calls == 1..MaxCalls
Filters == {"new", "acknowledged", "dismissed", "all"}
NoCall == [op |-> "none"]

VARIABLES
    status,         \* alert -> alerts.status, or "unborn"
    embedded,       \* prop: the panel beside the map, without filters
    filter,
    alerts,         \* what the list shows: the filter of the answer, and its rows
    detailAlert,    \* the row the modal shows, as it was when clicked, in a set of one, or {}
    alertCount,     \* the badge
    call,           \* slot -> request in flight, or NoCall
    clicks, failures

panelVars == <<embedded, filter, alerts, detailAlert, alertCount>>
vars == <<status, panelVars, call, clicks, failures>>

Rows == [id : Alerts, status : {"new", "acknowledged", "dismissed"}]

\* The filter of a call is that of the render whose handler made it.
Requests ==
    [op : {"list", "count"}, filter : Filters, phase : {"sent"}]
        \cup [op : {"list"}, filter : Filters, phase : {"ok", "failed"}, rows : SUBSET Rows]
        \cup [op : {"count"}, filter : Filters, phase : {"ok", "failed"}, rows : SUBSET Rows]
        \cup [op : {"acknowledge", "dismiss"}, filter : Filters, id : Alerts, phase : {"sent", "ok", "failed"}]

TypeOK ==
    /\ status \in [Alerts -> {"unborn", "new", "acknowledged", "dismissed"}]
    /\ embedded \in BOOLEAN
    /\ filter \in Filters
    /\ alerts \in [filter : Filters, rows : SUBSET Rows]
    /\ detailAlert \subseteq Rows
    /\ alertCount \in Nat
    /\ call \in [Calls -> Requests \cup {NoCall}]
    /\ clicks \in 0..MaxClicks
    /\ failures \in 0..MaxFailures

-----------------------------------------------------------------------------
(***************************************************************************)
(* Requests.                                                               *)
(***************************************************************************)

Idle == {c \in Calls : call[c] = NoCall}

Ask(request) == \E c \in Idle :
    /\ \A d \in Idle : c <= d
    /\ call' = [call EXCEPT ![c] = request]

\* loadAlerts and loadAlertCount, as the render with this filter made them.
ListRequest(f) == [op |-> "list", filter |-> f, phase |-> "sent"]
CountRequest == [op |-> "count", filter |-> "new", phase |-> "sent"]

\* The mount loads both.
Init ==
    /\ status \in [Alerts -> {"unborn", "new"}]
    /\ embedded \in BOOLEAN
    /\ filter = "new"
    /\ alerts = [filter |-> "new", rows |-> {}]
    /\ detailAlert = {}
    /\ alertCount = 0
    /\ call = [c \in Calls |-> CASE c = 1 -> ListRequest("new") [] c = 2 -> CountRequest [] OTHER -> NoCall]
    /\ clicks = 0
    /\ failures = 0

-----------------------------------------------------------------------------
(***************************************************************************)
(* The alert service.                                                      *)
(***************************************************************************)

\* list_alerts: "all" is a status like any other, and no alert has it.
Selected(f) == {r \in Rows : r.status = f /\ status[r.id] = f}

\* Mutant of MayMove: an alert is dismissed or acknowledged whatever its status.
MayMoveAlways(op, s) == s # "unborn"

\* The WHERE clauses of acknowledge_alert and dismiss_alert.
MayMove(op, s) ==
    \/ op = "acknowledge" /\ s = "new"
    \/ op = "dismiss" /\ s \in {"new", "acknowledged"}

Moved(op) == IF op = "acknowledge" THEN "acknowledged" ELSE "dismissed"

\* One UPDATE: it takes the row's lock, so that its guard and its effect are one step.
ServeAction(c) ==
    /\ call[c].op \in {"acknowledge", "dismiss"}
    /\ call[c].phase = "sent"
    /\ \/ /\ MayMove(call[c].op, status[call[c].id])
          /\ status' = [status EXCEPT ![call[c].id] = Moved(call[c].op)]
          /\ call' = [call EXCEPT ![c].phase = "ok"]
       \/ /\ ~MayMove(call[c].op, status[call[c].id])
          /\ call' = [call EXCEPT ![c].phase = "failed"]
          /\ UNCHANGED status
    /\ UNCHANGED <<panelVars, clicks, failures>>

Answered(c, phase) ==
    [op |-> call[c].op, filter |-> call[c].filter, phase |-> phase, rows |-> Selected(call[c].filter)]

ServeRead(c) ==
    /\ call[c].op \in {"list", "count"}
    /\ call[c].phase = "sent"
    /\ call' = [call EXCEPT ![c] = Answered(c, "ok")]
    /\ UNCHANGED <<status, panelVars, clicks, failures>>

\* The network or the service fails; an update may have taken effect or not.
Fail(c) ==
    /\ call[c] # NoCall
    /\ failures < MaxFailures
    /\ failures' = failures + 1
    /\ \/ call[c].op \in {"list", "count"} /\ call' = [call EXCEPT ![c] = Answered(c, "failed")]
       \/ call[c].op \in {"acknowledge", "dismiss"} /\ call' = [call EXCEPT ![c].phase = "failed"]
    /\ UNCHANGED <<status, panelVars, clicks>>

\* The worker inserts an alert; another operator handles one.
Raise(a) ==
    /\ status[a] = "unborn"
    /\ status' = [status EXCEPT ![a] = "new"]
    /\ UNCHANGED <<panelVars, call, clicks, failures>>

OtherOperator(a) ==
    /\ \E op \in {"acknowledge", "dismiss"} :
          MayMove(op, status[a]) /\ status' = [status EXCEPT ![a] = Moved(op)]
    /\ UNCHANGED <<panelVars, call, clicks, failures>>

-----------------------------------------------------------------------------
(***************************************************************************)
(* The panel.                                                              *)
(***************************************************************************)

\* Mutant of PollFilter: the interval is that of the first render.
PollFilterOfMount == "new"

\* The effect depends on [filter], so that the interval loads with the filter of now.
PollFilter == filter

Poll ==
    /\ Ask(ListRequest(PollFilter))
    /\ UNCHANGED <<status, panelVars, clicks, failures>>

\* Dashboard's interval fires.
PollCount ==
    /\ Ask(CountRequest)
    /\ UNCHANGED <<status, panelVars, clicks, failures>>

\* The effect on [filter]: a load at once, and an interval with this filter.
Reloads(f) == Ask(ListRequest(f))

SetFilter ==
    /\ ~embedded
    /\ clicks < MaxClicks
    /\ \E f \in Filters \ {filter} : filter' = f /\ Reloads(f)
    /\ clicks' = clicks + 1
    /\ UNCHANGED <<status, embedded, alerts, detailAlert, alertCount, failures>>

\* A row is opened in the modal, which keeps it as it is; only the embedded list does so.
OpenDetail(r) ==
    /\ embedded
    /\ r \in alerts.rows
    /\ detailAlert = {}
    /\ detailAlert' = {r}
    /\ UNCHANGED <<status, embedded, filter, alerts, alertCount, call, clicks, failures>>

CloseDetail ==
    /\ detailAlert # {}
    /\ detailAlert' = {}
    /\ UNCHANGED <<status, embedded, filter, alerts, alertCount, call, clicks, failures>>

\* Rows whose buttons the operator can press: those of the list, or the modal's.
Pressable == {r \in (IF embedded THEN detailAlert ELSE alerts.rows) : r.status = "new"}

\* handleAck and handleDismiss up to their await; the modal closes.
Handle(r, op) ==
    /\ r \in Pressable
    /\ Ask([op |-> op, filter |-> filter, id |-> r.id, phase |-> "sent"])
    /\ detailAlert' = {}
    /\ UNCHANGED <<status, embedded, filter, alerts, alertCount, clicks, failures>>

\* loadAlerts after its await: the answer is shown, whatever the filter is by now.
AnswerList(c) ==
    /\ call[c].op = "list"
    /\ call[c].phase # "sent"
    /\ alerts' = IF call[c].phase = "ok" THEN [filter |-> call[c].filter, rows |-> call[c].rows] ELSE alerts
    /\ call' = [call EXCEPT ![c] = NoCall]
    /\ UNCHANGED <<status, embedded, filter, detailAlert, alertCount, clicks, failures>>

AnswerCount(c) ==
    /\ call[c].op = "count"
    /\ call[c].phase # "sent"
    /\ alertCount' = IF call[c].phase = "ok" THEN Cardinality(call[c].rows) ELSE alertCount
    /\ call' = [call EXCEPT ![c] = NoCall]
    /\ UNCHANGED <<status, embedded, filter, alerts, detailAlert, clicks, failures>>

\* handleAck after its await: a load with the filter of the click.  A refusal is
\* an unhandled rejection, and nothing is loaded.
AnswerAction(c) ==
    /\ call[c].op \in {"acknowledge", "dismiss"}
    /\ call[c].phase # "sent"
    /\ call' = [call EXCEPT ![c] = IF call[c].phase = "ok" THEN ListRequest(call[c].filter) ELSE NoCall]
    /\ UNCHANGED <<status, panelVars, clicks, failures>>

-----------------------------------------------------------------------------

Request(c) == ServeAction(c) \/ ServeRead(c) \/ AnswerList(c) \/ AnswerCount(c) \/ AnswerAction(c)

Next ==
    \/ \E c \in Calls : Request(c) \/ Fail(c)
    \/ \E a \in Alerts : Raise(a) \/ OtherOperator(a)
    \/ \E r \in Rows : OpenDetail(r) \/ Handle(r, "acknowledge") \/ Handle(r, "dismiss")
    \/ Poll \/ PollCount \/ SetFilter \/ CloseDetail

\* Requests end (nginx gives up on the service after 60 s) and the intervals fire.
Fairness ==
    /\ \A c \in Calls : WF_vars(Request(c))
    /\ SF_vars(Poll) /\ SF_vars(PollCount)

Spec == Init /\ [][Next]_vars /\ Fairness

-----------------------------------------------------------------------------

\* An alert that was dismissed stays so, and one that was acknowledged does not
\* become new again, however operators with lists that are out of date press
\* their buttons.
HandledStays ==
    [][\A a \in Alerts :
          /\ status[a] = "dismissed" => status'[a] = "dismissed"
          /\ status[a] = "acknowledged" => status'[a] # "new"]_vars

\* Once nobody presses, the list comes to be, and to stay, that of the filter
\* chosen last, and the badge counts the new alerts, although answers to older
\* requests arrive late.
Converges ==
    <>[](/\ alerts = [filter |-> filter, rows |-> Selected(filter)]
         /\ alertCount = Cardinality({a \in Alerts : status[a] = "new"}))

=============================================================================
