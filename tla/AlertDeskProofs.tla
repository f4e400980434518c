-------------------------- MODULE AlertDeskProofs --------------------------
(***************************************************************************)
(* What AlertDesk promises for every number of alerts, of requests in      *)
(* flight and of operators.  The argument: only the two guarded updates    *)
(* and the worker's INSERT write the status column, and each moves it up.  *)
(***************************************************************************)
EXTENDS AlertDesk, TLAPS

Statuses == {"unborn", "new", "acknowledged", "dismissed"}

StatusOK == status \in [Alerts -> Statuses]

\* What a step may do to one alert's status.
Kept(a) ==
    /\ status[a] = "dismissed" => status'[a] = "dismissed"
    /\ status[a] = "acknowledged" => status'[a] # "new"

-----------------------------------------------------------------------------

\* A guarded update stays in the column's values and undoes nothing.
LEMMA UpdateKeeps ==
    ASSUME StatusOK, NEW b \in Alerts, NEW op \in {"acknowledge", "dismiss"},
           MayMove(op, status[b]), status' = [status EXCEPT ![b] = Moved(op)]
    PROVE  StatusOK' /\ \A a \in Alerts : Kept(a)
<1>1. Moved(op) \in {"acknowledged", "dismissed"}
  BY DEF Moved
<1>2. StatusOK'
  BY <1>1 DEF StatusOK, Statuses
<1>3. ASSUME NEW a \in Alerts  PROVE Kept(a)
  <2>1. CASE a # b
    BY <2>1 DEF StatusOK, Kept
  <2>2. CASE a = b
    <3>1. status'[a] = Moved(op)
      BY <2>2 DEF StatusOK
    <3>2. status[a] \in {"new", "acknowledged"}
      BY <2>2 DEF MayMove
    <3> QED
      BY <1>1, <3>1, <3>2 DEF Kept
  <2> QED
    BY <2>1, <2>2
<1> QED
  BY <1>2, <1>3

\* A step that leaves the column alone.
LEMMA SameStatus ==
    ASSUME StatusOK, UNCHANGED status
    PROVE  StatusOK' /\ \A a \in Alerts : Kept(a)
BY DEF StatusOK, Kept

\* No step undoes what an operator did.
LEMMA StepKeeps ==
    ASSUME StatusOK, [Next]_vars
    PROVE  StatusOK' /\ \A a \in Alerts : Kept(a)
<1> USE DEF vars
<1>1. ASSUME NEW c \in Calls, Request(c)
      PROVE  StatusOK' /\ \A a \in Alerts : Kept(a)
  <2>1. CASE ServeAction(c)
    <3>1. CASE UNCHANGED status
      BY <3>1, SameStatus
    <3>2. CASE /\ MayMove(call[c].op, status[call[c].id])
               /\ status' = [status EXCEPT ![call[c].id] = Moved(call[c].op)]
      <4>1. call[c].op \in {"acknowledge", "dismiss"}
        BY <2>1 DEF ServeAction
      <4>2. CASE call[c].id \in Alerts
        BY <3>2, <4>1, <4>2, UpdateKeeps
      <4>3. CASE call[c].id \notin Alerts
        BY <3>2, <4>3, SameStatus DEF StatusOK
      <4> QED
        BY <4>2, <4>3
    <3> QED
      BY <2>1, <3>1, <3>2 DEF ServeAction
  <2>2. CASE ServeRead(c) \/ AnswerList(c) \/ AnswerCount(c) \/ AnswerAction(c)
    BY <2>2, SameStatus DEF ServeRead, AnswerList, AnswerCount, AnswerAction
  <2> QED
    BY <1>1, <2>1, <2>2 DEF Request
<1>2. ASSUME NEW b \in Alerts, Raise(b)
      PROVE  StatusOK' /\ \A a \in Alerts : Kept(a)
  <2>1. StatusOK'
    BY <1>2 DEF Raise, StatusOK, Statuses
  <2>2. ASSUME NEW a \in Alerts  PROVE Kept(a)
    BY <1>2, <2>2 DEF Raise, StatusOK, Kept
  <2> QED
    BY <2>1, <2>2
<1>3. ASSUME NEW b \in Alerts, OtherOperator(b)
      PROVE  StatusOK' /\ \A a \in Alerts : Kept(a)
  BY <1>3, UpdateKeeps DEF OtherOperator
<1>4. CASE \/ \E c \in Calls : Fail(c)
           \/ Poll \/ PollCount \/ SetFilter \/ CloseDetail
  BY <1>4, SameStatus DEF Fail, Poll, PollCount, SetFilter, CloseDetail
<1>5. CASE \E r \in Rows : OpenDetail(r) \/ Handle(r, "acknowledge") \/ Handle(r, "dismiss")
  BY <1>5, SameStatus DEF OpenDetail, Handle
<1>6. CASE UNCHANGED vars
  BY <1>6, SameStatus
<1> QED
  BY <1>1, <1>2, <1>3, <1>4, <1>5, <1>6 DEF Next

-----------------------------------------------------------------------------

\* The status column holds one of its four values for every alert: router.py's
\* updates never write another.
THEOREM StatusType == Spec => []StatusOK
<1>1. Init => StatusOK
  BY DEF Init, StatusOK, Statuses
<1>2. StatusOK /\ [Next]_vars => StatusOK'
  BY StepKeeps
<1> QED
  BY <1>1, <1>2, PTL DEF Spec

\* What an operator did stays done, whoever presses a button on a list that is
\* out of date: the property the run alert_desk checks, for every set of alerts.
THEOREM OutcomeStays == Spec => HandledStays
<1>1. StatusOK /\ [Next]_vars => [\A a \in Alerts :
          /\ status[a] = "dismissed" => status'[a] = "dismissed"
          /\ status[a] = "acknowledged" => status'[a] # "new"]_vars
  BY StepKeeps DEF Kept
<1> QED
  BY <1>1, StatusType, PTL DEF Spec, HandledStays

=============================================================================
