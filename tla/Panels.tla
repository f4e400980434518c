------------------------------- MODULE Panels -------------------------------
(***************************************************************************)
(* What the panels of the dashboard have in common                         *)
(* (frontend/src/components/Dashboard.tsx mounts one of them at a time):   *)
(* a list that is loaded from the service, requests in flight, buttons     *)
(* that are disabled by a flag while a request runs, a form for one        *)
(* record.  A panel's state is made when it is mounted and dropped when    *)
(* another screen is chosen; answers that arrive afterwards change         *)
(* nothing, but the writes that were sent still take effect.               *)
(*                                                                         *)
(* The requests that a handler sends together and awaits together          *)
(* (Promise.all, Promise.allSettled) are one call, whose answer is the     *)
(* last of theirs.                                                         *)
(***************************************************************************)
EXTENDS Integers, FiniteSets

CONSTANTS
    Records,        \* rows of a list
    Devices,        \* devices that a scan may find
    Choices,        \* filters, or time ranges, that the service applies
    MaxCalls        \* bound on the calls in flight

ASSUME PanelAssumption ==
    /\ Records \subseteq Nat \ {0}
    /\ 1 \in Choices /\ Choices \subseteq Nat \ {0}
    /\ MaxCalls \in Nat

Calls == 1..MaxCalls
None == 0           \* no record: what is entered in the form is new

VARIABLES
    screen,
    chosen,         \* the filter now
    shown,          \* the list: its filter, and whether it has the operator's writes
    busy,           \* the flags that are set
    form,           \* showForm, editing, and the record whose values are in the fields
    scan,           \* ONVIF: the devices found and those selected
    reset,          \* the user of the password modal, whose password it shows, and as
                    \* history whether the modal changed users while that was on its way
    call,           \* slot -> call in flight, or NoCall
    behind          \* history: why the list may be behind since the newest load was sent: an
                    \* answer it wanted did not come, or an overtaken load's came last

panelVars == <<chosen, shown, busy, form, scan, reset, call, behind>>

Screens == {"map", "video", "search", "alerts", "alert-rules", "cameras", "watchlist",
            "ai-status", "integrations", "users", "admin", "reports"}

\* The useState flags of the panels.
Flags == {"loading", "saving", "bulkLoading", "onvifLoading", "onvifOnboarding", "loadingRecent",
          "vahanLoading", "sarthiLoading", "egujcopLoading", "corrLoading"}
NoFlag == "none"

\* Calls of these kinds change what the service stores and what a list should show.
Writes == {"save", "create", "delete", "bulk", "onboard"}
Reads == {"load", "lookup", "scan", "reset"}

\* sent: on its way; stale: the answer of a load before a write of the operator;
\* lost: a write that took effect and is answered with an error or not at all;
\* left: a write whose panel is gone.
Phases == {"sent", "ok", "stale", "failed", "lost", "left"}

CallSet ==
    [op : Writes \cup Reads \cup {"none"}, from : Screens, flag : Flags \cup {NoFlag},
     id : Records \cup {None}, of : Records \cup Choices \cup {None}, newest : BOOLEAN, phase : Phases]

NoCall == [op |-> "none", from |-> "map", flag |-> NoFlag, id |-> None, of |-> None,
           newest |-> FALSE, phase |-> "sent"]

PanelsTypeOK ==
    /\ screen \in Screens
    /\ chosen \in Choices
    /\ shown \in [of : Choices \cup {None}, fresh : BOOLEAN]
    /\ busy \subseteq Flags
    /\ form \in [open : BOOLEAN, id : Records \cup {None}, of : Records \cup {None}]
    /\ scan \in [devices : SUBSET Devices, selected : SUBSET Devices]
    /\ reset \in [of : Records \cup {None}, password : Records \cup {None}, crossed : BOOLEAN]
    /\ call \in [Calls -> CallSet]
    /\ behind \subseteq {"unanswered", "overtaken"}

InFlight(op) == {c \in Calls : call[c].op = op}
Idle == InFlight("none")

Request(op, flag, id, of) ==
    [op |-> op, from |-> screen, flag |-> flag, id |-> id, of |-> of, newest |-> TRUE, phase |-> "sent"]

\* A new load takes the place of the earlier ones as the newest.
Overtaken(cs) ==
    [c \in Calls |-> IF cs[c].op = "load" THEN [cs[c] EXCEPT !.newest = FALSE] ELSE cs[c]]

LoadRequest(flag) == Request("load", flag, None, chosen)

Unloaded == [of |-> None, fresh |-> FALSE]
Blank == [open |-> FALSE, id |-> None, of |-> None]
NoScan == [devices |-> {}, selected |-> {}]
NoReset == [of |-> None, password |-> None, crossed |-> FALSE]

-----------------------------------------------------------------------------
(***************************************************************************)
(* Sending.                                                                *)
(***************************************************************************)

FirstIdle(c) == c \in Idle /\ \A d \in Idle : c <= d

Ask(request) == \E c \in Calls : FirstIdle(c) /\ call' = [call EXCEPT ![c] = request]

\* A load sent in slot c, with the filter of `of`.
LoadIn(c, flag, of) ==
    /\ call' = [Overtaken(call) EXCEPT ![c] = [LoadRequest(flag) EXCEPT !.of = of]]
    /\ behind' = {}

\* A button that the flag disables while its call is in flight.
Press(flag, request) ==
    /\ flag \notin busy
    /\ busy' = busy \cup {flag}
    /\ Ask(request)

-----------------------------------------------------------------------------
(***************************************************************************)
(* The service.                                                            *)
(***************************************************************************)

\* A write takes effect: no list that was read before has it.
Outdated(cs, c) ==
    [d \in Calls |->
        IF d # c /\ cs[d].op = "load" /\ cs[d].phase = "ok" THEN [cs[d] EXCEPT !.phase = "stale"] ELSE cs[d]]

ServeRead(c) ==
    /\ call[c].op \in Reads
    /\ call[c].phase = "sent"
    /\ \E p \in {"ok", "failed"} : call' = [call EXCEPT ![c].phase = p]
    /\ UNCHANGED <<screen, chosen, shown, busy, form, scan, reset, behind>>

ServeWrite(c) ==
    /\ call[c].op \in Writes
    /\ call[c].phase = "sent"
    /\ \/ /\ \E p \in {"ok", "lost"} : call' = [Outdated(call, c) EXCEPT ![c].phase = p]
          /\ shown' = [shown EXCEPT !.fresh = FALSE]
       \/ /\ call' = [call EXCEPT ![c].phase = "failed"]
          /\ UNCHANGED shown
    /\ UNCHANGED <<screen, chosen, busy, form, scan, reset, behind>>

\* A write of a panel that is gone, perhaps of the screen that is shown again.
ServeLeft(c) ==
    /\ call[c].phase = "left"
    /\ call' = [(IF call[c].from = screen THEN Outdated(call, c) ELSE call) EXCEPT ![c] = NoCall]
    /\ shown' = IF call[c].from = screen THEN [shown EXCEPT !.fresh = FALSE] ELSE shown
    /\ behind' = IF call[c].from = screen THEN behind \cup {"unanswered"} ELSE behind
    /\ UNCHANGED <<screen, chosen, busy, form, scan, reset>>

-----------------------------------------------------------------------------
(***************************************************************************)
(* Answers.                                                                *)
(***************************************************************************)

Answered(c) == call[c].phase \in {"ok", "stale", "failed", "lost"}

\* Mutant of Ends: a failure leaves the button disabled.
EndsOnSuccess(c) == IF call[c].phase \in {"ok", "stale"} THEN busy \ {call[c].flag} ELSE busy

\* Every handler resets its flag, after its catch or in a finally.
Ends(c) == busy \ {call[c].flag}

\* The newest load has been answered, and this older one has another filter or was
\* read before a write.
Late(c) ==
    /\ ~call[c].newest /\ ~\E d \in InFlight("load") : call[d].newest
    /\ call[c].of # chosen \/ call[c].phase = "stale"

\* The list is replaced, even by the answer of a load that was overtaken.  After
\* a failure it stays as it is; only the vehicle search empties its list.
AnswerLoad(c) ==
    /\ call[c].op = "load"
    /\ Answered(c)
    /\ \/ /\ call[c].phase \in {"ok", "stale"}
          /\ shown' = [of |-> call[c].of, fresh |-> call[c].phase = "ok"]
          /\ behind' = IF Late(c) THEN behind \cup {"overtaken"} ELSE behind
       \/ /\ call[c].phase = "failed"
          /\ behind' = IF call[c].newest THEN behind \cup {"unanswered"} ELSE behind
          /\ shown' = IF screen = "search" THEN Unloaded ELSE shown
    /\ busy' = Ends(c)
    /\ call' = [call EXCEPT ![c] = NoCall]
    /\ UNCHANGED <<screen, chosen, form, scan, reset>>

\* The catch of a write: a message; nothing is loaded.
AnswerRefused(c) ==
    /\ call[c].op \in Writes
    /\ call[c].phase \in {"failed", "lost"}
    /\ behind' = IF call[c].phase = "lost" THEN behind \cup {"unanswered"} ELSE behind
    /\ busy' = Ends(c)
    /\ call' = [call EXCEPT ![c] = NoCall]
    /\ UNCHANGED <<screen, chosen, shown, form, scan, reset>>

\* Mutant of Reload: the handler does not load again.
ReloadNever(c, flag) == call' = [call EXCEPT ![c] = NoCall] /\ UNCHANGED behind

\* The end of a write that succeeded: the panel loads its list.
Reload(c, flag) == LoadIn(c, flag, chosen)

-----------------------------------------------------------------------------
(***************************************************************************)
(* Mounting.                                                               *)
(***************************************************************************)

\* What remains of the calls when their panel is gone.
Left ==
    [c \in Calls |->
        IF call[c].phase = "left" \/ (call[c].op \in Writes /\ call[c].phase = "sent")
        THEN [call[c] EXCEPT !.phase = "left", !.flag = NoFlag, !.id = None, !.of = None] ELSE NoCall]

\* The state of a panel that has sent nothing.
FreshPanel ==
    /\ chosen' = 1
    /\ shown' = Unloaded
    /\ form' = Blank
    /\ scan' = NoScan
    /\ reset' = NoReset

\* Every panel of screen s loads when it is mounted, with this flag; the audit
\* log does so twice, in its effect on [] and in that on its filters.
MountLoads(s) == CASE s \in {"map", "video", "alerts"} -> 0 [] s = "admin" -> 2 [] OTHER -> 1
MountFlag(s) ==
    CASE s \in {"cameras", "watchlist", "map", "video", "alerts"} -> NoFlag
      [] s = "search" -> "loadingRecent"
      [] OTHER -> "loading"

\* The first slots that are free take the loads of the mount.
MountSlots(s) ==
    LET free == {c \in Calls : Left[c] = NoCall} IN
    {c \in free : Cardinality({d \in free : d < c}) < MountLoads(s)}

Mount(s) ==
    /\ Cardinality(MountSlots(s)) = MountLoads(s)
    /\ screen' = s
    /\ FreshPanel
    /\ call' = [c \in Calls |->
          IF c \in MountSlots(s)
          THEN [op |-> "load", from |-> s, flag |-> MountFlag(s), id |-> None, of |-> 1,
                newest |-> \A d \in MountSlots(s) : d <= c, phase |-> "sent"]
          ELSE Left[c]]
    /\ busy' = {MountFlag(s)} \ {NoFlag}
    /\ behind' = {}

=============================================================================
