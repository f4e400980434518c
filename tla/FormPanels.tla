----------------------------- MODULE FormPanels -----------------------------
(***************************************************************************)
(* The panels that change records: CameraManagement.tsx,                   *)
(* UserManagement.tsx, WatchlistManagement.tsx and AlertRules.tsx of       *)
(* frontend/src/components.  What is typed or ticked in a form is left     *)
(* out: a form's content is known by the record it was filled from.        *)
(* confirm() is a choice to act or not.  Filters of these panels choose    *)
(* among rows that are loaded already.                                     *)
(***************************************************************************)
EXTENDS Panels

\* A modal covers the page, the sidebar included.
Covered == (form.open /\ screen # "alert-rules") \/ reset.of # None

-----------------------------------------------------------------------------
(***************************************************************************)
(* CameraManagement.                                                       *)
(***************************************************************************)

\* Mutant of AddCamera: the form keeps the values of the record edited last.
AddCameraUnblanked ==
    /\ form' = [form EXCEPT !.open = TRUE, !.id = None]
    /\ UNCHANGED <<screen, chosen, shown, busy, scan, reset, call, behind>>

AddCamera ==
    /\ form' = [Blank EXCEPT !.open = TRUE]
    /\ UNCHANGED <<screen, chosen, shown, busy, scan, reset, call, behind>>

\* handleBulkUpload, up to its await.
BulkUpload ==
    /\ Press("bulkLoading", Request("bulk", "bulkLoading", None, None))
    /\ UNCHANGED <<screen, chosen, shown, form, scan, reset, behind>>

CameraBar == screen = "cameras" /\ ~Covered /\ (AddCamera \/ BulkUpload)

\* Mutant of ScanCleared: what was selected stays selected.
ScanClearedOfDevices == [scan EXCEPT !.devices = {}]

\* setOnvifResult(null); setSelectedDevices(new Set()).
ScanCleared == NoScan

\* handleOnvifScan, up to its await.
OnvifScan ==
    /\ Press("onvifLoading", Request("scan", "onvifLoading", None, None))
    /\ scan' = ScanCleared
    /\ UNCHANGED <<screen, chosen, shown, form, reset, behind>>

ToggleDevice ==
    /\ \E d \in scan.devices :
          scan' = [scan EXCEPT !.selected = IF d \in @ THEN @ \ {d} ELSE @ \cup {d}]
    /\ UNCHANGED <<screen, chosen, shown, busy, form, reset, call, behind>>

SelectAll ==
    /\ scan.devices # {}
    /\ scan' = [scan EXCEPT !.selected =
                   IF Cardinality(@) = Cardinality(scan.devices) THEN {} ELSE scan.devices]
    /\ UNCHANGED <<screen, chosen, shown, busy, form, reset, call, behind>>

\* handleOnvifOnboard, up to its await: it posts the selected devices.
OnvifOnboard ==
    /\ scan.selected # {}
    /\ Press("onvifOnboarding", Request("onboard", "onvifOnboarding", None, None))
    /\ UNCHANGED <<screen, chosen, shown, form, scan, reset, behind>>

OnvifPanel ==
    /\ screen = "cameras"
    /\ ~Covered
    /\ OnvifScan \/ ToggleDevice \/ SelectAll \/ OnvifOnboard

\* handleEdit.
EditCamera(r) ==
    /\ shown.of # None
    /\ form' = [open |-> TRUE, id |-> r, of |-> r]
    /\ UNCHANGED <<screen, chosen, shown, busy, scan, reset, call, behind>>

\* handleDelete of any of these panels and of any row, up to its await; no button
\* waits for it.
Delete ==
    /\ shown.of # None
    /\ Ask(Request("delete", NoFlag, None, None))
    /\ UNCHANGED <<screen, chosen, shown, busy, form, scan, reset, behind>>

CameraTable ==
    /\ screen = "cameras"
    /\ ~Covered
    /\ Delete \/ \E r \in Records : EditCamera(r)

\* handleSubmit, up to its await: a PUT of the record edited, or a POST.
SubmitCamera ==
    /\ Press("loading", Request("save", "loading", form.id, form.of))
    /\ UNCHANGED <<screen, chosen, shown, form, scan, reset, behind>>

\* setShowForm(false); setEditing(null).
CancelCamera ==
    /\ form' = [form EXCEPT !.open = FALSE, !.id = None]
    /\ UNCHANGED <<screen, chosen, shown, busy, scan, reset, call, behind>>

CameraForm == screen = "cameras" /\ form.open /\ (SubmitCamera \/ CancelCamera)

\* handleSubmit after its await: it closes whichever form is open by now.
CameraSaved(c) ==
    /\ call[c].op = "save"
    /\ form' = Blank
    /\ UNCHANGED scan

CamerasImported(c) == call[c].op \in {"bulk", "delete"} /\ UNCHANGED <<form, scan>>

\* handleOnvifOnboard after its await: it clears whichever scan is shown by now.
CamerasOnboarded(c) ==
    /\ call[c].op = "onboard"
    /\ scan' = NoScan
    /\ UNCHANGED form

CameraDone(c) ==
    /\ screen = "cameras"
    /\ call[c].phase = "ok"
    /\ CameraSaved(c) \/ CamerasImported(c) \/ CamerasOnboarded(c)
    /\ Reload(c, NoFlag)
    /\ busy' = Ends(c)
    /\ UNCHANGED <<screen, chosen, shown, reset>>

\* handleOnvifScan after its await.
ScanAnswered(c) ==
    /\ call[c].op = "scan"
    /\ Answered(c)
    /\ \/ call[c].phase = "ok" /\ \E found \in SUBSET Devices : scan' = [scan EXCEPT !.devices = found]
       \/ call[c].phase = "failed" /\ UNCHANGED scan
    /\ busy' = Ends(c)
    /\ call' = [call EXCEPT ![c] = NoCall]
    /\ UNCHANGED <<screen, chosen, shown, form, reset, behind>>

-----------------------------------------------------------------------------
(***************************************************************************)
(* UserManagement.                                                         *)
(***************************************************************************)

\* loadAll from the Refresh button, which is not disabled meanwhile.
RefreshUsers ==
    /\ \E c \in Calls : FirstIdle(c) /\ LoadIn(c, "loading", chosen)
    /\ busy' = busy \cup {"loading"}
    /\ UNCHANGED <<screen, chosen, shown, form, scan, reset>>

\* openCreate.
OpenCreate ==
    /\ form' = [Blank EXCEPT !.open = TRUE]
    /\ UNCHANGED <<screen, chosen, shown, busy, scan, reset, call, behind>>

UserHeader == screen = "users" /\ ~Covered /\ (RefreshUsers \/ OpenCreate)

\* openEdit.
OpenEdit(u) ==
    /\ form' = [open |-> TRUE, id |-> u, of |-> u]
    /\ UNCHANGED <<screen, chosen, shown, busy, scan, reset, call, behind>>

\* Mutant of ModalFor: the password of the user before stays in the modal.
ModalForKept(u) == [reset EXCEPT !.of = u]

\* setResetModal(u.id); setNewPassword("").
ModalFor(u) == [NoReset EXCEPT !.of = u]

OpenReset(u) ==
    /\ reset' = ModalFor(u)
    /\ call' = [c \in Calls |->
          IF call[c].op = "reset" /\ call[c].id # u THEN [call[c] EXCEPT !.newest = FALSE] ELSE call[c]]
    /\ UNCHANGED <<screen, chosen, shown, busy, form, scan, behind>>

UserTable ==
    /\ screen = "users"
    /\ ~Covered
    /\ shown.of # None
    /\ Delete \/ \E u \in Records : OpenEdit(u) \/ OpenReset(u)

\* handleSave, up to its await.  Without a password a new user is not sent, and
\* the flag is reset at once.
SaveUser ==
    /\ Press("saving", Request("save", "saving", form.id, form.of))
    /\ UNCHANGED <<screen, chosen, shown, form, scan, reset, behind>>

\* Cancel, and the cross: setShowForm(false) only, as in the other panels' forms.
HideForm ==
    /\ form' = [form EXCEPT !.open = FALSE]
    /\ UNCHANGED <<screen, chosen, shown, busy, scan, reset, call, behind>>

UserForm == screen = "users" /\ form.open /\ (SaveUser \/ HideForm)

\* handleResetPassword, up to its await.
ResetPassword ==
    /\ reset.password = None
    /\ Ask(Request("reset", NoFlag, reset.of, None))
    /\ UNCHANGED <<screen, chosen, shown, busy, form, scan, reset, behind>>

CloseReset ==
    /\ reset' = [reset EXCEPT !.of = None]
    /\ UNCHANGED <<screen, chosen, shown, busy, form, scan, call, behind>>

ResetModal == screen = "users" /\ reset.of # None /\ (ResetPassword \/ CloseReset)

\* handleSave and handleDelete after their awaits: loadAll sets its own flag.
UserDone(c) ==
    /\ screen = "users"
    /\ call[c].op \in {"save", "delete"}
    /\ call[c].phase = "ok"
    /\ form' = [form EXCEPT !.open = IF call[c].op = "save" THEN FALSE ELSE @]
    /\ Reload(c, "loading")
    /\ busy' = Ends(c) \cup {"loading"}
    /\ UNCHANGED <<screen, chosen, shown, scan, reset>>

\* handleResetPassword after its await: the modal may be another user's by now.
ResetAnswered(c) ==
    /\ call[c].op = "reset"
    /\ Answered(c)
    /\ reset' = IF call[c].phase = "ok" THEN [reset EXCEPT !.password = call[c].id, !.crossed = ~call[c].newest]
                                       ELSE reset
    /\ call' = [call EXCEPT ![c] = NoCall]
    /\ UNCHANGED <<screen, chosen, shown, busy, form, scan, behind>>

-----------------------------------------------------------------------------
(***************************************************************************)
(* WatchlistManagement and AlertRules.                                     *)
(***************************************************************************)

AddEntry ==
    /\ screen = "watchlist"
    /\ ~Covered
    /\ form' = [Blank EXCEPT !.open = TRUE]
    /\ UNCHANGED <<screen, chosen, shown, busy, scan, reset, call, behind>>

\* handleSubmit, up to its await.
SubmitEntry ==
    /\ Press("loading", Request("save", "loading", None, None))
    /\ UNCHANGED <<screen, chosen, shown, form, scan, reset, behind>>

EntryForm == screen = "watchlist" /\ form.open /\ (SubmitEntry \/ HideForm)

EntryTable == screen = "watchlist" /\ ~Covered /\ Delete

\* handleSubmit and handleDelete after their awaits.
EntryDone(c) ==
    /\ screen = "watchlist"
    /\ call[c].op \in {"save", "delete"}
    /\ call[c].phase = "ok"
    /\ form' = IF call[c].op = "save" THEN Blank ELSE form
    /\ Reload(c, NoFlag)
    /\ busy' = Ends(c)
    /\ UNCHANGED <<screen, chosen, shown, scan, reset>>

\* "New Rule" opens and closes the form, which is not a modal.
ToggleRuleForm ==
    /\ form' = [form EXCEPT !.open = ~@]
    /\ UNCHANGED <<screen, chosen, shown, busy, scan, reset, call, behind>>

\* handleCreate, up to its await: the button stays enabled.
CreateRule ==
    /\ form.open
    /\ Ask(Request("create", NoFlag, None, None))
    /\ UNCHANGED <<screen, chosen, shown, busy, form, scan, reset, behind>>

RulesTab ==
    /\ screen = "alert-rules"
    /\ ToggleRuleForm \/ CreateRule \/ Delete

\* handleCreate and handleDelete after their awaits.
RuleDone(c) ==
    /\ screen = "alert-rules"
    /\ call[c].op \in {"create", "delete"}
    /\ call[c].phase = "ok"
    /\ form' = IF call[c].op = "create" THEN Blank ELSE form
    /\ Reload(c, "loading")
    /\ busy' = busy \cup {"loading"}
    /\ UNCHANGED <<screen, chosen, shown, scan, reset>>

-----------------------------------------------------------------------------

FormScreen ==
    \/ CameraBar \/ OnvifPanel \/ CameraTable \/ CameraForm
    \/ UserHeader \/ UserTable \/ UserForm \/ ResetModal
    \/ AddEntry \/ EntryForm \/ EntryTable
    \/ RulesTab

FormAnswer(c) == CameraDone(c) \/ ScanAnswered(c) \/ UserDone(c) \/ ResetAnswered(c) \/ EntryDone(c) \/ RuleDone(c)

=============================================================================
