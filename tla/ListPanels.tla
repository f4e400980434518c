----------------------------- MODULE ListPanels -----------------------------
(***************************************************************************)
(* The panels that only read: AuditLog.tsx, Reports.tsx, VehicleSearch.tsx,*)
(* IntegrationsPanel.tsx and AIStatusPanel.tsx of frontend/src/components, *)
(* and what AlertRules.tsx has of it.  A tab or a row that is chosen among *)
(* what is loaded is left out.                                             *)
(***************************************************************************)
EXTENDS Panels

ListPanelVars == <<screen, form, scan, reset>>

\* A load that no flag holds back.
LoadNow ==
    /\ \E c \in Calls : FirstIdle(c) /\ LoadIn(c, "loading", chosen')
    /\ busy' = busy \cup {"loading"}
    /\ UNCHANGED <<shown, ListPanelVars>>

\* A Refresh button that the flag of the load disables.
Refresh(flag) ==
    /\ flag \notin busy
    /\ \E c \in Calls : FirstIdle(c) /\ LoadIn(c, flag, chosen)
    /\ busy' = busy \cup {flag}
    /\ UNCHANGED <<chosen, shown, ListPanelVars>>

\* Mutant of FilterLoads: the list is loaded by the Refresh button only.
FilterLoadsNothing == UNCHANGED <<shown, busy, call, behind, ListPanelVars>>

\* The effect on [actionFilter, entityFilter], or on [timeRange].
FilterLoads == LoadNow

SetChoice == \E f \in Choices \ {chosen} : chosen' = f /\ FilterLoads

\* Enter in the field of the actor's name.
SearchActor == UNCHANGED chosen /\ LoadNow

AuditHeader == screen = "admin" /\ Refresh("loading")

AuditFilters == screen = "admin" /\ (SearchActor \/ SetChoice)

ReportsHeader == screen = "reports" /\ (Refresh("loading") \/ SetChoice)

RulesHeader == screen = "alert-rules" /\ Refresh("loading")

AIStatusHeader == screen = "ai-status" /\ Refresh("loading")

IntegrationsHeader == screen = "integrations" /\ Refresh("loading")

\* The button is there when there are detections to show, and before a search,
\* which is left out here.
RecentVehicles == screen = "search" /\ shown.of # None /\ Refresh("loadingRecent")

\* A search whose button waits for its answer.
Lookup(flag) ==
    /\ Press(flag, Request("lookup", flag, None, None))
    /\ UNCHANGED <<chosen, shown, behind, ListPanelVars>>

SearchVehicle == screen = "search" /\ Lookup("loading")

VahanTab == screen = "integrations" /\ Lookup("vahanLoading")

SarthiTab == screen = "integrations" /\ Lookup("sarthiLoading")

EgujcopTab == screen = "integrations" /\ Lookup("egujcopLoading")

CorrelateTab == screen = "integrations" /\ Lookup("corrLoading")

\* The result is shown; after a failure the one before is cleared.
LookupAnswered(c) ==
    /\ call[c].op = "lookup"
    /\ Answered(c)
    /\ busy' = Ends(c)
    /\ call' = [call EXCEPT ![c] = NoCall]
    /\ UNCHANGED <<chosen, shown, behind, ListPanelVars>>

-----------------------------------------------------------------------------

ListScreen ==
    \/ AuditHeader \/ AuditFilters \/ ReportsHeader
    \/ RulesHeader \/ AIStatusHeader \/ IntegrationsHeader
    \/ RecentVehicles \/ SearchVehicle
    \/ VahanTab \/ SarthiTab \/ EgujcopTab \/ CorrelateTab

=============================================================================
