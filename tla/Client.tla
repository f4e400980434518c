------------------------------- MODULE Client -------------------------------
(***************************************************************************)
(* The browser client of one operator (frontend/src): signing in, the      *)
(* dashboard that mounts one panel at a time and polls the number of new   *)
(* alerts, the panels with their calls, the pages of the video wall, and   *)
(* the interceptor of services/api.ts, which meets an access token that    *)
(* has expired in the answer to any call.                                  *)
(*                                                                         *)
(* The panels of "map" and "alerts" are in module AlertDesk, the tiles of  *)
(* the wall in VideoTile, the dashboard's WebSocket in AlertPush.          *)
(***************************************************************************)
EXTENDS FormPanels, ListPanels

CONSTANTS
    Online,         \* cameras that are online
    Grids           \* columns to choose from; VideoWall starts with 3

ASSUME ClientAssumption == Online \in Nat /\ Grids \subseteq Nat \ {0} /\ 3 \in Grids

VARIABLES
    session,        \* the access token in the store: "in", "expired", or "none"
    role,           \* user.role in the store
    login,          \* the call of the login page
    cameras,        \* how many of the dashboard's cameras the wall has to show
    wall            \* columns, page and expanded camera of the video wall

sessionVars == <<session, role, login>>
wallVars == <<cameras, wall>>
vars == <<screen, panelVars, sessionVars, wallVars>>

Roles == {"superadmin", "other"}

TypeOK ==
    /\ PanelsTypeOK
    /\ session \in {"in", "expired", "none"}
    /\ role \in Roles
    /\ login \in {"idle", "sent"}
    /\ cameras \in 0..Online
    /\ wall \in [cols : Grids, page : Nat, expanded : 0..Online]

NewWall == [cols |-> 3, page |-> 0, expanded |-> 0]

\* App.tsx: without a token every path leads to the login page.
Init ==
    /\ session = "none"
    /\ role = "other"
    /\ login = "idle"
    /\ screen = "map" /\ chosen = 1 /\ shown = Unloaded /\ busy = {} /\ behind = {}
    /\ form = Blank /\ scan = NoScan /\ reset = NoReset
    /\ call = [c \in Calls |-> NoCall]
    /\ cameras = 0 /\ wall = NewWall

-----------------------------------------------------------------------------
(***************************************************************************)
(* The session.                                                            *)
(***************************************************************************)

\* handleSubmit of the login page, up to its await.
SubmitLogin ==
    /\ session = "none"
    /\ login = "idle"
    /\ login' = "sent"
    /\ UNCHANGED <<screen, panelVars, session, role, wallVars>>

\* After it: setAuth, and the page is loaded again, which mounts the dashboard
\* and sends its first calls; or an error is shown.
LoginAnswered ==
    /\ login = "sent"
    /\ login' = "idle"
    /\ \/ /\ session' = "in"
          /\ role' \in Roles
       \/ UNCHANGED <<session, role>>
    /\ UNCHANGED <<screen, panelVars, wallVars>>

\* logout of the store: the dashboard goes, with all that was in flight.
SignOut ==
    /\ session' = "none"
    /\ screen' = "map" /\ FreshPanel /\ busy' = {} /\ behind' = {}
    /\ call' = [c \in Calls |-> NoCall]
    /\ cameras' = 0 /\ wall' = NewWall
    /\ UNCHANGED <<role, login>>

Logout == session # "none" /\ ~Covered /\ SignOut

\* JWT_ACCESS_EXPIRY_MINUTES have passed.
Expires ==
    /\ session = "in"
    /\ session' = "expired"
    /\ UNCHANGED <<screen, panelVars, role, login, wallVars>>

\* create_refresh_token's payload has a type and no role; decode_token fills in
\* "viewer", and refresh wants the role "refresh".
RefreshToken == [type |-> "refresh"]
DecodedRole(token) == IF "role" \in DOMAIN token THEN token.role ELSE "viewer"
Refreshed == DecodedRole(RefreshToken) = "refresh"

\* The interceptor sees the 401 of every call that went through axios, which the
\* panel of the AI status does not use.
Intercepted(c) == call[c].from # "ai-status"

\* What the interceptor does with a 401, its refresh included: it sends the call
\* again with the new token, or signs out and loads the login page.
Intercept ==
    IF Refreshed
    THEN session' = "in" /\ UNCHANGED <<screen, panelVars, role, login, wallVars>>
    ELSE SignOut

\* A call meets the expired token.
Refuse(c) ==
    /\ session = "expired"
    /\ call[c].op # "none"
    /\ call[c].phase \in {"sent", "left"}
    /\ \/ Intercepted(c) /\ Intercept
       \/ /\ ~Intercepted(c)
          /\ call' = [call EXCEPT ![c].phase = "failed"]
          /\ UNCHANGED <<screen, chosen, shown, busy, form, scan, reset, behind, sessionVars, wallVars>>

-----------------------------------------------------------------------------
(***************************************************************************)
(* The dashboard.                                                          *)
(***************************************************************************)

\* Mutant of PollDue: the interval belongs to the map.
PollDueOnMap == screen = "map"

\* The dashboard's interval runs whatever the screen.
PollDue == TRUE

\* loadAlertCount meets the expired token; what it finds otherwise is AlertDesk's.
PollRefused ==
    /\ session = "expired"
    /\ PollDue
    /\ Intercept

\* canSeeItem: the user that login answers with (UserResponse) has no features, so
\* that only the items that need none are there for anyone but a superadmin.
CanSee(s) == role = "superadmin" \/ s \in {"map", "video", "search", "alerts"}

\* onSelect of the sidebar.  The wall may find the answer of loadCameras, which
\* the dashboard sends once, or wait for it.
Navigate(s) ==
    /\ session # "none"
    /\ ~Covered
    /\ s # screen
    /\ CanSee(s)
    /\ Mount(s)
    /\ wall' = NewWall
    /\ cameras' \in IF s = "video" THEN {0, Online} ELSE {0}
    /\ UNCHANGED sessionVars

\* Enter in the quick search field; the query is not passed on.
QuickSearch == Navigate("search")

-----------------------------------------------------------------------------
(***************************************************************************)
(* The video wall.                                                         *)
(***************************************************************************)

PerPage == wall.cols * wall.cols
TotalPages == (cameras + PerPage - 1) \div PerPage
PageCameras == {i \in 1..cameras : wall.page * PerPage < i /\ i <= (wall.page + 1) * PerPage}

OnWall ==
    /\ session # "none"
    /\ screen = "video"
    /\ UNCHANGED <<screen, panelVars, sessionVars>>

CamerasLoaded ==
    /\ OnWall
    /\ session = "in"
    /\ cameras # Online
    /\ cameras' = Online
    /\ UNCHANGED wall

\* Mutant of Regrid: the page stays.
RegridKeepsPage(cols) == [wall EXCEPT !.cols = cols]

\* changeGrid.
Regrid(cols) == [wall EXCEPT !.cols = cols, !.page = 0]

ChangeGrid ==
    /\ OnWall
    /\ wall.expanded = 0
    /\ UNCHANGED cameras
    /\ \E cols \in Grids \ {wall.cols} : wall' = Regrid(cols)

\* The pagination bar: previous, a page's number, next.
TurnPage ==
    /\ OnWall
    /\ wall.expanded = 0
    /\ UNCHANGED cameras
    /\ TotalPages > 1
    /\ \E page \in 0..(TotalPages - 1) : wall' = [wall EXCEPT !.page = page]

\* A tile of the page fills it.
ExpandTile ==
    /\ OnWall
    /\ wall.expanded = 0
    /\ UNCHANGED cameras
    /\ \E i \in PageCameras : wall' = [wall EXCEPT !.expanded = i]

BackToWall ==
    /\ OnWall
    /\ wall.expanded # 0
    /\ UNCHANGED cameras
    /\ wall' = [wall EXCEPT !.expanded = 0]

-----------------------------------------------------------------------------

\* What the panel does, the service for it, and the answers.
PanelStep ==
    /\ session # "none"
    /\ \/ FormScreen
       \/ ListScreen
       \/ \E c \in Calls :
             \/ session = "in" /\ (ServeRead(c) \/ ServeWrite(c) \/ ServeLeft(c))
             \/ AnswerLoad(c) \/ AnswerRefused(c) \/ FormAnswer(c) \/ LookupAnswered(c)
    /\ UNCHANGED <<sessionVars, wallVars>>

Next ==
    \/ SubmitLogin \/ LoginAnswered \/ Logout \/ Expires
    \/ PollRefused \/ CamerasLoaded
    \/ \E s \in Screens : Navigate(s)
    \/ QuickSearch
    \/ ChangeGrid \/ TurnPage \/ ExpandTile \/ BackToWall
    \/ PanelStep
    \/ \E c \in Calls : Refuse(c)

\* The interval fires again and again, and not all its polls fail without an answer.
Fairness == WF_vars(PollRefused)

Spec == Init /\ [][Next]_vars /\ Fairness

-----------------------------------------------------------------------------

\* The flags that a button waits for, whose calls are sent by that button only.
GatedFlags == Flags \ (IF screen \in {"admin", "reports", "users", "alert-rules"} THEN {"loading"} ELSE {})

CallsOf(flag) == {c \in Calls : call[c].op # "none" /\ call[c].flag = flag}

\* No button stays disabled: a flag that is set has a call in flight whose end will
\* reset it, on whatever path that ends.  And no gated call is in flight twice.
SpinnersEnd ==
    /\ \A flag \in busy : CallsOf(flag) # {}
    /\ \A flag \in GatedFlags : /\ Cardinality(CallsOf(flag)) <= 1
                                /\ CallsOf(flag) # {} => flag \in busy

\* A form that is open holds the values of the record it will be saved to, and a
\* save in flight carries them, whatever was opened, cancelled and saved before;
\* the devices that would be onboarded are among those found by the scan shown.
FormsMatch ==
    /\ form.open => form.of = form.id
    /\ \A c \in InFlight("save") : call[c].of = call[c].id
    /\ scan.selected \subseteq scan.devices

\* The modal shows a password of the user it was opened for, unless it was opened
\* for this one while another's was on its way.
PasswordIsHis ==
    reset.of # None /\ reset.password # None => reset.password = reset.of \/ reset.crossed

\* The panels whose loads all wait for one flag.
Serial == {"search", "ai-status", "integrations"}

\* When nothing is in flight and every answer that the list wanted has come, it is
\* that of the filter chosen last and has all that the operator changed.  The
\* exception is a panel whose loads do not wait for each other, after an older
\* load's answer, of another filter or read before a write, came after the newest's.
ListIsCurrent ==
    (\A c \in Calls : call[c].op = "none") /\ "unanswered" \notin behind /\ MountLoads(screen) > 0
        => \/ shown = [of |-> chosen, fresh |-> TRUE]
           \/ "overtaken" \in behind /\ screen \notin Serial

\* The page of the wall is never one without cameras while there are some.
WallShowsCameras == cameras > 0 => PageCameras # {}

\* An expired token does not go unnoticed, on whatever screen the operator rests.
ExpiredIsNoticed == session = "expired" ~> session # "expired"

\* docs/SECURITY.md:72: "When access_token expires, client uses refresh_token to
\* get new one": only the operator ends the session.
SessionIsRefreshed == [][session # "none" /\ session' = "none" => Logout]_vars

=============================================================================
