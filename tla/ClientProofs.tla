---------------------------- MODULE ClientProofs ----------------------------
(***************************************************************************)
(* What Client promises for every number of records, devices, filters,     *)
(* calls in flight, cameras and grids.                                     *)
(*                                                                         *)
(* The wall: a page can be turned to only when it starts before the last   *)
(* camera, and a change of the grid goes back to the first page.           *)
(*                                                                         *)
(* The panels: every step either keeps the flags and kinds of all calls    *)
(* (Kept), or moves one slot to another flag and the set of busy flags     *)
(* with it (Moves), or mounts a panel.  Once the operators of module       *)
(* Panels are classified so, the actions of all panels follow, and with    *)
(* them that no more than one scan is in flight, which the panel of        *)
(* CameraManagement.tsx depends on.                                        *)
(*                                                                         *)
(* The list and the password: most steps bring neither (Quiet).  As long as*)
(* it is not known to be behind, the list is current, or the newest load or*)
(* a write that took effect will still make it so (NewsInv); where a load  *)
(* waits for the one before, none is overtaken (SerialInv); and the newest *)
(* reset in flight is that of the modal's user (PasswordInv).              *)
(***************************************************************************)
EXTENDS Client, FiniteSetTheorems, TLAPS

-----------------------------------------------------------------------------
(***************************************************************************)
(* The video wall.                                                         *)
(***************************************************************************)

\* Every page that can be turned to starts before the last camera.
LEMMA PageStarts ==
    ASSUME NEW n \in Nat, NEW d \in Nat \ {0}, NEW page \in Nat, page <= (n + d - 1) \div d - 1
    PROVE  page * d < n
<1> DEFINE q == (n + d - 1) \div d
<1>1. q \in Int /\ d * q <= n + d - 1
  OBVIOUS
<1>2. page + 1 <= q
  BY <1>1
<1> HIDE DEF q
<1>3. \A a, b \in Int : a <= b => d * a <= d * b
  OBVIOUS
<1>4. d * (page + 1) <= d * q
  BY <1>1, <1>2, <1>3
<1>5. d * (page + 1) = page * d + d
  OBVIOUS
<1>6. d * q \in Int /\ page * d \in Int
  BY <1>1
<1> QED
  BY <1>1, <1>4, <1>5, <1>6

\* The inductive invariant of the wall.
WallInv ==
    /\ cameras \in {0, Online}
    /\ wall \in [cols : Grids, page : Nat, expanded : 0..Online]
    /\ wall.page = 0 \/ wall.page * PerPage < cameras

\* Columns are positive, and so is their square.
LEMMA PerPagePositive == wall.cols \in Grids => PerPage \in Nat \ {0}
<1> SUFFICES ASSUME wall.cols \in Grids  PROVE PerPage \in Nat \ {0}
  OBVIOUS
<1>1. wall.cols \in Nat \ {0}
  BY ClientAssumption
<1>2. \A n \in Nat \ {0} : n * n \in Nat \ {0}
  OBVIOUS
<1> QED
  BY <1>1, <1>2 DEF PerPage

\* A page with its first camera is not empty.
LEMMA FirstOfPage == WallInv => WallShowsCameras
<1> SUFFICES ASSUME WallInv, cameras > 0  PROVE PageCameras # {}
  BY DEF WallShowsCameras
<1> DEFINE start == wall.page * PerPage
<1>1. /\ cameras \in Nat \ {0} /\ wall.page \in Nat /\ PerPage \in Nat \ {0}
  BY PerPagePositive, ClientAssumption DEF WallInv
<1>2. start \in Nat /\ (wall.page + 1) * PerPage = start + PerPage /\ start < cameras
  <2>1. \A p \in Nat, d \in Nat : p * d \in Nat /\ (p + 1) * d = p * d + d /\ 0 * d = 0
    OBVIOUS
  <2> QED
    BY <1>1, <2>1 DEF WallInv
<1> HIDE DEF start
<1>3. /\ start + 1 \in 1..cameras
      /\ start < start + 1
      /\ start + 1 <= start + PerPage
  BY <1>1, <1>2
<1> QED
  BY <1>2, <1>3 DEF PageCameras, start

\* Every step keeps it; few touch the wall.
LEMMA WallStep == WallInv /\ [Next]_vars => WallInv'
<1> SUFFICES ASSUME WallInv, [Next]_vars  PROVE WallInv'
  OBVIOUS
<1> USE DEF WallInv
<1>0. 3 \in Grids /\ Online \in Nat /\ 0 \in 0..Online
  BY ClientAssumption
<1>1. CASE UNCHANGED <<cameras, wall>>
  BY <1>1 DEF PerPage
<1>2. CASE wall' = NewWall /\ cameras' \in {0, Online}
  BY <1>0, <1>2 DEF NewWall
<1>3. CASE CamerasLoaded
  <2>1. cameras' = Online /\ wall' = wall /\ cameras = 0
    BY <1>3 DEF CamerasLoaded
  <2>2. PerPage \in Nat \ {0} /\ wall.page \in Nat
    BY PerPagePositive
  <2>3. \A p \in Nat, d \in Nat : ~(p * d < 0)
    OBVIOUS
  <2>4. wall.page = 0
    BY <2>1, <2>2, <2>3
  <2> QED
    BY <2>1, <2>4
<1>4. CASE ChangeGrid
  <2>1. PICK cols \in Grids : wall' = [wall EXCEPT !.cols = cols, !.page = 0]
    BY <1>4 DEF ChangeGrid, Regrid
  <2>2. wall' \in [cols : Grids, page : Nat, expanded : 0..Online] /\ wall'.page = 0
    BY <2>1
  <2> QED
    BY <1>4, <2>2 DEF ChangeGrid
<1>5. CASE TurnPage
  <2>1. PICK page \in 0..(TotalPages - 1) : wall' = [wall EXCEPT !.page = page]
    BY <1>5 DEF TurnPage
  <2>2. cameras' = cameras /\ cameras \in Nat /\ PerPage \in Nat \ {0}
    BY <1>0, <1>5, PerPagePositive DEF TurnPage
  <2>3. TotalPages \in Int
    BY <2>2 DEF TotalPages
  <2>4. page \in Nat /\ page <= TotalPages - 1
    BY <2>3
  <2>5. page * PerPage < cameras
    BY <2>2, <2>4, PageStarts DEF TotalPages
  <2>6. /\ wall' \in [cols : Grids, page : Nat, expanded : 0..Online]
        /\ wall'.page = page /\ wall'.cols = wall.cols
    BY <2>1, <2>4
  <2>7. PerPage' = PerPage
    BY <2>6 DEF PerPage
  <2> QED
    BY <2>2, <2>5, <2>6, <2>7
<1>6. CASE ExpandTile
  <2>1. PICK i \in PageCameras : wall' = [wall EXCEPT !.expanded = i]
    BY <1>6 DEF ExpandTile
  <2>2. i \in 0..Online
    BY <1>0 DEF PageCameras
  <2> QED
    BY <1>6, <2>1, <2>2 DEF ExpandTile, PerPage
<1>7. CASE BackToWall
  BY <1>0, <1>7 DEF BackToWall, PerPage
<1>8. ASSUME NEW s \in Screens, Navigate(s)  PROVE WallInv'
  BY <1>2, <1>8 DEF Navigate
<1>9. CASE SignOut
  BY <1>2, <1>9 DEF SignOut
<1>10. CASE Intercept
  BY <1>1, <1>9, <1>10 DEF Intercept, wallVars
<1>11. ASSUME NEW c \in Calls, Refuse(c)  PROVE WallInv'
  BY <1>1, <1>10, <1>11 DEF Refuse, wallVars
<1>12. CASE SubmitLogin \/ LoginAnswered \/ Expires \/ PanelStep \/ UNCHANGED vars
  BY <1>1, <1>12 DEF SubmitLogin, LoginAnswered, Expires, PanelStep, vars, wallVars
<1>13. CASE Logout \/ PollRefused
  BY <1>9, <1>10, <1>13 DEF Logout, PollRefused
<1>14. CASE QuickSearch
  BY <1>8, <1>14 DEF QuickSearch, Screens
<1> QED
  BY <1>3, <1>4, <1>5, <1>6, <1>7, <1>8, <1>11, <1>12, <1>13, <1>14 DEF Next

LEMMA WallInvariance == Spec => []WallInv
<1>1. Init => WallInv
  BY ClientAssumption DEF Init, WallInv, NewWall
<1> QED
  BY <1>1, WallStep, PTL DEF Spec

\* The video wall never shows an empty page while there are cameras.
THEOREM WallIsNotEmpty == Spec => []WallShowsCameras
BY WallInvariance, FirstOfPage, PTL

-----------------------------------------------------------------------------
(***************************************************************************)
(* Calls, flags, forms and scans.                                          *)
(***************************************************************************)

\* What each call is like: which kinds have no flag, what a save and a load carry.
WellFormed(r) ==
    /\ r.op \in {"none", "delete", "create", "reset"} \/ r.phase = "left" => r.flag = NoFlag
    /\ r.op = "scan" <=> r.flag = "onvifLoading"
    /\ r.op = "save" => r.of = r.id
    /\ r.op = "load" => r.of \in Choices
    /\ r.phase = "left" => r.op \in Writes

Shapes == {r \in CallSet : WellFormed(r)}

CallsInv ==
    /\ call \in [Calls -> Shapes]
    /\ busy \subseteq Flags
    /\ \A flag \in busy : \E c \in Calls : call[c].flag = flag
    /\ \A c \in Calls : call[c].flag \in GatedFlags =>
          /\ call[c].flag \in busy
          /\ \A d \in Calls : call[d].flag = call[c].flag => d = c

FormInv ==
    /\ form \in [open : BOOLEAN, id : Records \cup {None}, of : Records \cup {None}]
    /\ form.open \/ screen = "alert-rules" => form.of = form.id

\* While a scan is in flight nothing is found or selected.
ScanInv ==
    /\ scan \in [devices : SUBSET Devices, selected : SUBSET Devices]
    /\ scan.selected \subseteq scan.devices
    /\ \A c \in Calls : call[c].op = "scan" => scan = NoScan

ChoiceInv ==
    /\ screen \in Screens
    /\ chosen \in Choices
    /\ reset \in [of : Records \cup {None}, password : Records \cup {None}, crossed : BOOLEAN]

\* The inductive invariant of the panels.
PanelInv == CallsInv /\ FormInv /\ ScanInv /\ ChoiceInv

\* Facts about the constants and about the records of the calls.
LEMMA Constants ==
    /\ NoFlag \notin Flags /\ "onvifLoading" \in Flags
    /\ NoCall \in Shapes /\ NoCall.op = "none" /\ NoCall.flag = NoFlag
    /\ None \in Records \cup {None}
<1>1. NoCall \in CallSet
  BY DEF NoCall, CallSet, Writes, Reads, Screens, Phases, None, NoFlag
<1> QED
  BY <1>1 DEF NoFlag, Flags, NoCall, Shapes, WellFormed

LEMMA Rephased ==
    ASSUME NEW r \in Shapes, NEW p \in Phases \ {"left"}
    PROVE  /\ [r EXCEPT !.phase = p] \in Shapes
           /\ [r EXCEPT !.phase = p].op = r.op
           /\ [r EXCEPT !.phase = p].flag = r.flag
BY DEF Shapes, CallSet, WellFormed

LEMMA Aged ==
    ASSUME NEW r \in Shapes
    PROVE  /\ [r EXCEPT !.newest = FALSE] \in Shapes
           /\ [r EXCEPT !.newest = FALSE].op = r.op
           /\ [r EXCEPT !.newest = FALSE].flag = r.flag
BY DEF Shapes, CallSet, WellFormed

\* What a handler asks for.
Suits(op, flag, id, of) ==
    /\ op \in Writes \cup Reads
    /\ flag \in Flags \cup {NoFlag}
    /\ id \in Records \cup {None}
    /\ of \in Records \cup Choices \cup {None}
    /\ op \in {"delete", "create", "reset"} => flag = NoFlag
    /\ op = "scan" <=> flag = "onvifLoading"
    /\ op = "save" => of = id
    /\ op = "load" => of \in Choices

LEMMA Requested ==
    ASSUME ChoiceInv, NEW op, NEW flag, NEW id, NEW of, Suits(op, flag, id, of)
    PROVE  /\ Request(op, flag, id, of) \in Shapes
           /\ Request(op, flag, id, of).op = op
           /\ Request(op, flag, id, of).flag = flag
<1> DEFINE r == Request(op, flag, id, of)
<1>1. /\ r.op = op /\ r.flag = flag /\ r.id = id /\ r.of = of /\ r.phase = "sent"
  BY DEF Request
<1>2. r \in CallSet
  BY DEF Request, CallSet, ChoiceInv, Phases, Suits
<1>3. op # "none"
  BY DEF Writes, Reads, Suits
<1>4. WellFormed(r)
  <2> HIDE DEF r
  <2> QED
    BY <1>1, <1>3 DEF WellFormed, Suits
<1> QED
  BY <1>1, <1>2, <1>4 DEF Shapes

\* The flags and kinds of the calls stay, or one slot's change.
Kept ==
    /\ call' \in [Calls -> Shapes]
    /\ \A c \in Calls : call'[c].op = call[c].op /\ call'[c].flag = call[c].flag
    /\ UNCHANGED <<busy, screen>>

\* f is the flag of the call that takes the slot, or NoFlag.
Moves(c, f) ==
    /\ call' \in [Calls -> Shapes]
    /\ call'[c].flag = f
    /\ \A d \in Calls \ {c} : call'[d].op = call[d].op /\ call'[d].flag = call[d].flag
    /\ busy' = (busy \ {call[c].flag}) \cup ({f} \ {NoFlag})
    /\ f \in GatedFlags => f \notin busy
    /\ UNCHANGED screen

\* What the two kinds of step do to the invariant's parts.
LEMMA GatedAreFlags == GatedFlags \subseteq Flags
BY DEF GatedFlags

LEMMA SameGates == UNCHANGED screen => GatedFlags' = GatedFlags
BY DEF GatedFlags

LEMMA KeptCalls == CallsInv /\ Kept => CallsInv'
<1> SUFFICES ASSUME CallsInv, Kept  PROVE CallsInv'
  OBVIOUS
<1>1. GatedFlags' = GatedFlags
  BY SameGates DEF Kept
<1> QED
  BY <1>1 DEF CallsInv, Kept

LEMMA MovedCalls ==
    ASSUME CallsInv, NEW c \in Calls, NEW f \in Flags \cup {NoFlag}, Moves(c, f)
    PROVE  CallsInv'
<1> USE DEF CallsInv, Moves
<1>1. GatedFlags' = GatedFlags /\ NoFlag \notin GatedFlags /\ NoFlag \notin busy
  BY SameGates, GatedAreFlags, Constants
<1>2. busy' \subseteq Flags
  OBVIOUS
<1>3. ASSUME NEW flag \in busy'  PROVE \E d \in Calls : call'[d].flag = flag
  <2>1. CASE flag = f
    BY <2>1
  <2>2. CASE flag # f
    <3>1. flag \in busy /\ flag # call[c].flag
      BY <2>2
    <3>2. PICK d \in Calls : call[d].flag = flag
      BY <3>1
    <3> QED
      BY <3>1, <3>2
  <2> QED
    BY <2>1, <2>2
<1>4. ASSUME NEW d \in Calls, call'[d].flag \in GatedFlags
      PROVE  call'[d].flag \in busy' /\ \A e \in Calls : call'[e].flag = call'[d].flag => e = d
  <2>1. CASE d = c
    <3>1. f \in GatedFlags /\ f # NoFlag /\ f \notin busy
      BY <1>1, <1>4, <2>1
    <3>2. \A e \in Calls \ {c} : call'[e].flag # f
      BY <3>1
    <3> QED
      BY <2>1, <3>1, <3>2
  <2>2. CASE d # c
    <3>1. /\ call'[d].flag = call[d].flag /\ call[d].flag \in GatedFlags
          /\ call[d].flag \in busy /\ \A e \in Calls : call[e].flag = call[d].flag => e = d
      BY <1>4, <2>2
    <3>2. call[d].flag # call[c].flag
      BY <2>2, <3>1
    <3>3. f # call[d].flag
      BY <3>1
    <3> QED
      BY <2>2, <3>1, <3>2, <3>3
  <2> QED
    BY <2>1, <2>2
<1> QED
  BY <1>1, <1>2, <1>3, <1>4

\* A step of one slot, which starts no scan, keeps the invariant of the scan.
LEMMA MovedScan ==
    ASSUME CallsInv, ScanInv, NEW c \in Calls, NEW f, f # "onvifLoading", Moves(c, f),
           scan' = scan \/ scan' = NoScan
    PROVE  ScanInv'
<1>1. ASSUME NEW d \in Calls, call'[d].op = "scan"  PROVE call[d].op = "scan"
  <2>1. call'[d].flag = "onvifLoading"
    BY <1>1 DEF Moves, Shapes, WellFormed
  <2>2. d # c
    BY <2>1 DEF Moves
  <2> QED
    BY <1>1, <2>2 DEF Moves
<1> QED
  BY <1>1 DEF ScanInv, NoScan

LEMMA KeptScan ==
    ASSUME ScanInv, Kept, scan' = scan
    PROVE  ScanInv'
BY DEF ScanInv, Kept

\* What is needed of a step that neither finds devices nor mounts a panel.
LEMMA Ordinary ==
    ASSUME PanelInv, FormInv', ChoiceInv',
           \/ Kept /\ scan' = scan
           \/ /\ \E c \in Calls : \E f \in Flags \cup {NoFlag} : f # "onvifLoading" /\ Moves(c, f)
              /\ scan' = scan \/ scan' = NoScan
    PROVE  PanelInv'
BY KeptCalls, KeptScan, MovedCalls, MovedScan DEF PanelInv

\* What the operators of Panels do to the calls.
LEMMA IdleIsPlain == CallsInv => \A c \in Calls : call[c].op = "none" => call[c].flag = NoFlag
BY DEF CallsInv, Shapes, WellFormed

LEMMA Pressed ==
    ASSUME CallsInv, NEW flag \in Flags, NEW r \in Shapes, r.flag = flag, Press(flag, r), UNCHANGED screen
    PROVE  \E c \in Calls : Moves(c, flag)
<1>1. PICK c \in Calls : FirstIdle(c) /\ call' = [call EXCEPT ![c] = r]
  BY DEF Press, Ask
<1>2. call[c].flag = NoFlag
  BY <1>1, IdleIsPlain DEF FirstIdle, Idle, InFlight
<1>3. busy' = busy \cup {flag} /\ flag \notin busy /\ NoFlag \notin busy /\ flag # NoFlag
  BY Constants DEF Press, CallsInv
<1>4. call' \in [Calls -> Shapes] /\ call'[c] = r /\ \A d \in Calls \ {c} : call'[d] = call[d]
  BY <1>1 DEF CallsInv
<1> QED
  BY <1>2, <1>3, <1>4 DEF Moves

LEMMA Asked ==
    ASSUME CallsInv, NEW r \in Shapes, r.flag = NoFlag, Ask(r), UNCHANGED <<busy, screen>>
    PROVE  \E c \in Calls : Moves(c, NoFlag)
<1>1. PICK c \in Calls : FirstIdle(c) /\ call' = [call EXCEPT ![c] = r]
  BY DEF Ask
<1>2. call[c].flag = NoFlag
  BY <1>1, IdleIsPlain DEF FirstIdle, Idle, InFlight
<1>3. NoFlag \notin busy /\ NoFlag \notin GatedFlags
  BY Constants, GatedAreFlags DEF CallsInv
<1>4. call' \in [Calls -> Shapes] /\ call'[c] = r /\ \A d \in Calls \ {c} : call'[d] = call[d]
  BY <1>1 DEF CallsInv
<1> QED
  BY <1>2, <1>3, <1>4 DEF Moves

LEMMA LoadMoves ==
    ASSUME CallsInv, ChoiceInv, NEW c \in Calls, NEW flag \in Flags \cup {NoFlag}, flag # "onvifLoading",
           NEW of \in Choices, LoadIn(c, flag, of),
           busy' = (busy \ {call[c].flag}) \cup ({flag} \ {NoFlag}),
           flag \in GatedFlags => flag \notin busy, UNCHANGED screen
    PROVE  Moves(c, flag)
<1> DEFINE r == [LoadRequest(flag) EXCEPT !.of = of]
<1>1. LoadRequest(flag) \in Shapes /\ LoadRequest(flag).op = "load" /\ LoadRequest(flag).flag = flag
  <2>1. Suits("load", flag, None, chosen)
    BY DEF Suits, Reads, ChoiceInv
  <2> QED
    BY <2>1, Requested DEF LoadRequest
<1>2. r \in Shapes /\ r.flag = flag
  <2>1. /\ r \in CallSet /\ r.op = "load" /\ r.flag = flag /\ r.phase = LoadRequest(flag).phase
        /\ r.of = of
    BY <1>1 DEF Shapes, CallSet
  <2> QED
    BY <1>1, <2>1 DEF Shapes, WellFormed
<1>3. /\ Overtaken(call) \in [Calls -> Shapes]
      /\ \A d \in Calls : /\ Overtaken(call)[d].op = call[d].op
                          /\ Overtaken(call)[d].flag = call[d].flag
  BY Aged DEF Overtaken, CallsInv
<1> HIDE DEF r
<1>4. call' = [Overtaken(call) EXCEPT ![c] = r]
  BY DEF LoadIn, r
<1>5. call' \in [Calls -> Shapes] /\ call'[c] = r /\ \A d \in Calls \ {c} : call'[d] = Overtaken(call)[d]
  BY <1>2, <1>3, <1>4
<1> QED
  BY <1>2, <1>3, <1>5 DEF Moves

\* A load in a slot that was idle.
LEMMA LoadStarts ==
    ASSUME CallsInv, ChoiceInv, NEW flag \in Flags, flag # "onvifLoading", NEW of \in Choices,
           \E c \in Calls : FirstIdle(c) /\ LoadIn(c, flag, of),
           busy' = busy \cup {flag},
           flag \in GatedFlags => flag \notin busy, UNCHANGED screen
    PROVE  \E c \in Calls : Moves(c, flag)
<1>1. PICK c \in Calls : FirstIdle(c) /\ LoadIn(c, flag, of)
  OBVIOUS
<1>2. call[c].flag = NoFlag
  BY <1>1, IdleIsPlain DEF FirstIdle, Idle, InFlight
<1>3. busy' = (busy \ {call[c].flag}) \cup ({flag} \ {NoFlag})
  BY <1>2, Constants DEF CallsInv
<1> QED
  BY <1>1, <1>3, LoadMoves

LEMMA Freed ==
    ASSUME CallsInv, NEW c \in Calls, call' = [call EXCEPT ![c] = NoCall],
           busy' = busy \ {call[c].flag}, UNCHANGED screen
    PROVE  Moves(c, NoFlag)
<1>1. call' \in [Calls -> Shapes] /\ call'[c] = NoCall /\ \A d \in Calls \ {c} : call'[d] = call[d]
  BY Constants DEF CallsInv
<1> QED
  BY <1>1, Constants, GatedAreFlags DEF Moves

LEMMA Marked ==
    ASSUME CallsInv, NEW c \in Calls, NEW p \in Phases \ {"left"}, NEW cs \in [Calls -> Shapes],
           \A d \in Calls : cs[d].op = call[d].op /\ cs[d].flag = call[d].flag,
           call' = [cs EXCEPT ![c].phase = p], UNCHANGED <<busy, screen>>
    PROVE  Kept
<1>1. /\ [cs[c] EXCEPT !.phase = p] \in Shapes
      /\ [cs[c] EXCEPT !.phase = p].op = cs[c].op
      /\ [cs[c] EXCEPT !.phase = p].flag = cs[c].flag
  BY Rephased
<1>2. call' \in [Calls -> Shapes]
  BY <1>1
<1>3. \A d \in Calls : call'[d].op = call[d].op /\ call'[d].flag = call[d].flag
  BY <1>1
<1> QED
  BY <1>2, <1>3 DEF Kept

LEMMA OutdatedKeeps ==
    ASSUME CallsInv, NEW c
    PROVE  /\ Outdated(call, c) \in [Calls -> Shapes]
           /\ \A d \in Calls : /\ Outdated(call, c)[d].op = call[d].op
                               /\ Outdated(call, c)[d].flag = call[d].flag
BY Rephased DEF Outdated, CallsInv, Phases

-----------------------------------------------------------------------------

\* The service.
LEMMA ServeKeeps ==
    ASSUME PanelInv, NEW c \in Calls, ServeRead(c) \/ ServeWrite(c) \/ ServeLeft(c)
    PROVE  PanelInv'
<1>1. CallsInv
  BY DEF PanelInv
<1>2. FormInv' /\ ChoiceInv' /\ scan' = scan
  BY DEF PanelInv, FormInv, ChoiceInv, ServeRead, ServeWrite, ServeLeft
<1>3. CASE ServeRead(c)
  <2>1. PICK p \in {"ok", "failed"} : call' = [call EXCEPT ![c].phase = p]
    BY <1>3 DEF ServeRead
  <2>2. Kept
    BY <1>1, <1>3, <2>1, Marked DEF ServeRead, CallsInv, Phases
  <2> QED
    BY <1>2, <2>2, Ordinary
<1>4. CASE ServeWrite(c)
  <2>1. UNCHANGED <<busy, screen>>
    BY <1>4 DEF ServeWrite
  <2>2. CASE \E p \in {"ok", "lost"} : call' = [Outdated(call, c) EXCEPT ![c].phase = p]
    <3>1. PICK p \in {"ok", "lost"} : call' = [Outdated(call, c) EXCEPT ![c].phase = p]
      BY <2>2
    <3>2. Kept
      BY <1>1, <2>1, <3>1, Marked, OutdatedKeeps DEF Phases
    <3> QED
      BY <1>2, <3>2, Ordinary
  <2>3. CASE call' = [call EXCEPT ![c].phase = "failed"]
    <3>1. Kept
      BY <1>1, <2>1, <2>3, Marked DEF CallsInv, Phases
    <3> QED
      BY <1>2, <3>1, Ordinary
  <2> QED
    BY <1>4, <2>2, <2>3 DEF ServeWrite
<1>5. CASE ServeLeft(c)
  <2> DEFINE cs == IF call[c].from = screen THEN Outdated(call, c) ELSE call
  <2>1. /\ cs \in [Calls -> Shapes]
        /\ \A d \in Calls : cs[d].op = call[d].op /\ cs[d].flag = call[d].flag
    BY <1>1, OutdatedKeeps DEF CallsInv
  <2>2. call' = [cs EXCEPT ![c] = NoCall] /\ UNCHANGED <<busy, screen>>
    BY <1>5 DEF ServeLeft
  <2>3. call[c].flag = NoFlag
    BY <1>1, <1>5 DEF ServeLeft, CallsInv, Shapes, WellFormed
  <2> HIDE DEF cs
  <2>4. /\ call' \in [Calls -> Shapes] /\ call'[c] = NoCall
        /\ \A d \in Calls \ {c} : call'[d] = cs[d]
    BY <2>1, <2>2, Constants
  <2>5. Moves(c, NoFlag)
    BY <1>1, <2>1, <2>2, <2>3, <2>4, Constants, GatedAreFlags DEF Moves, CallsInv
  <2>6. NoFlag # "onvifLoading"
    BY DEF NoFlag
  <2> QED
    BY <1>2, <2>5, <2>6, Ordinary
<1> QED
  BY <1>3, <1>4, <1>5

\* Steps that leave the calls alone, that send one and that end one.
LEMMA Stays == CallsInv /\ UNCHANGED <<call, busy, screen>> => Kept
BY DEF CallsInv, Kept

LEMMA Sends ==
    ASSUME PanelInv, NEW op, NEW flag \in Flags, NEW id, NEW of, Suits(op, flag, id, of), op # "scan",
           Press(flag, Request(op, flag, id, of)), UNCHANGED <<screen, chosen, form, scan, reset>>
    PROVE  PanelInv'
<1>1. CallsInv /\ ChoiceInv
  BY DEF PanelInv
<1>2. PICK c \in Calls : Moves(c, flag)
  BY <1>1, Requested, Pressed
<1>3. flag # "onvifLoading"
  BY DEF Suits
<1>4. FormInv' /\ ChoiceInv'
  BY DEF PanelInv, FormInv, ChoiceInv
<1> QED
  BY <1>2, <1>3, <1>4, Ordinary

LEMMA SendsPlain ==
    ASSUME PanelInv, NEW op, NEW id, NEW of, Suits(op, NoFlag, id, of),
           Ask(Request(op, NoFlag, id, of)), UNCHANGED <<busy, screen, chosen, form, scan, reset>>
    PROVE  PanelInv'
<1>1. CallsInv /\ ChoiceInv
  BY DEF PanelInv
<1>2. PICK c \in Calls : Moves(c, NoFlag)
  BY <1>1, Requested, Asked
<1>3. NoFlag # "onvifLoading"
  BY DEF NoFlag
<1>4. FormInv' /\ ChoiceInv'
  BY DEF PanelInv, FormInv, ChoiceInv
<1> QED
  BY <1>2, <1>3, <1>4, Ordinary

LEMMA Ended ==
    ASSUME PanelInv, NEW c \in Calls, call' = [call EXCEPT ![c] = NoCall], busy' = Ends(c),
           FormInv', ChoiceInv', UNCHANGED <<screen, scan>>
    PROVE  PanelInv'
<1>1. Moves(c, NoFlag)
  BY Freed DEF PanelInv, Ends
<1>2. NoFlag # "onvifLoading"
  BY DEF NoFlag
<1> QED
  BY <1>1, <1>2, Ordinary

LEMMA Reloaded ==
    ASSUME PanelInv, NEW c \in Calls, NEW flag \in {NoFlag, "loading"}, Reload(c, flag),
           busy' = Ends(c) \cup ({flag} \ {NoFlag}), flag \notin GatedFlags,
           FormInv', ChoiceInv', UNCHANGED screen, scan' = scan \/ scan' = NoScan
    PROVE  PanelInv'
<1>1. flag \in Flags \cup {NoFlag} /\ flag # "onvifLoading"
  BY DEF Flags, NoFlag
<1>2. CallsInv /\ ChoiceInv /\ chosen \in Choices
  BY DEF PanelInv, ChoiceInv
<1>3. Moves(c, flag)
  BY <1>1, <1>2, LoadMoves DEF Reload, Ends
<1> QED
  BY <1>1, <1>3, Ordinary

LEMMA ListLoads ==
    ASSUME PanelInv, NEW flag \in {"loading", "loadingRecent"}, NEW of \in Choices,
           \E c \in Calls : FirstIdle(c) /\ LoadIn(c, flag, of),
           busy' = busy \cup {flag}, flag \in GatedFlags => flag \notin busy,
           chosen' \in Choices, UNCHANGED <<screen, form, scan, reset>>
    PROVE  PanelInv'
<1>1. flag \in Flags /\ flag # "onvifLoading"
  BY DEF Flags
<1>2. PICK c \in Calls : Moves(c, flag)
  BY <1>1, LoadStarts DEF PanelInv
<1>3. FormInv' /\ ChoiceInv'
  BY DEF PanelInv, FormInv, ChoiceInv
<1> QED
  BY <1>1, <1>2, <1>3, Ordinary

-----------------------------------------------------------------------------

\* The panels that only read.
LEMMA ListKeeps ==
    ASSUME PanelInv, ListScreen
    PROVE  PanelInv'
<1>1. ASSUME NEW flag \in {"loading", "loadingRecent"}, Refresh(flag)  PROVE PanelInv'
  <2>1. chosen \in Choices
    BY DEF PanelInv, ChoiceInv
  <2> QED
    BY <1>1, <2>1, ListLoads DEF Refresh, ListPanelVars
<1>2. ASSUME NEW flag \in Flags, flag # "onvifLoading", Lookup(flag)  PROVE PanelInv'
  <2>1. Suits("lookup", flag, None, None)
    BY <1>2 DEF Suits, Reads
  <2> QED
    BY <1>2, <2>1, Sends DEF Lookup, ListPanelVars
<1>3. ASSUME LoadNow, chosen' \in Choices, screen \in {"admin", "reports"}  PROVE PanelInv'
  <2>1. "loading" \notin GatedFlags
    BY <1>3 DEF GatedFlags
  <2> QED
    BY <1>3, <2>1, ListLoads DEF LoadNow, ListPanelVars
<1>4. CASE AuditHeader \/ RulesHeader \/ AIStatusHeader \/ IntegrationsHeader \/ RecentVehicles
  BY <1>1, <1>4 DEF AuditHeader, RulesHeader, AIStatusHeader, IntegrationsHeader, RecentVehicles
<1>5. CASE AuditFilters
  BY <1>3, <1>5 DEF AuditFilters, SearchActor, SetChoice, FilterLoads, PanelInv, ChoiceInv
<1>6. CASE ReportsHeader
  BY <1>1, <1>3, <1>6 DEF ReportsHeader, SetChoice, FilterLoads
<1>7. CASE SearchVehicle \/ VahanTab \/ SarthiTab \/ EgujcopTab \/ CorrelateTab
  BY <1>2, <1>7 DEF SearchVehicle, VahanTab, SarthiTab, EgujcopTab, CorrelateTab, Flags
<1> QED
  BY <1>4, <1>5, <1>6, <1>7 DEF ListScreen

\* The panels that change records: what they send.
LEMMA FormSends ==
    ASSUME PanelInv,
           \/ BulkUpload \/ OnvifOnboard \/ SubmitEntry
           \/ (SaveUser \/ SubmitCamera) /\ form.open
           \/ Delete \/ CreateRule \/ ResetPassword
    PROVE  PanelInv'
<1>1. None \in Records \cup {None} /\ None \in Records \cup Choices \cup {None}
  OBVIOUS
<1>2. CASE BulkUpload
  <2>1. Suits("bulk", "bulkLoading", None, None) /\ "bulkLoading" \in Flags
    BY <1>1 DEF Suits, Writes, Flags
  <2> QED
    BY <1>2, <2>1, Sends DEF BulkUpload
<1>3. CASE OnvifOnboard
  <2>1. Suits("onboard", "onvifOnboarding", None, None) /\ "onvifOnboarding" \in Flags
    BY <1>1 DEF Suits, Writes, Flags
  <2> QED
    BY <1>3, <2>1, Sends DEF OnvifOnboard
<1>4. CASE (SaveUser \/ SubmitCamera) /\ form.open
  <2>1. form.of = form.id /\ form.id \in Records \cup {None}
    BY <1>4 DEF PanelInv, FormInv
  <2>2. ASSUME NEW flag \in {"saving", "loading"}
        PROVE  Suits("save", flag, form.id, form.of) /\ flag \in Flags
    BY <2>1 DEF Suits, Writes, Flags
  <2> QED
    BY <1>4, <2>2, Sends DEF SaveUser, SubmitCamera
<1>5. CASE SubmitEntry
  <2>1. Suits("save", "loading", None, None) /\ "loading" \in Flags
    BY <1>1 DEF Suits, Writes, Flags
  <2> QED
    BY <1>5, <2>1, Sends DEF SubmitEntry
<1>6. CASE Delete
  <2>1. Suits("delete", NoFlag, None, None)
    BY <1>1 DEF Suits, Writes, NoFlag
  <2> QED
    BY <1>6, <2>1, SendsPlain DEF Delete
<1>7. CASE CreateRule
  <2>1. Suits("create", NoFlag, None, None)
    BY <1>1 DEF Suits, Writes, NoFlag
  <2> QED
    BY <1>7, <2>1, SendsPlain DEF CreateRule
<1>8. CASE ResetPassword
  <2>1. Suits("reset", NoFlag, reset.of, None)
    BY <1>1 DEF Suits, Reads, NoFlag, PanelInv, ChoiceInv
  <2> QED
    BY <1>8, <2>1, SendsPlain DEF ResetPassword
<1> QED
  BY <1>2, <1>3, <1>4, <1>5, <1>6, <1>7, <1>8

\* What they do with a form.
FormStep ==
    \/ AddCamera \/ OpenCreate \/ HideForm \/ AddEntry
    \/ ToggleRuleForm /\ screen = "alert-rules"
    \/ CancelCamera /\ screen = "cameras"
    \/ \E r \in Records : EditCamera(r) \/ OpenEdit(r)

LEMMA FormChanges ==
    ASSUME PanelInv, FormStep
    PROVE  PanelInv'
<1>1. /\ UNCHANGED <<screen, chosen, busy, scan, reset, call>>
  BY DEF FormStep, AddCamera, OpenCreate, HideForm, AddEntry, ToggleRuleForm, CancelCamera, EditCamera, OpenEdit
<1>2. Kept
  BY <1>1, Stays DEF PanelInv
<1>3. ChoiceInv'
  BY <1>1 DEF PanelInv, ChoiceInv
<1>4. /\ form \in [open : BOOLEAN, id : Records \cup {None}, of : Records \cup {None}]
      /\ form.open \/ screen = "alert-rules" => form.of = form.id
  BY DEF PanelInv, FormInv
<1>5. CASE \/ form' = [Blank EXCEPT !.open = TRUE]
           \/ \E r \in Records : form' = [open |-> TRUE, id |-> r, of |-> r]
  <2>1. /\ form' \in [open : BOOLEAN, id : Records \cup {None}, of : Records \cup {None}]
        /\ form'.of = form'.id
    <3>1. CASE form' = [Blank EXCEPT !.open = TRUE]
      BY <3>1 DEF Blank
    <3>2. CASE \E r \in Records : form' = [open |-> TRUE, id |-> r, of |-> r]
      BY <3>2
    <3> QED
      BY <1>5, <3>1, <3>2
  <2> QED
    BY <1>1, <1>2, <1>3, <2>1, Ordinary DEF FormInv
<1>6. CASE HideForm
  <2>1. /\ form' \in [open : BOOLEAN, id : Records \cup {None}, of : Records \cup {None}]
        /\ form'.open = FALSE /\ form'.of = form.of /\ form'.id = form.id
    BY <1>4, <1>6 DEF HideForm
  <2> QED
    BY <1>1, <1>2, <1>3, <1>4, <2>1, Ordinary DEF FormInv
<1>7. CASE ToggleRuleForm /\ screen = "alert-rules"
  <2>1. /\ form' \in [open : BOOLEAN, id : Records \cup {None}, of : Records \cup {None}]
        /\ form'.of = form.of /\ form'.id = form.id
    BY <1>4, <1>7 DEF ToggleRuleForm
  <2> QED
    BY <1>1, <1>2, <1>3, <1>4, <1>7, <2>1, Ordinary DEF FormInv
<1>8. CASE CancelCamera /\ screen = "cameras"
  <2>1. /\ form' \in [open : BOOLEAN, id : Records \cup {None}, of : Records \cup {None}]
        /\ form'.open = FALSE
    BY <1>4, <1>8 DEF CancelCamera
  <2> QED
    BY <1>1, <1>2, <1>3, <1>8, <2>1, Ordinary DEF FormInv
<1> QED
  BY <1>5, <1>6, <1>7, <1>8 DEF FormStep, AddCamera, OpenCreate, AddEntry, EditCamera, OpenEdit

\* The scan: at most one is in flight, and nothing is shown meanwhile.
LEMMA ScanKeeps ==
    ASSUME PanelInv, OnvifScan \/ ToggleDevice \/ SelectAll
    PROVE  PanelInv'
<1>1. UNCHANGED <<screen, chosen, form, reset>>
  BY DEF OnvifScan, ToggleDevice, SelectAll
<1>2. FormInv' /\ ChoiceInv'
  BY <1>1 DEF PanelInv, FormInv, ChoiceInv
<1>3. CASE OnvifScan
  <2>1. Suits("scan", "onvifLoading", None, None)
    BY DEF Suits, Reads, Flags
  <2>2. PICK c \in Calls : Moves(c, "onvifLoading")
    BY <1>1, <1>3, <2>1, Requested, Pressed, Constants DEF OnvifScan, PanelInv
  <2>3. CallsInv'
    BY <2>2, MovedCalls, Constants DEF PanelInv
  <2>4. ScanInv'
    BY <1>3 DEF OnvifScan, ScanCleared, ScanInv, NoScan
  <2> QED
    BY <1>2, <2>3, <2>4 DEF PanelInv
<1>4. CASE ToggleDevice \/ SelectAll
  <2>1. UNCHANGED <<call, busy>> /\ scan.devices # {}
    BY <1>4 DEF ToggleDevice, SelectAll
  <2>2. /\ scan' \in [devices : SUBSET Devices, selected : SUBSET Devices]
        /\ scan'.selected \subseteq scan'.devices
    <3>1. /\ scan \in [devices : SUBSET Devices, selected : SUBSET Devices]
          /\ scan.selected \subseteq scan.devices
      BY DEF PanelInv, ScanInv
    <3>2. CASE ToggleDevice
      <4>1. PICK d \in scan.devices :
              scan' = [scan EXCEPT !.selected = IF d \in @ THEN @ \ {d} ELSE @ \cup {d}]
        BY <3>2 DEF ToggleDevice
      <4> QED
        BY <3>1, <4>1
    <3>3. CASE SelectAll
      BY <3>1, <3>3 DEF SelectAll
    <3> QED
      BY <1>4, <3>2, <3>3
  <2>3. \A c \in Calls : call[c].op # "scan"
    BY <2>1 DEF PanelInv, ScanInv, NoScan
  <2>4. ScanInv'
    BY <2>1, <2>2, <2>3 DEF ScanInv
  <2>5. CallsInv'
    BY <1>1, <2>1, Stays, KeptCalls DEF PanelInv
  <2> QED
    BY <1>2, <2>4, <2>5 DEF PanelInv
<1> QED
  BY <1>3, <1>4

\* The only scan in flight is answered.
LEMMA ScanEnds ==
    ASSUME PanelInv, NEW c \in Calls, ScanAnswered(c)
    PROVE  PanelInv'
<1>1. call[c].op = "scan" /\ call[c].flag = "onvifLoading"
  BY DEF ScanAnswered, PanelInv, CallsInv, Shapes, WellFormed
<1>2. UNCHANGED <<screen, chosen, form, reset>> /\ call' = [call EXCEPT ![c] = NoCall] /\ busy' = Ends(c)
  BY DEF ScanAnswered
<1>3. FormInv' /\ ChoiceInv'
  BY <1>2 DEF PanelInv, FormInv, ChoiceInv
<1>4. Moves(c, NoFlag)
  BY <1>2, Freed DEF PanelInv, Ends
<1>5. CallsInv'
  BY <1>4, MovedCalls DEF PanelInv
<1>6. \A d \in Calls : call'[d].op # "scan"
  <2>1. \A d \in Calls \ {c} : call[d].op # "scan"
    <3>1. "onvifLoading" \in GatedFlags
      BY DEF GatedFlags, Flags
    <3> QED
      BY <1>1, <3>1 DEF PanelInv, CallsInv, Shapes, WellFormed
  <2>2. call'[c].op # "scan"
    BY <1>2, Constants DEF PanelInv, CallsInv
  <2> QED
    BY <1>4, <2>1, <2>2 DEF Moves
<1>7. ScanInv'
  <2>1. scan = NoScan
    BY <1>1 DEF PanelInv, ScanInv
  <2>2. scan' = scan \/ \E found \in SUBSET Devices : scan' = [scan EXCEPT !.devices = found]
    BY DEF ScanAnswered
  <2> QED
    BY <1>6, <2>1, <2>2 DEF ScanInv, NoScan
<1> QED
  BY <1>3, <1>5, <1>7 DEF PanelInv

\* The users' list is loaded again; the modal changes.
LEMMA UserChanges ==
    ASSUME PanelInv,
           \/ RefreshUsers /\ screen = "users"
           \/ CloseReset
           \/ \E u \in Records : OpenReset(u)
    PROVE  PanelInv'
<1>1. CASE RefreshUsers /\ screen = "users"
  <2>1. "loading" \notin GatedFlags /\ chosen \in Choices
    BY <1>1 DEF GatedFlags, PanelInv, ChoiceInv
  <2> QED
    BY <1>1, <2>1, ListLoads DEF RefreshUsers
<1>2. CASE CloseReset
  <2>1. UNCHANGED <<screen, chosen, busy, form, scan, call>> /\ reset' = [reset EXCEPT !.of = None]
    BY <1>2 DEF CloseReset
  <2>2. reset' \in [of : Records \cup {None}, password : Records \cup {None}, crossed : BOOLEAN]
    BY <2>1 DEF PanelInv, ChoiceInv
  <2>3. FormInv' /\ ChoiceInv'
    BY <2>1, <2>2 DEF PanelInv, FormInv, ChoiceInv
  <2> QED
    BY <2>1, <2>3, Stays, Ordinary DEF PanelInv
<1>3. ASSUME NEW u \in Records, OpenReset(u)  PROVE PanelInv'
  <2>1. UNCHANGED <<screen, chosen, busy, form, scan>> /\ reset' = [NoReset EXCEPT !.of = u]
    BY <1>3 DEF OpenReset, ModalFor
  <2>2. reset' \in [of : Records \cup {None}, password : Records \cup {None}, crossed : BOOLEAN]
    BY <2>1 DEF NoReset
  <2>3. FormInv' /\ ChoiceInv'
    BY <2>1, <2>2 DEF PanelInv, FormInv, ChoiceInv
  <2>4. Kept
    BY <1>3, <2>1, Aged DEF OpenReset, Kept, PanelInv, CallsInv
  <2> QED
    BY <2>1, <2>3, <2>4, Ordinary
<1> QED
  BY <1>1, <1>2, <1>3

\* The panels that change records.
LEMMA FormKeeps ==
    ASSUME PanelInv, FormScreen
    PROVE  PanelInv'
<1>0. FormStep => PanelInv'
  BY FormChanges
<1>1. CASE CameraBar \/ CameraTable \/ CameraForm
  <2>1. CASE CameraBar
    BY <2>1, <1>0, FormSends DEF CameraBar, FormStep
  <2>2. CASE CameraTable
    <3>1. ASSUME NEW r \in Records, EditCamera(r)  PROVE PanelInv'
      BY <3>1, FormChanges DEF FormStep
    <3> QED
      BY <2>2, <3>1, FormSends DEF CameraTable
  <2>3. CASE CameraForm
    BY <2>3, <1>0, FormSends DEF CameraForm, FormStep
  <2> QED
    BY <1>1, <2>1, <2>2, <2>3
<1>2. CASE OnvifPanel
  BY <1>2, FormSends, ScanKeeps DEF OnvifPanel
<1>3. CASE UserHeader \/ UserTable \/ UserForm \/ ResetModal
  <2>1. CASE UserHeader
    BY <2>1, <1>0, UserChanges DEF UserHeader, FormStep
  <2>2. CASE UserTable
    <3>1. ASSUME NEW u \in Records, OpenEdit(u)  PROVE PanelInv'
      BY <3>1, FormChanges DEF FormStep
    <3>2. ASSUME NEW u \in Records, OpenReset(u)  PROVE PanelInv'
      BY <3>2, UserChanges
    <3> QED
      BY <2>2, <3>1, <3>2, FormSends DEF UserTable
  <2>3. CASE UserForm \/ ResetModal
    BY <2>3, <1>0, FormSends, UserChanges DEF UserForm, ResetModal, FormStep
  <2> QED
    BY <1>3, <2>1, <2>2, <2>3
<1>4. CASE AddEntry \/ EntryForm \/ EntryTable
  BY <1>0, <1>4, FormSends DEF AddEntry, EntryForm, EntryTable, FormStep
<1>5. CASE RulesTab
  BY <1>0, <1>5, FormSends DEF RulesTab, FormStep
<1> QED
  BY <1>1, <1>2, <1>3, <1>4, <1>5 DEF FormScreen

\* The answers.
LEMMA AnswerKeeps ==
    ASSUME PanelInv, NEW c \in Calls, AnswerLoad(c) \/ AnswerRefused(c) \/ LookupAnswered(c)
    PROVE  PanelInv'
<1>1. /\ call' = [call EXCEPT ![c] = NoCall] /\ busy' = Ends(c)
      /\ UNCHANGED <<screen, chosen, form, scan, reset>>
  BY DEF AnswerLoad, AnswerRefused, LookupAnswered, ListPanelVars
<1>2. FormInv' /\ ChoiceInv'
  BY <1>1 DEF PanelInv, FormInv, ChoiceInv
<1> QED
  BY <1>1, <1>2, Ended

\* The ends of the writes, which close a form and load the list.
LEMMA BlankIsPlain ==
    ASSUME FormInv, UNCHANGED screen, form' = Blank \/ form' = form
    PROVE  FormInv'
<1>1. CASE form' = form
  BY <1>1 DEF FormInv
<1>2. CASE form' = Blank
  BY <1>2 DEF FormInv, Blank
<1> QED
  BY <1>1, <1>2

LEMMA PlainGate == NoFlag \notin GatedFlags
BY Constants, GatedAreFlags

LEMMA DoneKeeps ==
    ASSUME PanelInv, NEW c \in Calls, CameraDone(c) \/ UserDone(c) \/ EntryDone(c) \/ RuleDone(c)
    PROVE  PanelInv'
<1>1. /\ call[c].op \in {"delete", "create"} => call[c].flag = NoFlag
      /\ NoFlag \notin busy
  BY Constants DEF PanelInv, CallsInv, Shapes, WellFormed
<1>2. ASSUME UNCHANGED <<screen, chosen, reset>>  PROVE ChoiceInv'
  BY <1>2 DEF PanelInv, ChoiceInv
<1>3. FormInv
  BY DEF PanelInv
<1>4. CASE CameraDone(c)
  <2>1. /\ UNCHANGED <<screen, chosen, reset>> /\ Reload(c, NoFlag) /\ busy' = Ends(c)
        /\ form' = Blank \/ form' = form
        /\ scan' = NoScan \/ scan' = scan
    BY <1>4 DEF CameraDone, CameraSaved, CamerasImported, CamerasOnboarded
  <2>2. FormInv' /\ ChoiceInv'
    BY <1>2, <1>3, <2>1, BlankIsPlain
  <2>3. busy' = Ends(c) \cup ({NoFlag} \ {NoFlag})
    BY <2>1
  <2> QED
    BY <2>1, <2>2, <2>3, PlainGate, Reloaded
<1>5. CASE EntryDone(c)
  <2>1. /\ UNCHANGED <<screen, chosen, reset, scan>> /\ Reload(c, NoFlag) /\ busy' = Ends(c)
        /\ form' = Blank \/ form' = form
    BY <1>5 DEF EntryDone
  <2>2. FormInv' /\ ChoiceInv'
    BY <1>2, <1>3, <2>1, BlankIsPlain
  <2>3. busy' = Ends(c) \cup ({NoFlag} \ {NoFlag})
    BY <2>1
  <2> QED
    BY <2>1, <2>2, <2>3, PlainGate, Reloaded
<1>6. CASE UserDone(c)
  <2>1. /\ UNCHANGED <<screen, chosen, reset, scan>> /\ Reload(c, "loading")
        /\ busy' = Ends(c) \cup {"loading"} /\ screen = "users"
    BY <1>6 DEF UserDone
  <2>2. FormInv'
    <3>1. /\ form \in [open : BOOLEAN, id : Records \cup {None}, of : Records \cup {None}]
          /\ form' = [form EXCEPT !.open = FALSE] \/ form' = [form EXCEPT !.open = @]
      BY <1>3, <1>6 DEF UserDone, FormInv
    <3>2. CASE form' = [form EXCEPT !.open = FALSE]
      <4>1. /\ form' \in [open : BOOLEAN, id : Records \cup {None}, of : Records \cup {None}]
            /\ form'.open = FALSE
        BY <3>1, <3>2
      <4> QED
        BY <2>1, <4>1 DEF FormInv
    <3>3. CASE form' = [form EXCEPT !.open = @]
      <4>1. form' = form
        BY <3>1, <3>3
      <4> QED
        BY <1>3, <2>1, <4>1 DEF FormInv
    <3> QED
      BY <3>1, <3>2, <3>3
  <2>3. "loading" \notin GatedFlags /\ "loading" # NoFlag
    BY <2>1 DEF GatedFlags, NoFlag
  <2>4. busy' = Ends(c) \cup ({"loading"} \ {NoFlag})
    BY <2>1, <2>3
  <2> QED
    BY <1>2, <2>1, <2>2, <2>3, <2>4, Reloaded
<1>7. CASE RuleDone(c)
  <2>1. /\ UNCHANGED <<screen, chosen, reset, scan>> /\ Reload(c, "loading")
        /\ busy' = busy \cup {"loading"} /\ screen = "alert-rules"
        /\ form' = Blank \/ form' = form
        /\ call[c].op \in {"create", "delete"}
    BY <1>7 DEF RuleDone
  <2>2. FormInv' /\ ChoiceInv'
    BY <1>2, <1>3, <2>1, BlankIsPlain
  <2>3. "loading" \notin GatedFlags /\ "loading" # NoFlag
    BY <2>1 DEF GatedFlags, NoFlag
  <2>4. busy' = Ends(c) \cup ({"loading"} \ {NoFlag})
    BY <1>1, <2>1, <2>3 DEF Ends
  <2> QED
    BY <2>1, <2>2, <2>3, <2>4, Reloaded
<1> QED
  BY <1>4, <1>5, <1>6, <1>7

\* A password arrives.
LEMMA ResetKeeps ==
    ASSUME PanelInv, NEW c \in Calls, ResetAnswered(c)
    PROVE  PanelInv'
<1>1. /\ call[c] \in CallSet /\ call[c].flag = NoFlag /\ NoFlag \notin busy
  BY Constants DEF ResetAnswered, PanelInv, CallsInv, Shapes, WellFormed
<1>2. /\ call' = [call EXCEPT ![c] = NoCall] /\ UNCHANGED <<screen, chosen, busy, form, scan>>
  BY DEF ResetAnswered
<1>3. reset' \in [of : Records \cup {None}, password : Records \cup {None}, crossed : BOOLEAN]
  <2>1. call[c].id \in Records \cup {None} /\ (~call[c].newest) \in BOOLEAN
    BY <1>1 DEF CallSet
  <2>2. \/ reset' = reset
        \/ reset' = [reset EXCEPT !.password = call[c].id, !.crossed = ~call[c].newest]
    BY DEF ResetAnswered
  <2> QED
    BY <2>1, <2>2 DEF PanelInv, ChoiceInv
<1>4. FormInv' /\ ChoiceInv'
  BY <1>2, <1>3 DEF PanelInv, FormInv, ChoiceInv
<1>5. busy' = Ends(c)
  BY <1>1, <1>2 DEF Ends
<1> QED
  BY <1>2, <1>4, <1>5, Ended

-----------------------------------------------------------------------------

\* A panel is mounted: what remains of the last one's calls has no flag.
LEMMA LeftIsPlain ==
    ASSUME CallsInv
    PROVE  Left \in [Calls -> Shapes] /\ \A c \in Calls : Left[c].flag = NoFlag
<1>1. ASSUME NEW c \in Calls  PROVE Left[c] \in Shapes /\ Left[c].flag = NoFlag
  <2>1. CASE Left[c] = NoCall
    BY <2>1, Constants
  <2>2. CASE call[c].phase = "left" \/ (call[c].op \in Writes /\ call[c].phase = "sent")
    <3> DEFINE r == [call[c] EXCEPT !.phase = "left", !.flag = NoFlag, !.id = None, !.of = None]
    <3>1. Left[c] = r
      BY <2>2 DEF Left
    <3>2. call[c] \in CallSet /\ call[c].op # "scan" /\ call[c].op \in Writes
      BY <2>2 DEF CallsInv, Shapes, WellFormed, NoFlag, Writes
    <3>3. r \in CallSet /\ r.op = call[c].op /\ r.flag = NoFlag /\ r.of = None /\ r.id = None
      BY <3>2 DEF CallSet, Phases
    <3> HIDE DEF r
    <3>4. WellFormed(r)
      BY <3>2, <3>3 DEF WellFormed, NoFlag, Writes
    <3> QED
      BY <3>1, <3>3, <3>4 DEF Shapes
  <2> QED
    BY <2>1, <2>2 DEF Left
<1>2. Left = [c \in Calls |-> Left[c]]
  BY DEF Left
<1> QED
  BY <1>1, <1>2

\* The mount's loads are one, or of a screen whose flag is not gated.
LEMMA MountKeeps ==
    ASSUME PanelInv, NEW s \in Screens, Mount(s)
    PROVE  PanelInv'
<1> DEFINE slots == MountSlots(s)
           r(c) == [op |-> "load", from |-> s, flag |-> MountFlag(s), id |-> None, of |-> 1,
                    newest |-> \A d \in slots : d <= c, phase |-> "sent"]
<1>1. CallsInv
  BY DEF PanelInv
<1>2. /\ screen' = s /\ FreshPanel /\ busy' = {MountFlag(s)} \ {NoFlag}
      /\ call' = [c \in Calls |-> IF c \in slots THEN r(c) ELSE Left[c]]
      /\ Cardinality(slots) = MountLoads(s)
  BY DEF Mount
<1>3. MountFlag(s) \in {NoFlag, "loading", "loadingRecent"}
  BY DEF MountFlag
<1>4. ASSUME NEW c \in Calls  PROVE r(c) \in Shapes
  <2>1. (\A d \in slots : d <= c) \in BOOLEAN
    OBVIOUS
  <2>2. 1 \in Choices
    BY PanelAssumption
  <2>3. r(c) \in CallSet
    BY <1>3, <2>1, <2>2 DEF CallSet, Reads, Flags, Phases
  <2>4. WellFormed(r(c))
    BY <1>3, <2>2 DEF WellFormed, NoFlag
  <2> QED
    BY <2>3, <2>4 DEF Shapes
<1>5. /\ call' \in [Calls -> Shapes]
      /\ \A c \in slots : c \in Calls /\ call'[c].flag = MountFlag(s) /\ call'[c].op = "load"
      /\ \A c \in Calls \ slots : call'[c] = Left[c]
  <2>1. slots \subseteq Calls
    BY DEF MountSlots
  <2> HIDE DEF slots
  <2> QED
    BY <1>1, <1>2, <1>4, <2>1, LeftIsPlain
<1>6. \A c \in Calls \ slots : call'[c].flag = NoFlag
  BY <1>1, <1>5, LeftIsPlain
<1>7. IsFiniteSet(slots)
  <2>1. IsFiniteSet(Calls)
    BY FS_Interval, PanelAssumption DEF Calls
  <2> QED
    BY <2>1, FS_Subset DEF MountSlots
<1>8. CallsInv'
  <2> HIDE DEF slots
  <2>1. busy' \subseteq Flags
    BY <1>2, <1>3 DEF Flags
  <2>2. ASSUME NEW flag \in busy'  PROVE \E c \in Calls : call'[c].flag = flag
    <3>1. flag = MountFlag(s) /\ MountFlag(s) # NoFlag
      BY <1>2, <2>2
    <3>2. MountLoads(s) # 0
      BY <3>1 DEF MountFlag, MountLoads
    <3>3. slots # {}
      BY <1>2, <3>2, FS_EmptySet
    <3> QED
      BY <1>5, <3>1, <3>3
  <2>3. ASSUME NEW c \in Calls, call'[c].flag \in GatedFlags'
        PROVE  /\ call'[c].flag \in busy'
               /\ \A d \in Calls : call'[d].flag = call'[c].flag => d = c
    <3>1. GatedFlags' \subseteq Flags /\ NoFlag \notin Flags
      BY Constants DEF GatedFlags
    <3>2. c \in slots /\ call'[c].flag = MountFlag(s) /\ MountFlag(s) # NoFlag
      BY <1>5, <1>6, <2>3, <3>1
    <3>3. s # "admin"
      BY <1>2, <2>3, <3>2 DEF GatedFlags, MountFlag
    <3>4. MountLoads(s) = 1
      BY <3>2, <3>3 DEF MountLoads, MountFlag
    <3>5. PICK x : slots = {x}
      BY <1>2, <1>7, <3>4, FS_Singleton
    <3>6. \A d \in Calls \ slots : call'[d].flag # call'[c].flag
      BY <1>6, <3>2
    <3> QED
      BY <1>2, <3>2, <3>5, <3>6
  <2> QED
    BY <1>5, <2>1, <2>2, <2>3 DEF CallsInv
<1>9. FormInv'
  BY <1>2 DEF FreshPanel, FormInv, Blank
<1>10. ScanInv'
  BY <1>2 DEF FreshPanel, ScanInv, NoScan
<1>11. ChoiceInv'
  <2>1. reset' \in [of : Records \cup {None}, password : Records \cup {None}, crossed : BOOLEAN]
    BY <1>2 DEF FreshPanel, NoReset
  <2> QED
    BY <1>2, <2>1, PanelAssumption DEF FreshPanel, ChoiceInv
<1> QED
  BY <1>8, <1>9, <1>10, <1>11 DEF PanelInv

\* Signing out leaves no call and no flag.
LEMMA EmptyKeeps ==
    ASSUME screen' = "map", FreshPanel, busy' = {}, call' = [c \in Calls |-> NoCall]
    PROVE  PanelInv'
<1>1. \A c \in Calls : call'[c] = NoCall
  OBVIOUS
<1>2. CallsInv'
  <2>1. NoFlag \notin GatedFlags'
    BY Constants DEF GatedFlags
  <2> QED
    BY <1>1, <2>1, Constants DEF CallsInv
<1>3. FormInv'
  BY DEF FreshPanel, FormInv, Blank
<1>4. ScanInv'
  BY DEF FreshPanel, ScanInv, NoScan
<1>5. ChoiceInv'
  <2>1. reset' \in [of : Records \cup {None}, password : Records \cup {None}, crossed : BOOLEAN]
    BY DEF FreshPanel, NoReset
  <2> QED
    BY <2>1, PanelAssumption DEF FreshPanel, ChoiceInv, Screens
<1> QED
  BY <1>2, <1>3, <1>4, <1>5 DEF PanelInv

\* The panels' invariant holds at first and is kept by every step.
LEMMA InitPanel == Init => PanelInv
<1> SUFFICES ASSUME Init  PROVE PanelInv
  OBVIOUS
<1>1. \A c \in Calls : call[c] = NoCall
  BY DEF Init
<1>2. CallsInv
  <2>1. NoFlag \notin GatedFlags
    BY Constants DEF GatedFlags
  <2> QED
    BY <1>1, <2>1, Constants DEF CallsInv, Init
<1>3. FormInv
  BY DEF Init, FormInv, Blank
<1>4. ScanInv
  BY DEF Init, ScanInv, NoScan
<1>5. ChoiceInv
  <2>1. reset \in [of : Records \cup {None}, password : Records \cup {None}, crossed : BOOLEAN]
    BY DEF Init, NoReset
  <2> QED
    BY <2>1, PanelAssumption DEF Init, ChoiceInv, Screens
<1> QED
  BY <1>2, <1>3, <1>4, <1>5 DEF PanelInv

LEMMA PanelsKept ==
    ASSUME PanelInv, UNCHANGED <<screen, panelVars>>
    PROVE  PanelInv'
<1>1. UNCHANGED <<screen, chosen, busy, form, scan, reset, call>>
  BY DEF panelVars
<1>2. FormInv' /\ ChoiceInv'
  BY <1>1 DEF PanelInv, FormInv, ChoiceInv
<1> QED
  BY <1>1, <1>2, Stays, Ordinary DEF PanelInv

LEMMA PanelNext == PanelInv /\ [Next]_vars => PanelInv'
<1> SUFFICES ASSUME PanelInv, [Next]_vars  PROVE PanelInv'
  OBVIOUS
<1>1. CASE UNCHANGED <<screen, panelVars>>
  BY <1>1, PanelsKept
<1>2. CASE SignOut
  BY <1>2, EmptyKeeps DEF SignOut
<1>3. CASE Intercept
  BY <1>1, <1>2, <1>3 DEF Intercept
<1>4. ASSUME NEW c \in Calls, Refuse(c)  PROVE PanelInv'
  <2>1. CASE Intercept
    BY <1>3, <2>1
  <2>2. CASE /\ call' = [call EXCEPT ![c].phase = "failed"]
             /\ UNCHANGED <<screen, chosen, shown, busy, form, scan, reset, behind, sessionVars, wallVars>>
    <3>1. Kept
      BY <2>2, Marked DEF PanelInv, CallsInv, Phases
    <3>2. FormInv' /\ ChoiceInv'
      BY <2>2 DEF PanelInv, FormInv, ChoiceInv
    <3> QED
      BY <2>2, <3>1, <3>2, Ordinary
  <2> QED
    BY <1>4, <2>1, <2>2 DEF Refuse
<1>5. ASSUME NEW s \in Screens, Navigate(s)  PROVE PanelInv'
  BY <1>5, MountKeeps DEF Navigate
<1>6. CASE PanelStep
  <2>1. CASE FormScreen \/ ListScreen
    BY <2>1, FormKeeps, ListKeeps
  <2>2. ASSUME NEW c \in Calls,
               \/ ServeRead(c) \/ ServeWrite(c) \/ ServeLeft(c)
               \/ AnswerLoad(c) \/ AnswerRefused(c) \/ LookupAnswered(c)
        PROVE  PanelInv'
    BY <2>2, ServeKeeps, AnswerKeeps
  <2>3. ASSUME NEW c \in Calls, FormAnswer(c)  PROVE PanelInv'
    BY <2>3, DoneKeeps, ScanEnds, ResetKeeps DEF FormAnswer
  <2> QED
    BY <1>6, <2>1, <2>2, <2>3 DEF PanelStep
<1>7. CASE SubmitLogin \/ LoginAnswered \/ Expires \/ CamerasLoaded
  BY <1>1, <1>7 DEF SubmitLogin, LoginAnswered, Expires, CamerasLoaded, OnWall
<1>8. CASE ChangeGrid \/ TurnPage \/ ExpandTile \/ BackToWall
  BY <1>1, <1>8 DEF ChangeGrid, TurnPage, ExpandTile, BackToWall, OnWall
<1>9. CASE Logout \/ PollRefused
  BY <1>2, <1>3, <1>9 DEF Logout, PollRefused
<1>10. CASE QuickSearch
  BY <1>5, <1>10 DEF QuickSearch, Screens
<1>11. CASE UNCHANGED vars
  BY <1>1, <1>11 DEF vars
<1> QED
  BY <1>4, <1>5, <1>6, <1>7, <1>8, <1>9, <1>10, <1>11 DEF Next

LEMMA PanelInvariance == Spec => []PanelInv
BY InitPanel, PanelNext, PTL DEF Spec

-----------------------------------------------------------------------------

\* No button of any panel stays disabled and no gated call is sent twice, whatever
\* is clicked, fails, is lost or answered late, with any number of calls in flight.
THEOREM ButtonsComeBack == Spec => []SpinnersEnd
<1>1. PanelInv => SpinnersEnd
  <2> SUFFICES ASSUME PanelInv  PROVE SpinnersEnd
    OBVIOUS
  <2> USE DEF PanelInv, CallsInv
  <2>1. \A c \in Calls : call[c].flag # NoFlag => call[c].op # "none"
    BY IdleIsPlain
  <2>2. NoFlag \notin Flags /\ GatedFlags \subseteq Flags
    BY Constants, GatedAreFlags
  <2>3. ASSUME NEW flag \in busy  PROVE CallsOf(flag) # {}
    BY <2>1, <2>2, <2>3 DEF CallsOf
  <2>4. ASSUME NEW flag \in GatedFlags
        PROVE  Cardinality(CallsOf(flag)) <= 1 /\ (CallsOf(flag) # {} => flag \in busy)
    <3>1. \A c, d \in CallsOf(flag) : c = d
      BY <2>4 DEF CallsOf
    <3>2. CallsOf(flag) # {} => flag \in busy
      BY <2>4 DEF CallsOf
    <3>3. CASE CallsOf(flag) = {}
      BY <3>2, <3>3, FS_EmptySet
    <3>4. CASE CallsOf(flag) # {}
      <4>0. PICK c : c \in CallsOf(flag)
        BY <3>4
      <4>1. CallsOf(flag) = {c}
        BY <3>1, <4>0
      <4>2. Cardinality({c}) = 1
        BY FS_Singleton
      <4> QED
        BY <3>2, <4>1, <4>2
    <3> QED
      BY <3>3, <3>4
  <2> QED
    BY <2>3, <2>4 DEF SpinnersEnd
<1> QED
  BY <1>1, PanelInvariance, PTL

\* An open form and a save in flight carry the values of the record they name, and
\* what would be onboarded was found by the scan shown.
THEOREM FormsKeepTheirRecord == Spec => []FormsMatch
<1>1. PanelInv => FormsMatch
  <2> SUFFICES ASSUME PanelInv  PROVE FormsMatch
    OBVIOUS
  <2>1. form.open => form.of = form.id
    BY DEF PanelInv, FormInv
  <2>2. \A c \in InFlight("save") : call[c].of = call[c].id
    BY DEF InFlight, PanelInv, CallsInv, Shapes, WellFormed
  <2>3. scan.selected \subseteq scan.devices
    BY DEF PanelInv, ScanInv
  <2> QED
    BY <2>1, <2>2, <2>3 DEF FormsMatch
<1> QED
  BY <1>1, PanelInvariance, PTL
-----------------------------------------------------------------------------
(***************************************************************************)
(* What the answers bring: the list and the password.                      *)
(***************************************************************************)

\* The loads in flight, the newest of them, and the writes that took effect and
\* whose answer will have the list loaded again or mark it as behind.
Loading == {c \in Calls : call[c].op = "load"}
Coming == {c \in Loading : call[c].newest}
Pending == {c \in Calls : call[c].op \in Writes /\ call[c].phase \in {"ok", "lost"}}

Current == shown = [of |-> chosen, fresh |-> TRUE]

\* On a screen with a list: the newest load has the filter chosen last, and the
\* list is current or will be, or it is known to be behind.
ChosenInv == \A c \in Coming : call[c].of = chosen /\ \A d \in Coming : c = d

NewsInv ==
    \/ behind # {}
    \/ Pending # {}
    \/ \E c \in Coming : call[c].phase # "stale"
    \/ Current /\ Coming = {}

\* Where a load waits for the flag of the one before, none is overtaken.
SerialInv ==
    /\ "overtaken" \notin behind
    /\ \A c \in Loading : call[c].newest /\ call[c].flag = MountFlag(screen)

AnswersInv ==
    MountLoads(screen) > 0 => ChosenInv /\ NewsInv /\ (screen \in Serial => SerialInv)

\* A step may find that an answer did not come, but has none overtaken.
Lags == behind' \in {behind, behind \cup {"unanswered"}}

\* The newest reset in flight is that of the user of the modal.
PasswordInv ==
    /\ PasswordIsHis
    /\ reset.of # None =>
          \A c \in InFlight("reset") : call[c].newest => call[c].id = reset.of

\* Steps that neither bring news of the list nor move it.
NewsQuiet ==
    /\ UNCHANGED <<screen, chosen, shown>>
    /\ Lags
    /\ Pending \subseteq Pending' /\ Loading' = Loading
    /\ \A c \in Loading : /\ call'[c].newest = call[c].newest /\ call'[c].of = call[c].of
                          /\ call'[c].flag = call[c].flag
                          /\ call'[c].phase # "stale" \/ call'[c].phase = call[c].phase

\* Steps that bring no password and ask for none.
ResetQuiet ==
    /\ reset' = reset \/ reset'.of = None
    /\ \A c \in Calls : call'[c].op = "reset" /\ call'[c].newest =>
          call[c].op = "reset" /\ call[c].newest /\ call'[c].id = call[c].id

LEMMA NewsQuietKeeps == AnswersInv /\ NewsQuiet => AnswersInv'
<1> SUFFICES ASSUME AnswersInv, NewsQuiet  PROVE AnswersInv'
  OBVIOUS
<1>1. Coming' = Coming /\ Current' = Current /\ screen' = screen /\ Lags
  BY DEF NewsQuiet, Coming, Current
<1>2. Coming \subseteq Loading
  BY DEF Coming
<1>3. ChosenInv => ChosenInv'
  BY <1>1, <1>2 DEF ChosenInv, NewsQuiet
<1>4. NewsInv => NewsInv'
  BY <1>1, <1>2 DEF NewsInv, NewsQuiet, Lags
<1>5. SerialInv => SerialInv'
  BY <1>1 DEF SerialInv, NewsQuiet, Lags
<1> QED
  BY <1>1, <1>3, <1>4, <1>5 DEF AnswersInv

LEMMA ResetQuietKeeps == PasswordInv /\ ResetQuiet => PasswordInv'
BY DEF PasswordInv, PasswordIsHis, ResetQuiet, InFlight

LEMMA RequestIs ==
    ASSUME NEW op, NEW flag, NEW id, NEW of
    PROVE  /\ Request(op, flag, id, of).op = op /\ Request(op, flag, id, of).flag = flag
           /\ Request(op, flag, id, of).id = id /\ Request(op, flag, id, of).of = of
           /\ Request(op, flag, id, of).newest = TRUE /\ Request(op, flag, id, of).phase = "sent"
BY DEF Request

\* The ways a step may treat the slots, as far as lists and passwords go.
\* One slot that had no load and no write to be answered gets no load.
LEMMA SlotQuiet ==
    ASSUME CallsInv, NEW c \in Calls, NEW r, call' = [call EXCEPT ![c] = r],
           c \notin Loading, c \notin Pending, r.op # "load",
           UNCHANGED <<screen, chosen, shown>>, Lags
    PROVE  /\ NewsQuiet
           /\ r.op # "reset" /\ (reset' = reset \/ reset'.of = None) => ResetQuiet
<1>1. call'[c] = r /\ \A d \in Calls \ {c} : call'[d] = call[d]
  BY DEF CallsInv
<1>2. Loading' = Loading
  BY <1>1 DEF Loading
<1>3. Pending \subseteq Pending'
  BY <1>1 DEF Pending
<1>4. \A d \in Loading : call'[d] = call[d]
  BY <1>1 DEF Loading
<1>5. NewsQuiet
  BY <1>2, <1>3, <1>4 DEF NewsQuiet
<1>6. ASSUME r.op # "reset", reset' = reset \/ reset'.of = None  PROVE ResetQuiet
  BY <1>1, <1>6 DEF ResetQuiet
<1> QED
  BY <1>5, <1>6

LEMMA AskQuiet ==
    ASSUME CallsInv, NEW op, NEW flag, NEW id, NEW of, op # "load",
           Ask(Request(op, flag, id, of)), UNCHANGED <<screen, chosen, shown, behind>>
    PROVE  /\ NewsQuiet
           /\ op # "reset" /\ (reset' = reset \/ reset'.of = None) => ResetQuiet
<1> DEFINE r == Request(op, flag, id, of)
<1>1. r.op = op
  BY DEF r, Request
<1>2. PICK c \in Calls : FirstIdle(c) /\ call' = [call EXCEPT ![c] = r]
  BY DEF Ask
<1>3. call[c].op = "none"
  BY <1>2 DEF FirstIdle, Idle, InFlight
<1>4. c \notin Loading /\ c \notin Pending
  BY <1>3 DEF Loading, Pending, Writes
<1> HIDE DEF r
<1> QED
  BY <1>1, <1>2, <1>4, SlotQuiet DEF Lags

LEMMA StillQuiet ==
    ASSUME UNCHANGED <<screen, chosen, shown, behind, call>>,
           reset' = reset \/ reset'.of = None
    PROVE  NewsQuiet /\ ResetQuiet
BY DEF NewsQuiet, Lags, ResetQuiet, Loading, Pending

\* A load: the newest from now on, with the filter chosen now.
LEMMA LoadNews ==
    ASSUME CallsInv, AnswersInv, PasswordInv, NEW c \in Calls, NEW flag, LoadIn(c, flag, chosen'),
           UNCHANGED <<screen, reset>>,
           screen \in Serial => flag = MountFlag(screen) /\ Loading = {}
    PROVE  AnswersInv' /\ PasswordInv'
<1> DEFINE r == [LoadRequest(flag) EXCEPT !.of = chosen']
<1>1. /\ r.op = "load" /\ r.flag = flag /\ r.of = chosen' /\ r.newest = TRUE /\ r.phase = "sent"
  BY DEF LoadRequest, Request
<1> HIDE DEF r
<1>2. call' = [Overtaken(call) EXCEPT ![c] = r] /\ behind' = {}
  BY DEF LoadIn, r
<1>3. call'[c] = r /\ \A d \in Calls \ {c} :
          call'[d] = IF call[d].op = "load" THEN [call[d] EXCEPT !.newest = FALSE] ELSE call[d]
  BY <1>2 DEF Overtaken
<1>4. \A d \in Calls : call[d].op = "load" =>
          [call[d] EXCEPT !.newest = FALSE].newest = FALSE /\ [call[d] EXCEPT !.newest = FALSE].op = "load"
  BY DEF CallsInv, Shapes, CallSet
<1>5. Coming' = {c}
  BY <1>1, <1>3, <1>4 DEF Coming, Loading
<1>6. ChosenInv' /\ NewsInv'
  BY <1>1, <1>3, <1>5 DEF ChosenInv, NewsInv
<1>7. ASSUME screen \in Serial  PROVE SerialInv'
  <2>1. \A d \in Calls : call[d].op # "load"
    BY <1>7 DEF Loading
  <2>2. Loading' = {c}
    BY <1>1, <1>3, <2>1 DEF Loading
  <2> QED
    BY <1>1, <1>2, <1>3, <1>7, <2>2 DEF SerialInv
<1>8. ResetQuiet
  BY <1>1, <1>3, <1>4 DEF ResetQuiet
<1> QED
  BY <1>6, <1>7, <1>8, ResetQuietKeeps DEF AnswersInv

-----------------------------------------------------------------------------

\* The two invariants together, and the steps that are quiet for both.
BroughtInv == AnswersInv /\ PasswordInv

Quiet == NewsQuiet /\ ResetQuiet

LEMMA QuietKeeps == BroughtInv /\ Quiet => BroughtInv'
BY NewsQuietKeeps, ResetQuietKeeps DEF BroughtInv, Quiet

\* A call whose request is served, or refused.
LEMMA ServedQuiet ==
    ASSUME CallsInv, NEW c \in Calls, NEW p \in Phases, p # "stale", c \notin Pending,
           call' = [call EXCEPT ![c].phase = p],
           UNCHANGED <<screen, chosen, shown, behind, reset>>
    PROVE  Quiet
<1> DEFINE r == [call[c] EXCEPT !.phase = p]
<1>1. call[c] \in CallSet
  BY DEF CallsInv, Shapes
<1>2. /\ r.op = call[c].op /\ r.flag = call[c].flag /\ r.id = call[c].id
      /\ r.of = call[c].of /\ r.newest = call[c].newest /\ r.phase = p
  BY <1>1 DEF CallSet
<1>3. call'[c] = r /\ \A d \in Calls \ {c} : call'[d] = call[d]
  BY DEF CallsInv
<1> HIDE DEF r
<1>4. Loading' = Loading
  BY <1>2, <1>3 DEF Loading
<1>5. Pending \subseteq Pending'
  BY <1>3 DEF Pending
<1>6. NewsQuiet
  BY <1>2, <1>3, <1>4, <1>5 DEF NewsQuiet, Lags, Loading
<1>7. ResetQuiet
  BY <1>2, <1>3 DEF ResetQuiet
<1> QED
  BY <1>6, <1>7 DEF Quiet

\* A slot freed by an answer that the list does not come from.
LEMMA FreedQuiet ==
    ASSUME CallsInv, NEW c \in Calls, c \notin Loading, c \notin Pending,
           call' = [call EXCEPT ![c] = NoCall],
           UNCHANGED <<screen, chosen, shown>>, Lags
    PROVE  NewsQuiet /\ (reset' = reset => Quiet)
<1>1. NoCall.op # "load" /\ NoCall.op # "reset"
  BY DEF NoCall
<1> QED
  BY <1>1, SlotQuiet DEF Quiet

\* The handlers that send something other than a load.
LEMMA SendsQuiet ==
    ASSUME CallsInv,
           \/ BulkUpload \/ OnvifScan \/ OnvifOnboard \/ SubmitCamera
           \/ SaveUser \/ SubmitEntry \/ CreateRule \/ Delete
    PROVE  Quiet
<1>1. ASSUME BulkUpload \/ OnvifScan \/ OnvifOnboard  PROVE Quiet
  BY <1>1, AskQuiet DEF BulkUpload, OnvifScan, OnvifOnboard, Press, Quiet
<1>2. ASSUME SubmitCamera \/ SaveUser \/ SubmitEntry  PROVE Quiet
  BY <1>2, AskQuiet DEF SubmitCamera, SaveUser, SubmitEntry, Press, Quiet
<1>3. ASSUME CreateRule \/ Delete  PROVE Quiet
  BY <1>3, AskQuiet DEF CreateRule, Delete, Quiet
<1> QED
  BY <1>1, <1>2, <1>3

LEMMA LookupQuiet == ASSUME CallsInv, NEW flag, Lookup(flag)  PROVE Quiet
BY AskQuiet DEF Lookup, Press, ListPanelVars, Quiet

\* The handlers that send nothing.
LEMMA EditsQuiet ==
    ASSUME \/ AddCamera \/ CancelCamera \/ OpenCreate \/ HideForm \/ ToggleRuleForm
           \/ ToggleDevice \/ SelectAll \/ AddEntry
           \/ \E r \in Records : EditCamera(r) \/ OpenEdit(r)
    PROVE  Quiet
<1>1. UNCHANGED <<screen, chosen, shown, reset, call, behind>>
  BY DEF AddCamera, CancelCamera, OpenCreate, HideForm, ToggleRuleForm, ToggleDevice,
         SelectAll, AddEntry, EditCamera, OpenEdit
<1> QED
  BY <1>1, StillQuiet DEF Quiet

-----------------------------------------------------------------------------
(***************************************************************************)
(* Passwords.                                                              *)
(***************************************************************************)

\* The modal is closed; it asks for the user it shows; it is opened for another.
LEMMA CloseResetKeeps == ASSUME PanelInv, BroughtInv, CloseReset  PROVE BroughtInv'
<1>1. reset'.of = None
  BY DEF CloseReset, PanelInv, ChoiceInv
<1> QED
  BY <1>1, StillQuiet, QuietKeeps DEF CloseReset, Quiet

LEMMA ResetPasswordKeeps == ASSUME PanelInv, BroughtInv, ResetPassword  PROVE BroughtInv'
<1> DEFINE r == Request("reset", NoFlag, reset.of, None)
<1>1. UNCHANGED <<screen, chosen, shown, behind, reset>> /\ Ask(r) /\ CallsInv
  BY DEF ResetPassword, PanelInv
<1>2. AnswersInv'
  BY <1>1, AskQuiet, NewsQuietKeeps DEF BroughtInv
<1>3. PICK c \in Calls : call' = [call EXCEPT ![c] = r]
  BY <1>1 DEF Ask
<1>4. r.id = reset.of
  BY DEF Request
<1> HIDE DEF r
<1>5. call'[c] = r /\ \A d \in Calls \ {c} : call'[d] = call[d]
  BY <1>1, <1>3 DEF CallsInv
<1>6. PasswordInv'
  BY <1>1, <1>4, <1>5 DEF BroughtInv, PasswordInv, PasswordIsHis, InFlight
<1> QED
  BY <1>2, <1>6 DEF BroughtInv

LEMMA OpenResetKeeps == ASSUME PanelInv, BroughtInv, NEW u \in Records, OpenReset(u)  PROVE BroughtInv'
<1>1. /\ reset' = [NoReset EXCEPT !.of = u]
      /\ UNCHANGED <<screen, chosen, shown, behind>>
      /\ \A c \in Calls : call[c] \in CallSet
  BY DEF OpenReset, ModalFor, PanelInv, CallsInv, Shapes
<1>2. reset'.of = u /\ reset'.password = None
  BY <1>1 DEF NoReset
<1>3. \A c \in Calls :
        call'[c] = IF call[c].op = "reset" /\ call[c].id # u THEN [call[c] EXCEPT !.newest = FALSE] ELSE call[c]
  BY DEF OpenReset
<1>4. \A c \in Calls : call[c].op = "reset" /\ call[c].id # u => call'[c].op = "reset" /\ call'[c].newest = FALSE
  BY <1>1, <1>3 DEF CallSet
<1>5. \A c \in Calls : ~(call[c].op = "reset" /\ call[c].id # u) => call'[c] = call[c]
  BY <1>3
<1>6. NewsQuiet
  <2>1. \A c \in Calls : call[c].op # "reset" => call'[c] = call[c]
    BY <1>5
  <2>2. \A c \in Calls : call[c].op = "reset" => call'[c].op = "reset"
    BY <1>4, <1>5
  <2>3. Loading' = Loading /\ \A c \in Loading : call'[c] = call[c]
    BY <2>1, <2>2 DEF Loading
  <2>4. Pending \subseteq Pending'
    BY <2>1 DEF Pending, Writes
  <2> QED
    BY <1>1, <2>3, <2>4 DEF NewsQuiet, Lags
<1>7. \A c \in Calls : call'[c].op = "reset" /\ call'[c].newest => call'[c].id = u
  BY <1>4, <1>5
<1>8. PasswordInv'
  BY <1>2, <1>7 DEF PasswordInv, PasswordIsHis, InFlight
<1> QED
  BY <1>6, <1>8, NewsQuietKeeps DEF BroughtInv

\* The password that arrives is that of the modal's user, or is known not to be.
LEMMA ResetAnsweredKeeps == ASSUME PanelInv, BroughtInv, NEW c \in Calls, ResetAnswered(c)  PROVE BroughtInv'
<1>1. /\ call[c].op = "reset" /\ call[c] \in CallSet /\ CallsInv
      /\ call' = [call EXCEPT ![c] = NoCall] /\ UNCHANGED <<screen, chosen, shown, behind>>
      /\ reset \in [of : Records \cup {None}, password : Records \cup {None}, crossed : BOOLEAN]
  BY DEF ResetAnswered, PanelInv, CallsInv, Shapes, ChoiceInv
<1>2. c \notin Loading /\ c \notin Pending
  BY <1>1 DEF Loading, Pending, Writes
<1>3. AnswersInv'
  BY <1>1, <1>2, FreedQuiet, NewsQuietKeeps DEF BroughtInv, Lags
<1>4. \A d \in Calls : call'[d].op = "reset" => call'[d] = call[d] /\ call[d].op = "reset"
  BY <1>1 DEF CallsInv, NoCall
<1>5. \/ reset' = reset
      \/ reset'.of = reset.of /\ reset'.password = call[c].id /\ reset'.crossed = ~call[c].newest
  BY <1>1 DEF ResetAnswered
<1>6. PasswordIsHis'
  <2>1. CASE reset' = reset
    BY <2>1 DEF BroughtInv, PasswordInv, PasswordIsHis
  <2>2. CASE reset'.of = reset.of /\ reset'.password = call[c].id /\ reset'.crossed = ~call[c].newest
    <3>1. reset.of # None /\ call[c].newest => call[c].id = reset.of
      BY <1>1 DEF BroughtInv, PasswordInv, InFlight
    <3> QED
      BY <1>1, <2>2, <3>1 DEF PasswordIsHis, CallSet
  <2> QED
    BY <1>5, <2>1, <2>2
<1>7. PasswordInv'
  BY <1>4, <1>5, <1>6 DEF BroughtInv, PasswordInv, InFlight
<1> QED
  BY <1>3, <1>7 DEF BroughtInv

-----------------------------------------------------------------------------
(***************************************************************************)
(* The list.                                                               *)
(***************************************************************************)

\* The service answers, or a write of a panel that is gone takes effect.
LEMMA ServeReadQuiet == ASSUME CallsInv, NEW c \in Calls, ServeRead(c)  PROVE Quiet
<1>1. c \notin Pending
  BY DEF ServeRead, Pending
<1> QED
  BY <1>1, ServedQuiet DEF ServeRead, Phases

\* What a write leaves of the loads that were read before it.
LEMMA OutdatedIs ==
    ASSUME CallsInv, NEW c \in Calls, NEW d \in Calls
    PROVE  /\ Outdated(call, c)[d].op = call[d].op /\ Outdated(call, c)[d].newest = call[d].newest
           /\ Outdated(call, c)[d].of = call[d].of /\ Outdated(call, c)[d].flag = call[d].flag
           /\ Outdated(call, c)[d].id = call[d].id
           /\ call[d].op # "load" => Outdated(call, c)[d] = call[d]
<1>1. call[d] \in CallSet
  BY DEF CallsInv, Shapes
<1> QED
  BY <1>1 DEF Outdated, CallSet

\* The steps after which the list is known to be behind, and those of a write
\* whose answer will have it loaded again.
LEMMA BehindKeeps ==
    ASSUME BroughtInv, UNCHANGED <<screen, chosen, reset>>, Lags, behind' # {} \/ Pending' # {},
           NEW S \in SUBSET Calls, call' \in [Calls -> Shapes],
           \A d \in S : /\ call'[d].op = call[d].op /\ call'[d].newest = call[d].newest
                        /\ call'[d].of = call[d].of /\ call'[d].flag = call[d].flag
                        /\ call'[d].id = call[d].id,
           \A d \in Calls \ S : call'[d].op = "none"
    PROVE  BroughtInv'
<1>1. Loading' \subseteq Loading \cap S /\ Coming' \subseteq Coming \cap S
  BY DEF Loading, Coming
<1>2. NewsInv'
  BY DEF NewsInv
<1>3. ChosenInv => ChosenInv'
  BY <1>1 DEF ChosenInv
<1>4. SerialInv => SerialInv'
  BY <1>1 DEF SerialInv, Lags
<1>5. AnswersInv'
  BY <1>2, <1>3, <1>4 DEF BroughtInv, AnswersInv
<1>6. ResetQuiet
  BY DEF ResetQuiet
<1> QED
  BY <1>5, <1>6, ResetQuietKeeps DEF BroughtInv

LEMMA ServeWriteKeeps == ASSUME PanelInv, BroughtInv, NEW c \in Calls, ServeWrite(c)  PROVE BroughtInv'
<1>1. /\ call[c].op \in Writes /\ call[c].phase = "sent" /\ c \notin Pending
      /\ UNCHANGED <<screen, chosen, reset, behind>> /\ CallsInv
  BY DEF ServeWrite, Pending, PanelInv
<1>2. CASE call' = [call EXCEPT ![c].phase = "failed"] /\ UNCHANGED shown
  BY <1>1, <1>2, ServedQuiet, QuietKeeps DEF Phases
<1>3. ASSUME NEW p \in {"ok", "lost"}, call' = [Outdated(call, c) EXCEPT ![c].phase = p]
      PROVE  BroughtInv'
  <2>1. Outdated(call, c)[c] = call[c] /\ call[c] \in CallSet
    BY <1>1 DEF Outdated, CallsInv, Shapes
  <2>2. call'[c] = [call[c] EXCEPT !.phase = p]
    BY <1>3, <2>1 DEF Outdated
  <2>3. \A d \in Calls \ {c} : call'[d] = Outdated(call, c)[d]
    BY <1>3 DEF Outdated
  <2>4. /\ call'[c].op = call[c].op /\ call'[c].newest = call[c].newest
        /\ call'[c].of = call[c].of /\ call'[c].flag = call[c].flag
        /\ call'[c].id = call[c].id /\ call'[c].phase = p
    BY <2>1, <2>2 DEF CallSet
  <2>5. c \in Pending'
    BY <1>1, <2>4 DEF Pending
  <2>6. call' \in [Calls -> Shapes]
    <3>1. PanelInv'
      BY ServeKeeps
    <3> QED
      BY <3>1 DEF PanelInv, CallsInv
  <2>7. \A d \in Calls : /\ call'[d].op = call[d].op /\ call'[d].newest = call[d].newest
                         /\ call'[d].of = call[d].of /\ call'[d].flag = call[d].flag
                         /\ call'[d].id = call[d].id
    BY <1>1, <2>3, <2>4, OutdatedIs
  <2>8. Pending' # {}
    BY <2>5
  <2> QED
    BY <1>1, <2>6, <2>7, <2>8, BehindKeeps DEF Lags
<1> QED
  BY <1>2, <1>3 DEF ServeWrite

LEMMA ServeLeftKeeps == ASSUME PanelInv, BroughtInv, NEW c \in Calls, ServeLeft(c)  PROVE BroughtInv'
<1>1. /\ call[c].phase = "left" /\ call[c].op \in Writes
      /\ UNCHANGED <<screen, chosen, reset>> /\ CallsInv
  BY DEF ServeLeft, PanelInv, CallsInv, Shapes, WellFormed
<1>2. c \notin Loading /\ c \notin Pending
  BY <1>1 DEF Loading, Pending, Writes
<1>3. CASE call[c].from # screen
  <2>1. call' = [call EXCEPT ![c] = NoCall] /\ shown' = shown /\ Lags
    BY <1>3 DEF ServeLeft, Lags
  <2> QED
    BY <1>1, <1>2, <2>1, FreedQuiet, QuietKeeps
<1>4. CASE call[c].from = screen
  <2>1. call' = [Outdated(call, c) EXCEPT ![c] = NoCall] /\ Lags /\ behind' # {}
    BY <1>4 DEF ServeLeft, Lags
  <2>2. call'[c] = NoCall /\ \A d \in Calls \ {c} : call'[d] = Outdated(call, c)[d]
    BY <2>1 DEF Outdated
  <2>3. call' \in [Calls -> Shapes]
    <3>1. PanelInv'
      BY ServeKeeps
    <3> QED
      BY <3>1 DEF PanelInv, CallsInv
  <2>4. \A d \in Calls \ {c} :
           /\ call'[d].op = call[d].op /\ call'[d].newest = call[d].newest
           /\ call'[d].of = call[d].of /\ call'[d].flag = call[d].flag
           /\ call'[d].id = call[d].id
    BY <1>1, <2>2, OutdatedIs
  <2>5. \A d \in Calls \ (Calls \ {c}) : call'[d].op = "none"
    BY <2>2 DEF NoCall
  <2> QED
    BY <1>1, <2>1, <2>3, <2>4, <2>5, BehindKeeps
<1> QED
  BY <1>3, <1>4

\* The answers: a message, a result or a list.
LEMMA AnswerRefusedKeeps == ASSUME PanelInv, BroughtInv, NEW c \in Calls, AnswerRefused(c)  PROVE BroughtInv'
<1>1. /\ call[c].op \in Writes /\ call[c].phase \in {"failed", "lost"} /\ CallsInv
      /\ call' = [call EXCEPT ![c] = NoCall]
      /\ behind' = IF call[c].phase = "lost" THEN behind \cup {"unanswered"} ELSE behind
      /\ UNCHANGED <<screen, chosen, shown, reset>>
  BY DEF AnswerRefused, PanelInv
<1>2. CASE call[c].phase = "failed"
  <2>1. c \notin Loading /\ c \notin Pending
    BY <1>1, <1>2 DEF Loading, Pending, Writes
  <2>2. Lags
    BY <1>1 DEF Lags
  <2> QED
    BY <1>1, <2>1, <2>2, FreedQuiet, QuietKeeps
<1>3. CASE call[c].phase = "lost"
  <2>1. call'[c] = NoCall /\ \A d \in Calls \ {c} : call'[d] = call[d]
    BY <1>1 DEF CallsInv
  <2>2. call' \in [Calls -> Shapes]
    BY <1>1, Constants DEF CallsInv
  <2>3. \A d \in Calls \ (Calls \ {c}) : call'[d].op = "none"
    BY <2>1 DEF NoCall
  <2>4. behind' # {} /\ Lags
    BY <1>1, <1>3 DEF Lags
  <2> QED
    BY <1>1, <2>1, <2>2, <2>3, <2>4, BehindKeeps
<1> QED
  BY <1>1, <1>2, <1>3

LEMMA ResultQuiet ==
    ASSUME CallsInv, NEW c \in Calls, ScanAnswered(c) \/ LookupAnswered(c)  PROVE Quiet
<1>1. /\ call[c].op \in {"scan", "lookup"} /\ call' = [call EXCEPT ![c] = NoCall]
      /\ UNCHANGED <<screen, chosen, shown, behind, reset>>
  BY DEF ScanAnswered, LookupAnswered, ListPanelVars
<1>2. c \notin Loading /\ c \notin Pending
  BY <1>1 DEF Loading, Pending, Writes
<1> QED
  BY <1>1, <1>2, FreedQuiet DEF Lags

LEMMA AnswerLoadKeeps == ASSUME PanelInv, BroughtInv, NEW c \in Calls, AnswerLoad(c)  PROVE BroughtInv'
<1>1. /\ c \in Loading /\ CallsInv /\ call' = [call EXCEPT ![c] = NoCall]
      /\ UNCHANGED <<screen, chosen, reset>>
  BY DEF AnswerLoad, PanelInv, Loading
<1>2. /\ call'[c].op = "none" /\ \A d \in Calls \ {c} : call'[d] = call[d]
  BY <1>1 DEF CallsInv, NoCall
<1>3. /\ Loading' = Loading \ {c} /\ Coming' = Coming \ {c}
      /\ \A d \in Loading \ {c} : call'[d] = call[d]
  <2>1. Loading' = Loading \ {c}
    BY <1>2 DEF Loading
  <2>2. \A d \in Loading \ {c} : call'[d] = call[d]
    BY <1>2 DEF Loading
  <2> QED
    BY <2>1, <2>2 DEF Coming
<1>4. Pending \subseteq Pending'
  BY <1>1, <1>2 DEF Pending, Loading, Writes
<1>5. ResetQuiet
  BY <1>1, <1>2 DEF ResetQuiet
<1>6. PasswordInv'
  BY <1>5, ResetQuietKeeps DEF BroughtInv
<1>7. ASSUME MountLoads(screen) > 0  PROVE ChosenInv' /\ (screen \in Serial => SerialInv')
  <2>1. ChosenInv /\ (screen \in Serial => SerialInv)
    BY <1>7 DEF BroughtInv, AnswersInv
  <2>2. Coming \subseteq Loading
    BY DEF Coming
  <2>3. ChosenInv'
    BY <1>1, <1>3, <2>1, <2>2 DEF ChosenInv
  <2>4. ASSUME screen \in Serial  PROVE SerialInv'
    <3>1. ~Late(c)
      BY <1>1, <2>1, <2>4 DEF SerialInv, Late
    <3>2. Lags
      BY <3>1 DEF AnswerLoad, Lags
    <3> QED
      BY <1>1, <1>3, <2>1, <2>4, <3>2 DEF SerialInv, Lags
  <2> QED
    BY <2>3, <2>4
<1>8. ASSUME MountLoads(screen) > 0  PROVE NewsInv'
  <2>1. ChosenInv /\ NewsInv /\ (screen \in Serial => SerialInv)
    BY <1>8 DEF BroughtInv, AnswersInv
  <2>2. \/ /\ call[c].phase \in {"ok", "stale"}
           /\ shown' = [of |-> call[c].of, fresh |-> call[c].phase = "ok"]
           /\ behind' = IF Late(c) THEN behind \cup {"overtaken"} ELSE behind
        \/ /\ call[c].phase = "failed"
           /\ behind' = IF call[c].newest THEN behind \cup {"unanswered"} ELSE behind
           /\ shown' = IF screen = "search" THEN Unloaded ELSE shown
    BY DEF AnswerLoad
  <2>3. CASE behind # {}
    BY <2>2, <2>3 DEF NewsInv
  <2>4. CASE Pending # {}
    BY <1>4, <2>4 DEF NewsInv
  <2>5. ASSUME NEW d \in Coming, call[d].phase # "stale"  PROVE NewsInv'
    <3>1. CASE d # c
      <4>1. d \in Coming' /\ call'[d].phase # "stale"
        BY <1>3, <2>5, <3>1 DEF Coming
      <4> QED
        BY <4>1 DEF NewsInv
    <3>2. CASE d = c /\ call[c].phase = "failed"
      <4>1. behind' # {}
        BY <2>2, <2>5, <3>2 DEF Coming
      <4> QED
        BY <4>1 DEF NewsInv
    <3>3. CASE d = c /\ call[c].phase # "failed"
      <4>1. shown' = [of |-> chosen, fresh |-> TRUE]
        BY <2>1, <2>2, <2>5, <3>3 DEF ChosenInv
      <4>2. Coming' = {}
        BY <1>3, <2>1, <2>5, <3>3 DEF ChosenInv
      <4> QED
        BY <1>1, <4>1, <4>2 DEF NewsInv, Current
    <3> QED
      BY <3>1, <3>2, <3>3
  <2>6. CASE Current /\ Coming = {}
    <3>1. ~call[c].newest /\ ~\E d \in InFlight("load") : call[d].newest
      BY <1>1, <2>6 DEF Coming, Loading, InFlight
    <3>2. CASE call[c].phase # "failed"
      <4>1. CASE Late(c)
        <5>1. behind' # {}
          BY <2>2, <3>2, <4>1
        <5> QED
          BY <5>1 DEF NewsInv
      <4>2. CASE ~Late(c)
        <5>1. shown' = [of |-> chosen, fresh |-> TRUE]
          BY <2>2, <3>1, <3>2, <4>2 DEF Late
        <5> QED
          BY <1>1, <1>3, <2>6, <5>1 DEF NewsInv, Current
      <4> QED
        BY <4>1, <4>2
    <3>3. CASE call[c].phase = "failed"
      <4>1. screen # "search"
        BY <1>1, <2>1, <3>1 DEF SerialInv, Serial
      <4>2. shown' = shown
        BY <2>2, <3>3, <4>1
      <4> QED
        BY <1>1, <1>3, <2>6, <4>2 DEF NewsInv, Current
    <3> QED
      BY <3>2, <3>3
  <2> QED
    BY <2>1, <2>3, <2>4, <2>5, <2>6 DEF NewsInv
<1>9. AnswersInv'
  BY <1>1, <1>7, <1>8 DEF AnswersInv
<1> QED
  BY <1>6, <1>9 DEF BroughtInv

\* The handlers that load, and the answers to writes that do.
LEMMA LoadKeeps ==
    ASSUME PanelInv, BroughtInv, NEW c \in Calls, NEW flag, LoadIn(c, flag, chosen'),
           UNCHANGED <<screen, reset>>, screen \notin Serial
    PROVE  BroughtInv'
BY LoadNews DEF BroughtInv, PanelInv

LEMMA RefreshKeeps ==
    ASSUME PanelInv, BroughtInv, NEW flag, Refresh(flag), screen \in Serial => flag = MountFlag(screen)
    PROVE  BroughtInv'
<1>1. /\ flag \notin busy /\ UNCHANGED <<screen, chosen, reset>> /\ CallsInv
  BY DEF Refresh, ListPanelVars, PanelInv
<1>2. PICK c \in Calls : LoadIn(c, flag, chosen')
  BY <1>1 DEF Refresh
<1>3. screen \in Serial => Loading = {}
  <2> SUFFICES ASSUME screen \in Serial, NEW d \in Loading  PROVE FALSE
    OBVIOUS
  <2>1. d \in Calls /\ call[d].flag = MountFlag(screen)
    <3>1. MountLoads(screen) > 0
      BY DEF MountLoads, Serial
    <3> QED
      BY <3>1 DEF BroughtInv, AnswersInv, SerialInv, Loading
  <2>2. MountFlag(screen) \in GatedFlags
    BY DEF GatedFlags, Flags, MountFlag, Serial
  <2> QED
    BY <1>1, <2>1, <2>2 DEF CallsInv
<1> QED
  BY <1>1, <1>2, <1>3, LoadNews DEF BroughtInv, PanelInv

LEMMA LoadNowKeeps == ASSUME PanelInv, BroughtInv, LoadNow, screen \notin Serial  PROVE BroughtInv'
BY LoadKeeps DEF LoadNow, ListPanelVars

LEMMA DoneBrings ==
    ASSUME PanelInv, BroughtInv, NEW c \in Calls, CameraDone(c) \/ UserDone(c) \/ EntryDone(c) \/ RuleDone(c)
    PROVE  BroughtInv'
<1>1. UNCHANGED <<screen, chosen, reset>> /\ screen \notin Serial
  BY DEF CameraDone, UserDone, EntryDone, RuleDone, Serial
<1>2. PICK flag : Reload(c, flag)
  BY DEF CameraDone, UserDone, EntryDone, RuleDone
<1> QED
  BY <1>1, <1>2, LoadKeeps DEF Reload

\* The panels.
LEMMA ListBrings == ASSUME PanelInv, BroughtInv, ListScreen  PROVE BroughtInv'
<1>1. CallsInv
  BY DEF PanelInv
<1>2. CASE AuditHeader \/ RulesHeader \/ AIStatusHeader \/ IntegrationsHeader \/ RecentVehicles
  BY <1>2, RefreshKeeps DEF AuditHeader, RulesHeader, AIStatusHeader, IntegrationsHeader, RecentVehicles,
     MountFlag, Serial
<1>3. CASE SetChoice /\ screen \notin Serial
  BY <1>3, LoadNowKeeps DEF SetChoice, FilterLoads
<1>4. CASE AuditFilters
  BY <1>3, <1>4, LoadNowKeeps DEF AuditFilters, SearchActor, Serial
<1>5. CASE ReportsHeader
  BY <1>3, <1>5, RefreshKeeps DEF ReportsHeader, Serial
<1>6. CASE SearchVehicle \/ VahanTab \/ SarthiTab \/ EgujcopTab \/ CorrelateTab
  BY <1>1, <1>6, LookupQuiet, QuietKeeps DEF SearchVehicle, VahanTab, SarthiTab, EgujcopTab, CorrelateTab
<1> QED
  BY <1>2, <1>4, <1>5, <1>6 DEF ListScreen

LEMMA FormBrings == ASSUME PanelInv, BroughtInv, FormScreen  PROVE BroughtInv'
<1>1. CallsInv
  BY DEF PanelInv
<1>2. (\/ BulkUpload \/ OnvifScan \/ OnvifOnboard \/ SubmitCamera
       \/ SaveUser \/ SubmitEntry \/ CreateRule \/ Delete) => BroughtInv'
  BY <1>1, SendsQuiet, QuietKeeps
<1>3. (\/ AddCamera \/ CancelCamera \/ OpenCreate \/ HideForm \/ ToggleRuleForm
       \/ ToggleDevice \/ SelectAll \/ AddEntry
       \/ \E r \in Records : EditCamera(r) \/ OpenEdit(r)) => BroughtInv'
  BY EditsQuiet, QuietKeeps
<1>4. CASE CameraBar \/ OnvifPanel \/ CameraTable \/ CameraForm
  BY <1>2, <1>3, <1>4 DEF CameraBar, OnvifPanel, CameraTable, CameraForm
<1>5. CASE UserHeader
  <2>1. CASE RefreshUsers /\ screen = "users"
    BY <2>1, LoadKeeps DEF RefreshUsers, Serial
  <2> QED
    BY <1>3, <1>5, <2>1 DEF UserHeader
<1>6. CASE UserTable \/ UserForm \/ ResetModal
  BY <1>2, <1>3, <1>6, OpenResetKeeps, ResetPasswordKeeps, CloseResetKeeps DEF UserTable, UserForm, ResetModal
<1>7. CASE AddEntry \/ EntryForm \/ EntryTable \/ RulesTab
  BY <1>2, <1>3, <1>7 DEF EntryForm, EntryTable, RulesTab
<1> QED
  BY <1>4, <1>5, <1>6, <1>7 DEF FormScreen

\* The loads of a mount: at most two, of which one is the newest.
LEMMA NewestOfMount ==
    ASSUME NEW slots \in SUBSET Calls, Cardinality(slots) \in {1, 2}
    PROVE  \E m \in slots : \A d \in slots : d <= m
<1>1. IsFiniteSet(slots) /\ Calls \subseteq Int
  <2>1. IsFiniteSet(Calls)
    BY FS_Interval, PanelAssumption DEF Calls
  <2>2. IsFiniteSet(slots)
    BY <2>1, FS_Subset
  <2>3. Calls \subseteq Int
    BY PanelAssumption DEF Calls
  <2> QED
    BY <2>2, <2>3
<1>2. CASE Cardinality(slots) = 1
  <2>1. PICK x : slots = {x}
    BY <1>1, <1>2, FS_Singleton
  <2> QED
    BY <1>1, <2>1
<1>3. CASE Cardinality(slots) = 2
  <2>1. PICK x : x \in slots
    BY <1>1, <1>3, FS_EmptySet
  <2>2. IsFiniteSet(slots \ {x}) /\ Cardinality(slots \ {x}) = 1
    BY <1>1, <1>3, <2>1, FS_RemoveElement
  <2>3. PICK y : slots \ {x} = {y}
    BY <2>2, FS_Singleton
  <2>4. slots = {x, y} /\ x \in Int /\ y \in Int
    BY <1>1, <2>1, <2>3
  <2>5. x <= y \/ y <= x
    BY <2>4
  <2> QED
    BY <2>4, <2>5
<1> QED
  BY <1>2, <1>3

LEMMA MountBrings == ASSUME PanelInv, NEW s \in Screens, Mount(s)  PROVE BroughtInv'
<1> DEFINE slots == MountSlots(s)
           r(c) == [op |-> "load", from |-> s, flag |-> MountFlag(s), id |-> None, of |-> 1,
                    newest |-> \A d \in slots : d <= c, phase |-> "sent"]
<1>1. /\ screen' = s /\ chosen' = 1 /\ reset'.of = None /\ behind' = {}
      /\ call' = [c \in Calls |-> IF c \in slots THEN r(c) ELSE Left[c]]
      /\ Cardinality(slots) = MountLoads(s) /\ slots \subseteq Calls
  BY DEF Mount, FreshPanel, NoReset, MountSlots
<1>2. \A c \in slots : /\ call'[c].op = "load" /\ call'[c].of = 1 /\ call'[c].phase = "sent"
                        /\ call'[c].flag = MountFlag(s)
                        /\ call'[c].newest = \A d \in slots : d <= c
  BY <1>1
<1>3. \A c \in Calls \ slots : call'[c] = Left[c]
  BY <1>1
<1>4. \A c \in Calls : Left[c].op # "load"
  <2> SUFFICES ASSUME NEW c \in Calls  PROVE Left[c].op # "load"
    OBVIOUS
  <2>1. CASE Left[c] = NoCall
    BY <2>1 DEF NoCall
  <2>2. CASE call[c].phase = "left" \/ (call[c].op \in Writes /\ call[c].phase = "sent")
    <3>1. call[c] \in CallSet /\ call[c].op \in Writes
      BY <2>2 DEF PanelInv, CallsInv, Shapes, WellFormed
    <3>2. Left[c] = [call[c] EXCEPT !.phase = "left", !.flag = NoFlag, !.id = None, !.of = None]
      BY <2>2 DEF Left
    <3>3. Left[c].op = call[c].op
      BY <3>1, <3>2 DEF CallSet
    <3> QED
      BY <3>1, <3>3 DEF Writes
  <2> QED
    BY <2>1, <2>2 DEF Left
<1> HIDE DEF slots
<1>5. Loading' = slots
  BY <1>1, <1>2, <1>3, <1>4 DEF Loading
<1>6. PasswordInv'
  BY <1>1 DEF PasswordInv, PasswordIsHis
<1>7. ASSUME MountLoads(s) > 0
      PROVE  ChosenInv' /\ NewsInv' /\ (s \in Serial => SerialInv')
  <2>1. MountLoads(s) \in {1, 2}
    BY <1>7 DEF MountLoads
  <2>2. PICK m \in slots : \A d \in slots : d <= m
    BY <1>1, <2>1, NewestOfMount
  <2>3. slots \subseteq Int
    BY <1>1, PanelAssumption DEF Calls
  <2>4. ASSUME NEW c \in slots, \A d \in slots : d <= c  PROVE c = m
    <3>1. c <= m /\ m <= c /\ c \in Int /\ m \in Int
      BY <2>2, <2>3, <2>4
    <3> QED
      BY <3>1
  <2>5. Coming' = {m}
    BY <1>2, <1>5, <2>2, <2>4 DEF Coming
  <2>6. ChosenInv' /\ NewsInv'
    BY <1>1, <1>2, <2>2, <2>5 DEF ChosenInv, NewsInv
  <2>7. ASSUME s \in Serial  PROVE SerialInv'
    <3>1. Cardinality(slots) = 1
      BY <1>1, <2>7 DEF MountLoads, Serial
    <3>2. IsFiniteSet(slots)
      <4>1. IsFiniteSet(Calls)
        BY FS_Interval, PanelAssumption DEF Calls
      <4> QED
        BY <1>1, <4>1, FS_Subset
    <3>3. slots = {m}
      BY <2>2, <3>1, <3>2, FS_Singleton
    <3> QED
      BY <1>1, <1>2, <1>5, <2>2, <3>3 DEF SerialInv
  <2> QED
    BY <2>6, <2>7
<1> QED
  BY <1>1, <1>6, <1>7 DEF BroughtInv, AnswersInv

\* Signing out leaves no list and no modal.
LEMMA EmptyBrings ==
    ASSUME screen' = "map", FreshPanel, call' = [c \in Calls |-> NoCall]
    PROVE  BroughtInv'
<1>1. reset'.of = None
  BY DEF FreshPanel, NoReset
<1>2. ~(MountLoads(screen') > 0)
  BY DEF MountLoads
<1> QED
  BY <1>1, <1>2 DEF BroughtInv, AnswersInv, PasswordInv, PasswordIsHis

LEMMA InitBrings == Init => BroughtInv
<1> SUFFICES ASSUME Init  PROVE BroughtInv
  OBVIOUS
<1>1. reset.of = None /\ screen = "map"
  BY DEF Init, NoReset
<1>2. ~(MountLoads(screen) > 0)
  BY <1>1 DEF MountLoads
<1> QED
  BY <1>1, <1>2 DEF BroughtInv, AnswersInv, PasswordInv, PasswordIsHis

LEMMA RefuseBrings == ASSUME PanelInv, BroughtInv, NEW c \in Calls, Refuse(c), ~Intercept  PROVE BroughtInv'
<1>1. /\ call[c].phase \in {"sent", "left"} /\ CallsInv
      /\ call' = [call EXCEPT ![c].phase = "failed"]
      /\ UNCHANGED <<screen, chosen, shown, behind, reset>>
  BY DEF Refuse, PanelInv
<1>2. c \notin Pending
  BY <1>1 DEF Pending
<1> QED
  BY <1>1, <1>2, ServedQuiet, QuietKeeps DEF Phases

LEMMA BroughtNext == PanelInv /\ BroughtInv /\ [Next]_vars => BroughtInv'
<1> SUFFICES ASSUME PanelInv, BroughtInv, [Next]_vars  PROVE BroughtInv'
  OBVIOUS
<1>1. CASE UNCHANGED <<screen, panelVars>>
  BY <1>1, StillQuiet, QuietKeeps DEF panelVars, Quiet
<1>2. CASE SignOut
  BY <1>2, EmptyBrings DEF SignOut
<1>3. CASE Intercept
  BY <1>1, <1>2, <1>3 DEF Intercept
<1>4. ASSUME NEW c \in Calls, Refuse(c)  PROVE BroughtInv'
  BY <1>3, <1>4, RefuseBrings
<1>5. ASSUME NEW s \in Screens, Navigate(s)  PROVE BroughtInv'
  BY <1>5, MountBrings DEF Navigate
<1>6. CASE PanelStep
  <2>1. CASE FormScreen \/ ListScreen
    BY <2>1, FormBrings, ListBrings
  <2>2. ASSUME NEW c \in Calls, ServeRead(c) \/ ServeWrite(c) \/ ServeLeft(c)  PROVE BroughtInv'
    BY <2>2, ServeReadQuiet, QuietKeeps, ServeWriteKeeps, ServeLeftKeeps DEF PanelInv
  <2>3. ASSUME NEW c \in Calls, AnswerLoad(c) \/ AnswerRefused(c) \/ LookupAnswered(c)  PROVE BroughtInv'
    BY <2>3, AnswerLoadKeeps, AnswerRefusedKeeps, ResultQuiet, QuietKeeps DEF PanelInv
  <2>4. ASSUME NEW c \in Calls, FormAnswer(c)  PROVE BroughtInv'
    BY <2>4, DoneBrings, ResultQuiet, QuietKeeps, ResetAnsweredKeeps DEF FormAnswer, PanelInv
  <2> QED
    BY <1>6, <2>1, <2>2, <2>3, <2>4 DEF PanelStep
<1>7. CASE SubmitLogin \/ LoginAnswered \/ Expires \/ CamerasLoaded
  BY <1>1, <1>7 DEF SubmitLogin, LoginAnswered, Expires, CamerasLoaded, OnWall
<1>8. CASE ChangeGrid \/ TurnPage \/ ExpandTile \/ BackToWall
  BY <1>1, <1>8 DEF ChangeGrid, TurnPage, ExpandTile, BackToWall, OnWall
<1>9. CASE Logout \/ PollRefused
  BY <1>2, <1>3, <1>9 DEF Logout, PollRefused
<1>10. CASE QuickSearch
  BY <1>5, <1>10 DEF QuickSearch, Screens
<1>11. CASE UNCHANGED vars
  BY <1>1, <1>11 DEF vars
<1> QED
  BY <1>4, <1>5, <1>6, <1>7, <1>8, <1>9, <1>10, <1>11 DEF Next

LEMMA BroughtInvariance == Spec => []BroughtInv
BY PanelInvariance, InitBrings, BroughtNext, PTL DEF Spec

\* A password that was asked for in the modal of the user it is shown for is that
\* user's, with any number of users and of resets in flight, in whatever order their
\* answers come.  It says nothing of a password that was on its way when the modal
\* was opened for another user: the modal shows that one as this other user's.
THEOREM PasswordIsHisAlways == Spec => []PasswordIsHis
<1>1. BroughtInv => PasswordIsHis
  BY DEF BroughtInv, PasswordInv
<1> QED
  BY <1>1, BroughtInvariance, PTL

-----------------------------------------------------------------------------
(***************************************************************************)
(* Types of what the other invariants leave open.                          *)
(***************************************************************************)

ShownInv ==
    /\ shown \in [of : Choices \cup {None}, fresh : BOOLEAN]
    /\ behind \subseteq {"unanswered", "overtaken"}

SessionInv ==
    /\ session \in {"in", "expired", "none"}
    /\ role \in Roles
    /\ login \in {"idle", "sent"}

LEMMA SessionInvariance == Spec => []SessionInv
<1>1. Init => SessionInv
  BY DEF Init, SessionInv, Roles
<1>2. SessionInv /\ [Next]_vars => SessionInv'
  <2> SUFFICES ASSUME SessionInv, [Next]_vars  PROVE SessionInv'
    OBVIOUS
  <2>1. CASE SignOut \/ Intercept
    BY <2>1 DEF SignOut, Intercept, SessionInv
  <2>2. CASE UNCHANGED sessionVars
    BY <2>2 DEF sessionVars, SessionInv
  <2>3. CASE SubmitLogin \/ LoginAnswered \/ Expires
    BY <2>3 DEF SubmitLogin, LoginAnswered, Expires, SessionInv
  <2>4. CASE Logout \/ PollRefused
    BY <2>1, <2>4 DEF Logout, PollRefused
  <2>5. CASE CamerasLoaded \/ ChangeGrid \/ TurnPage \/ ExpandTile \/ BackToWall
    BY <2>2, <2>5 DEF CamerasLoaded, ChangeGrid, TurnPage, ExpandTile, BackToWall, OnWall
  <2>6. ASSUME NEW s, Navigate(s)  PROVE SessionInv'
    BY <2>2, <2>6 DEF Navigate
  <2>7. ASSUME NEW c, Refuse(c)  PROVE SessionInv'
    BY <2>1, <2>2, <2>7 DEF Refuse
  <2>8. CASE PanelStep \/ UNCHANGED vars
    BY <2>2, <2>8 DEF PanelStep, vars
  <2> QED
    BY <2>3, <2>4, <2>5, <2>6, <2>7, <2>8 DEF Next, QuickSearch
<1> QED
  BY <1>1, <1>2, PTL DEF Spec

\* The steps that leave the list alone, or note that it is behind.
Unlisting == shown' = shown /\ behind' \subseteq {"unanswered", "overtaken"}

LEMMA UnlistingKeeps == ShownInv /\ Unlisting => ShownInv'
BY DEF ShownInv, Unlisting

LEMMA LoadUnlists == ASSUME NEW c, NEW flag, NEW of, LoadIn(c, flag, of), shown' = shown  PROVE Unlisting
BY DEF LoadIn, Unlisting

LEMMA ListUnlists == ASSUME ShownInv, ListScreen  PROVE Unlisting
<1>1. ASSUME NEW flag, Refresh(flag)  PROVE Unlisting
  BY <1>1, LoadUnlists DEF Refresh
<1>2. ASSUME LoadNow  PROVE Unlisting
  BY <1>2, LoadUnlists DEF LoadNow
<1>3. ASSUME NEW flag, Lookup(flag)  PROVE Unlisting
  BY <1>3 DEF Lookup, ShownInv, Unlisting
<1>4. CASE AuditHeader \/ RulesHeader \/ AIStatusHeader \/ IntegrationsHeader \/ RecentVehicles
  BY <1>1, <1>4 DEF AuditHeader, RulesHeader, AIStatusHeader, IntegrationsHeader, RecentVehicles
<1>5. CASE AuditFilters \/ ReportsHeader
  BY <1>1, <1>2, <1>5 DEF AuditFilters, ReportsHeader, SearchActor, SetChoice, FilterLoads
<1>6. CASE SearchVehicle \/ VahanTab \/ SarthiTab \/ EgujcopTab \/ CorrelateTab
  BY <1>3, <1>6 DEF SearchVehicle, VahanTab, SarthiTab, EgujcopTab, CorrelateTab
<1> QED
  BY <1>4, <1>5, <1>6 DEF ListScreen

LEMMA FormUnlists == ASSUME ShownInv, FormScreen  PROVE Unlisting
<1>1. behind \subseteq {"unanswered", "overtaken"}
  BY DEF ShownInv
<1>2. CASE BulkUpload \/ OnvifScan \/ ToggleDevice \/ SelectAll \/ OnvifOnboard \/ AddCamera
  BY <1>1, <1>2 DEF BulkUpload, OnvifScan, ToggleDevice, SelectAll, OnvifOnboard, AddCamera, Unlisting
<1>3. CASE Delete \/ SubmitCamera \/ CancelCamera \/ \E r \in Records : EditCamera(r)
  BY <1>1, <1>3 DEF Delete, SubmitCamera, CancelCamera, EditCamera, Unlisting
<1>4. CASE RefreshUsers
  BY <1>4, LoadUnlists DEF RefreshUsers
<1>5. CASE OpenCreate \/ SaveUser \/ HideForm \/ \E u \in Records : OpenEdit(u) \/ OpenReset(u)
  BY <1>1, <1>5 DEF OpenCreate, SaveUser, HideForm, OpenEdit, OpenReset, Unlisting
<1>6. CASE ResetPassword \/ CloseReset \/ AddEntry \/ SubmitEntry \/ ToggleRuleForm \/ CreateRule
  BY <1>1, <1>6 DEF ResetPassword, CloseReset, AddEntry, SubmitEntry, ToggleRuleForm, CreateRule, Unlisting
<1>7. CASE CameraBar \/ OnvifPanel \/ CameraTable \/ CameraForm
  BY <1>2, <1>3, <1>7 DEF CameraBar, OnvifPanel, CameraTable, CameraForm
<1>8. CASE UserHeader \/ UserTable \/ UserForm \/ ResetModal
  BY <1>3, <1>4, <1>5, <1>6, <1>8 DEF UserHeader, UserTable, UserForm, ResetModal
<1>9. CASE AddEntry \/ EntryForm \/ EntryTable \/ RulesTab
  BY <1>3, <1>5, <1>6, <1>9 DEF EntryForm, EntryTable, RulesTab
<1> QED
  BY <1>7, <1>8, <1>9 DEF FormScreen

LEMMA ShownFreshens ==
    ShownInv => [shown EXCEPT !.fresh = FALSE] \in [of : Choices \cup {None}, fresh : BOOLEAN]
BY DEF ShownInv

LEMMA ServiceShows ==
    ASSUME ShownInv, NEW c \in Calls, ServeRead(c) \/ ServeWrite(c) \/ ServeLeft(c)
    PROVE  ShownInv'
<1>1. CASE ServeRead(c) \/ ServeWrite(c)
  BY <1>1, ShownFreshens DEF ServeRead, ServeWrite, ShownInv
<1>2. CASE ServeLeft(c)
  BY <1>2, ShownFreshens DEF ServeLeft, ShownInv
<1> QED
  BY <1>1, <1>2

LEMMA AnswersShow ==
    ASSUME ShownInv, CallsInv, NEW c \in Calls,
           AnswerLoad(c) \/ AnswerRefused(c) \/ FormAnswer(c) \/ LookupAnswered(c)
    PROVE  ShownInv'
<1>1. CASE AnswerLoad(c)
  <2>1. call[c] \in CallSet /\ call[c].of \in Choices
    BY <1>1 DEF AnswerLoad, CallsInv, Shapes, WellFormed
  <2>2. shown' \in [of : Choices \cup {None}, fresh : BOOLEAN]
    <3>1. Unloaded \in [of : Choices \cup {None}, fresh : BOOLEAN]
      BY DEF Unloaded
    <3>2. [of |-> call[c].of, fresh |-> call[c].phase = "ok"] \in [of : Choices \cup {None}, fresh : BOOLEAN]
      BY <2>1
    <3>3. \/ shown' = [of |-> call[c].of, fresh |-> call[c].phase = "ok"]
          \/ shown' = Unloaded
          \/ shown' = shown
      BY <1>1 DEF AnswerLoad
    <3> QED
      BY <3>1, <3>2, <3>3 DEF ShownInv
  <2>3. behind' \in {behind, behind \cup {"unanswered"}, behind \cup {"overtaken"}}
    BY <1>1 DEF AnswerLoad
  <2> QED
    BY <2>2, <2>3 DEF ShownInv
<1>2. CASE AnswerRefused(c)
  <2>1. shown' = shown /\ behind' \in {behind, behind \cup {"unanswered"}}
    BY <1>2 DEF AnswerRefused
  <2> QED
    BY <2>1, UnlistingKeeps DEF Unlisting, ShownInv
<1>3. CASE LookupAnswered(c) \/ ScanAnswered(c) \/ ResetAnswered(c)
  BY <1>3 DEF LookupAnswered, ScanAnswered, ResetAnswered, ShownInv
<1>4. CASE CameraDone(c) \/ UserDone(c) \/ EntryDone(c) \/ RuleDone(c)
  <2>1. PICK flag : Reload(c, flag) /\ shown' = shown
    BY <1>4 DEF CameraDone, UserDone, EntryDone, RuleDone
  <2> QED
    BY <2>1, LoadUnlists, UnlistingKeeps DEF Reload
<1> QED
  BY <1>1, <1>2, <1>3, <1>4 DEF FormAnswer

LEMMA ShownInvariance == Spec => []ShownInv
<1>1. Init => ShownInv
  <2> SUFFICES ASSUME Init  PROVE ShownInv
    OBVIOUS
  <2>1. shown = [of |-> None, fresh |-> FALSE] /\ behind = {}
    BY DEF Init, Unloaded
  <2> QED
    BY <2>1 DEF ShownInv
<1>2. ShownInv /\ PanelInv /\ [Next]_vars => ShownInv'
  <2> SUFFICES ASSUME ShownInv, PanelInv, [Next]_vars  PROVE ShownInv'
    OBVIOUS
  <2>1. CASE UNCHANGED panelVars
    BY <2>1 DEF panelVars, ShownInv
  <2>2. ASSUME FreshPanel, behind' = {}  PROVE ShownInv'
    BY <2>2 DEF FreshPanel, Unloaded, ShownInv
  <2>3. CASE SignOut \/ Intercept
    BY <2>1, <2>2, <2>3 DEF SignOut, Intercept
  <2>4. CASE SubmitLogin \/ LoginAnswered \/ Expires
    BY <2>1, <2>4 DEF SubmitLogin, LoginAnswered, Expires
  <2>5. CASE CamerasLoaded \/ ChangeGrid \/ TurnPage \/ ExpandTile \/ BackToWall
    BY <2>1, <2>5 DEF CamerasLoaded, ChangeGrid, TurnPage, ExpandTile, BackToWall, OnWall
  <2>6. CASE Logout \/ PollRefused
    BY <2>3, <2>6 DEF Logout, PollRefused
  <2>7. ASSUME NEW s, Navigate(s)  PROVE ShownInv'
    BY <2>2, <2>7 DEF Navigate, Mount
  <2>8. ASSUME NEW c, Refuse(c)  PROVE ShownInv'
    BY <2>3, <2>8 DEF Refuse, ShownInv
  <2>9. CASE PanelStep
    BY <2>9, ListUnlists, FormUnlists, UnlistingKeeps, ServiceShows, AnswersShow DEF PanelStep, PanelInv
  <2>10. CASE UNCHANGED vars
    BY <2>1, <2>10 DEF vars
  <2> QED
    BY <2>4, <2>5, <2>6, <2>7, <2>8, <2>9, <2>10 DEF Next, QuickSearch
<1> QED
  BY <1>1, <1>2, PanelInvariance, PTL DEF Spec

\* Once nothing is in flight and every answer that the list wanted has come, it is
\* that of the filter chosen last and has all that the operator changed, in whatever
\* order loads and writes were sent, took effect and were answered.  Of the panels
\* whose loads do not wait for each other it says so unless an older load's answer,
\* of another filter or read before a write, was the last to come; of the vehicle
\* search, the AI status and the integrations without exception.
THEOREM ListIsCurrentAlways == Spec => []ListIsCurrent
<1>1. BroughtInv /\ ShownInv => ListIsCurrent
  <2> SUFFICES ASSUME BroughtInv, ShownInv, \A c \in Calls : call[c].op = "none",
                      "unanswered" \notin behind, MountLoads(screen) > 0
               PROVE  Current \/ ("overtaken" \in behind /\ screen \notin Serial)
    BY DEF ListIsCurrent, Current
  <2>1. Coming = {} /\ Pending = {}
    BY DEF Coming, Loading, Pending, Writes
  <2>2. behind # {} \/ Current
    BY <2>1 DEF BroughtInv, AnswersInv, NewsInv
  <2>3. behind # {} => "overtaken" \in behind
    BY DEF ShownInv
  <2>4. screen \in Serial => "overtaken" \notin behind
    BY DEF BroughtInv, AnswersInv, SerialInv
  <2> QED
    BY <2>2, <2>3, <2>4
<1> QED
  BY <1>1, BroughtInvariance, ShownInvariance, PTL

\* The client's variables keep their types; in particular the list shown is always
\* one that was loaded for some filter, or none.
THEOREM TypeCorrectness == Spec => []TypeOK
<1>1. PanelInv /\ ShownInv => PanelsTypeOK
  <2>1. CallsInv => call \in [Calls -> CallSet]
    BY DEF CallsInv, Shapes
  <2> QED
    BY <2>1 DEF PanelInv, CallsInv, FormInv, ScanInv, ChoiceInv, ShownInv, PanelsTypeOK
<1>2. WallInv => cameras \in 0..Online /\ wall \in [cols : Grids, page : Nat, expanded : 0..Online]
  BY ClientAssumption DEF WallInv
<1>3. PanelInv /\ ShownInv /\ SessionInv /\ WallInv => TypeOK
  BY <1>1, <1>2 DEF SessionInv, TypeOK
<1> QED
  BY <1>3, PanelInvariance, ShownInvariance, SessionInvariance, WallInvariance, PTL

=============================================================================
