------------------------------ MODULE StatusSync ------------------------------
(***************************************************************************)
(* backend/registry/status_sync.py: the registry service's background task *)
(* that sets each camera online or offline as the MediaMTX configuration   *)
(* lists its path or not, while the registry's requests and the alert      *)
(* worker change the same rows.  One action per await of _sync_once.       *)
(***************************************************************************)
EXTENDS CameraRegistry

CONSTANTS
    MaxConfigs,     \* bound on the changes of the configuration
    MaxFaults       \* bound on the rounds that fail

ASSUME SyncAssumption == MaxConfigs \in Nat /\ MaxFaults \in Nat

VARIABLES
    config,         \* paths listed in mediamtx.yml; none when it is not mounted
    pc,
    changes,        \* camera -> status still to be written, "none" if no change
    written,        \* camera -> status written in the open transaction, or "none"
    conf,           \* the configuration this round has read
    edited,         \* ghost: cameras changed by requests since the round's SELECT
    configs, faults

syncVars == <<pc, changes, written, conf, edited>>
vars == <<registryVars, config, syncVars, configs, faults>>

NoChange == [c \in Cameras |-> "none"]

Writes == [Cameras -> {"online", "offline", "none"}]

TypeOK ==
    /\ RegistryTypeOK
    /\ config \subseteq Paths
    /\ pc \in {"sleep", "select", "update"}
    /\ changes \in Writes
    /\ written \in Writes
    /\ conf \subseteq Paths
    /\ edited \subseteq Cameras
    /\ configs \in Nat
    /\ faults \in Nat

Init ==
    /\ RegistryInit
    /\ config \in SUBSET Paths
    /\ pc = "sleep"
    /\ changes = NoChange
    /\ written = NoChange
    /\ conf = {}
    /\ edited = {}
    /\ configs = 0
    /\ faults = 0

-----------------------------------------------------------------------------

EndRound ==
    /\ pc' = "sleep"
    /\ changes' = NoChange
    /\ written' = NoChange
    /\ conf' = {}
    /\ edited' = {}

\* _configured_paths; a round without paths ends here.
ReadConfig ==
    /\ pc = "sleep"
    /\ config # {}
    /\ pc' = "select"
    /\ conf' = config
    /\ UNCHANGED <<registryVars, config, changes, written, edited, configs, faults>>

\* What the configuration says of a camera tied to the relay.
Target(c) == IF path[c] \in conf THEN "online" ELSE "offline"

Held(c) == status[c] = "maintenance"

\* Mutants of Change: an admin's hold is overlooked; cameras of no relay path
\* are included; only rows that are online or offline are looked at.
ChangeHeld(c) ==
    IF c \in Present /\ path[c] # NoPath /\ status[c] # Target(c) THEN Target(c) ELSE "none"

ChangeUntied(c) ==
    IF c \in Present /\ ~Held(c) /\ status[c] # Target(c) THEN Target(c) ELSE "none"

ChangeSkipsUnknown(c) ==
    IF path[c] # NoPath /\ status[c] \in {"online", "offline"} \ {Target(c)}
    THEN Target(c)
    ELSE "none"

Change(c) ==
    IF c \in Present /\ ~Held(c) /\ path[c] # NoPath /\ status[c] # Target(c)
    THEN Target(c)
    ELSE "none"

Planned == [c \in Cameras |-> Change(c)]

\* The SELECT, in a transaction of its own, and the list of changes.
SelectRows ==
    /\ pc = "select"
    /\ IF Planned = NoChange
       THEN EndRound
       ELSE /\ pc' = "update"
            /\ changes' = Planned
            /\ edited' = {}
            /\ UNCHANGED <<written, conf>>
    /\ UNCHANGED <<registryVars, config, configs, faults>>

\* Mutant of Locked: the UPDATEs that set cameras offline are left out.
LockedOnline == {c \in Cameras : written[c] = "online"}

\* Cameras whose row the open transaction has locked.
Locked == {c \in Cameras : written[c] # "none"}

\* One UPDATE ... WHERE id = c; it finds no row when c was deleted.
UpdateRow(c) ==
    /\ pc = "update"
    /\ changes[c] # "none"
    /\ changes' = [changes EXCEPT ![c] = "none"]
    /\ written' = IF c \in Present THEN [written EXCEPT ![c] = changes[c]] ELSE written
    /\ UNCHANGED <<registryVars, config, pc, conf, edited, configs, faults>>

Applied == [c \in Cameras |-> IF c \in Locked THEN written[c] ELSE status[c]]

Commit ==
    /\ pc = "update"
    /\ changes = NoChange
    /\ status' = Applied
    /\ EndRound
    /\ UNCHANGED <<path, fresh, edits, config, configs, faults>>

\* Postgres fails, or the service restarts: run_status_sync logs and sleeps.
\* A COMMIT whose reply is lost is a Commit.
FailRound ==
    /\ pc # "sleep"
    /\ faults < MaxFaults
    /\ faults' = faults + 1
    /\ EndRound
    /\ UNCHANGED <<registryVars, config, configs>>

Reconciler == \/ ReadConfig \/ SelectRows \/ Commit
              \/ \E c \in Cameras : UpdateRow(c)

\* Requests wait for the rows the reconciler has locked.
Operators ==
    /\ RegistryNext(Locked)
    /\ edited' = IF pc = "update"
                 THEN edited \cup {c \in Cameras : status'[c] # status[c] \/ path'[c] # path[c]}
                 ELSE edited
    /\ UNCHANGED <<config, pc, changes, written, conf, configs, faults>>

ChangeConfig ==
    /\ configs < MaxConfigs
    /\ configs' = configs + 1
    /\ config' \in SUBSET Paths \ {config}
    /\ UNCHANGED <<registryVars, syncVars, faults>>

Next == Reconciler \/ FailRound \/ Operators \/ ChangeConfig

\* The task sleeps 45 s and always runs another round.
Spec == Init /\ [][Next]_vars /\ WF_vars(Reconciler)

-----------------------------------------------------------------------------

\* What the open transaction has written, and has still to write, is what the
\* configuration it read says of rows that no request has changed since the
\* SELECT; it touches no held and no untied camera except behind such a request.
RoundIsCurrent ==
    /\ pc # "update" => changes = NoChange /\ written = NoChange
    /\ \A c \in Cameras \ edited : \A w \in {changes[c], written[c]} :
          w # "none" => c \in Present /\ ~Held(c) /\ path[c] # NoPath /\ w = Target(c)

\* A hold that was set before the round's SELECT, a camera that is not tied to
\* the relay, and a row that already shows what the configuration says keep
\* their status: the reconciler only writes rows it has read otherwise, unless
\* a request changed them since.
HoldsKept ==
    [][\A c \in Cameras \ edited :
          status'[c] # status[c] /\ edits' = edits =>
              ~Held(c) /\ path[c] # NoPath /\ status'[c] = Target(c)]_vars

\* A round that commits leaves every camera it had read as the configuration
\* said, but for held, untied and meanwhile changed ones.
RoundComplete ==
    [][pc = "update" /\ pc' = "sleep" /\ faults' = faults =>
          \A c \in Present \ edited :
              ~Held(c) /\ path[c] # NoPath => status'[c] = Target(c)]_vars

\* Once requests, configuration changes and failures end, every camera that is
\* tied to the relay and not held comes to show what the configuration says,
\* unless the configuration lists nothing at all.
Settled(c) ==
    c \in Present /\ ~Held(c) /\ path[c] # NoPath =>
        status[c] = (IF path[c] \in config THEN "online" ELSE "offline")

Converges == <>[](config = {} \/ \A c \in Cameras : Settled(c))

-----------------------------------------------------------------------------
\* registry/status_sync.py:14 and :75: admin holds are respected, never
\* overwritten by the reconciler.
HoldsRespected ==
    [][\A c \in Cameras : Held(c) /\ status'[c] # status[c] => edits' # edits]_vars

=============================================================================
