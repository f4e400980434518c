---------------------------- MODULE CameraRegistry ----------------------------
(***************************************************************************)
(* The table `cameras` and the requests of backend/registry/router.py that *)
(* change it, each one transaction; and the alert worker's provisioning of *)
(* cameras it meets in events.  Of a row, the status and the MediaMTX path *)
(* in its rtsp_url are kept.                                               *)
(***************************************************************************)
EXTENDS Integers, FiniteSets, Sequences

CONSTANTS
    Cameras,        \* ids that rows may get
    Paths,          \* path names of the MediaMTX relay
    NoPath,         \* an rtsp_url that is missing or names no relay path
    MaxRows,        \* bound on the rows of an uploaded file, or devices of a list
    MaxEdits        \* bound on the requests of a behaviour

ASSUME RegistryAssumption ==
    /\ NoPath \notin Paths
    /\ MaxRows \in Nat
    /\ MaxEdits \in Nat

VARIABLES
    status,         \* camera -> its status, "absent" when it has no row
    path,           \* camera -> the relay path its rtsp_url names
    fresh,          \* ids that gen_random_uuid() has not returned yet
    edits           \* number of requests so far

registryVars == <<status, path, fresh, edits>>

Statuses == {"online", "offline", "degraded", "unknown", "maintenance"}

RegistryTypeOK ==
    /\ status \in [Cameras -> Statuses \cup {"absent"}]
    /\ path \in [Cameras -> Paths \cup {NoPath}]
    /\ fresh \subseteq Cameras
    /\ edits \in Nat

\* Any rows an installation may hold before the reconciler first runs.
RegistryInit ==
    /\ fresh \in SUBSET Cameras
    /\ status \in [Cameras -> {"absent", "online", "maintenance"}]
    /\ \A c \in Cameras : status[c] = "absent" <=> c \in fresh
    /\ path \in [Cameras -> Paths \cup {NoPath}]
    /\ \A c \in fresh : path[c] = NoPath
    /\ edits = 0

Present == {c \in Cameras : status[c] # "absent"}

Request == edits < MaxEdits /\ edits' = edits + 1

\* INSERTs one row for each member of rows; `urls` gives their paths.
Insert(rows, urls, st) ==
    /\ rows \subseteq fresh
    /\ fresh' = fresh \ rows
    /\ status' = [c \in Cameras |-> IF c \in rows THEN st ELSE status[c]]
    /\ path' = [c \in Cameras |-> IF c \in rows THEN urls[c] ELSE path[c]]

\* create_camera: the status is the column's default.
CreateCamera ==
    /\ Request
    /\ \E c \in fresh, p \in Paths \cup {NoPath} :
          Insert({c}, [x \in {c} |-> p], "unknown")

\* update_camera: any of the row's fields, an admin's hold among them.
UpdateCamera(c) ==
    /\ c \in Present
    /\ Request
    /\ \E s \in Statuses, p \in Paths \cup {NoPath} :
          /\ status' = [status EXCEPT ![c] = s]
          /\ path' = [path EXCEPT ![c] = p]
    /\ UNCHANGED fresh

DeleteCamera(c) ==
    /\ c \in Present
    /\ Request
    /\ status' = [status EXCEPT ![c] = "absent"]
    /\ path' = [path EXCEPT ![c] = NoPath]
    /\ UNCHANGED fresh

(***************************************************************************)
(* bulk_upload and onboard_discovered_cameras run one transaction for all  *)
(* the rows of the file, or devices of the list.  A row with a value that  *)
(* cannot be converted fails before it reaches Postgres, and a device      *)
(* without an ip is skipped; a row that Postgres refuses (too long a name, *)
(* a camera_type, a department_id) aborts the transaction, after           *)
(* which every later row fails as well and the COMMIT rolls back without   *)
(* an error.                                                               *)
(***************************************************************************)
RowKinds == {"good", "inconvertible", "refused"}

DeviceKinds == RowKinds \cup {"without_ip"}

Lists(kinds) == UNION {[1..n -> kinds] : n \in 0..MaxRows}

Aborted(list, i) == \E k \in 1..(i - 1) : list[k] = "refused"

\* The rows whose INSERT succeeds, which the handlers count as created.
Created(list) == {i \in DOMAIN list : list[i] = "good" /\ ~Aborted(list, i)}

\* The rows that are there after the COMMIT.
Inserted(list) == IF Aborted(list, Len(list) + 1) THEN {} ELSE Created(list)

InsertList(list) ==
    \E rows \in SUBSET fresh :
        /\ Cardinality(rows) = Cardinality(Inserted(list))
        /\ \E urls \in [rows -> Paths \cup {NoPath}] : Insert(rows, urls, "unknown")

\* bulk_upload; the counts and errors it answers with are left out.
BulkUpload == Request /\ \E file \in Lists(RowKinds) : InsertList(file)

\* onboard_discovered_cameras; the count it answers with is left out, which is
\* that of the INSERTs that succeeded, whatever the COMMIT made of them.
OnboardDiscovered == Request /\ \E devices \in Lists(DeviceKinds) : InsertList(devices)

\* get_or_create_camera_info of the alert worker: events may still name a
\* camera that was deleted, or come from one that was never registered.
ProvisionCamera(c) ==
    /\ c \notin Present
    /\ Request
    /\ fresh' = fresh \ {c}
    /\ status' = [status EXCEPT ![c] = "online"]
    /\ UNCHANGED path

\* What a request may do to the rows that no other transaction holds.
RegistryNext(held) ==
    \/ CreateCamera
    \/ BulkUpload
    \/ OnboardDiscovered
    \/ \E c \in Cameras \ held :
          \/ UpdateCamera(c)
          \/ DeleteCamera(c)
    \/ \E c \in Cameras : ProvisionCamera(c)

=============================================================================
