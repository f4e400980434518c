--------------------------- MODULE StatusSyncProofs ---------------------------
(***************************************************************************)
(* Proofs about StatusSync: for any number of cameras, paths, requests and *)
(* failures, the reconciler writes what the configuration it read says of  *)
(* rows that nobody has changed since it read them, and leaves none out.   *)
(***************************************************************************)
EXTENDS StatusSync, TLAPS

USE DEF vars, registryVars, syncVars, Writes, NoChange

\* The part of the type invariant the round's variables need.
RoundTypeOK ==
    /\ pc \in {"sleep", "select", "update"}
    /\ changes \in Writes
    /\ written \in Writes
    /\ edited \subseteq Cameras
    /\ edits \in Nat

RoundInv == RoundTypeOK /\ RoundIsCurrent

LEMMA PlannedIsWrites == Planned \in Writes
BY DEF Planned, Change, Target

\* Requests and changes of the configuration leave the round's own plan alone,
\* and every row they change is recorded as edited.
LEMMA OperatorsEdit ==
    ASSUME Operators, pc = "update"
    PROVE  /\ UNCHANGED <<pc, changes, written, conf>>
           /\ edited \subseteq edited'
           /\ \A c \in Cameras \ edited' : status'[c] = status[c] /\ path'[c] = path[c]
BY DEF Operators

LEMMA OperatorsCount ==
    ASSUME Operators
    PROVE  edits' = edits + 1
BY DEF Operators, RegistryNext, CreateCamera, BulkUpload, OnboardDiscovered, UpdateCamera, DeleteCamera,
       ProvisionCamera, Request

LEMMA NextRoundTypeOK == RoundTypeOK /\ [Next]_vars => RoundTypeOK'
<1> SUFFICES ASSUME RoundTypeOK, [Next]_vars
             PROVE  RoundTypeOK'
    OBVIOUS
<1> USE DEF RoundTypeOK
<1>1. CASE ReadConfig \/ SelectRows \/ Commit
    BY <1>1, PlannedIsWrites DEF ReadConfig, SelectRows, Commit, EndRound
<1>2. ASSUME NEW c \in Cameras, UpdateRow(c)
      PROVE  RoundTypeOK'
    BY <1>2 DEF UpdateRow
<1>3. CASE FailRound
    BY <1>3 DEF FailRound, EndRound
<1>4. CASE Operators
    BY <1>4, OperatorsCount DEF Operators
<1>5. CASE ChangeConfig \/ UNCHANGED vars
    BY <1>5 DEF ChangeConfig
<1> QED
    BY <1>1, <1>2, <1>3, <1>4, <1>5 DEF Next, Reconciler

LEMMA NextRoundIsCurrent == RoundInv /\ [Next]_vars => RoundIsCurrent'
<1> SUFFICES ASSUME RoundInv, [Next]_vars
             PROVE  RoundIsCurrent'
    OBVIOUS
<1> USE DEF RoundInv, RoundTypeOK
<1>1. CASE ReadConfig
    BY <1>1 DEF ReadConfig, RoundIsCurrent
<1>2. CASE SelectRows
    <2>1. CASE Planned = NoChange
        BY <1>2, <2>1 DEF SelectRows, EndRound, RoundIsCurrent
    <2>2. CASE Planned # NoChange
        <3>1. /\ pc' = "update" /\ changes' = Planned /\ written' = NoChange
              /\ UNCHANGED <<status, path, conf>>
            BY <1>2, <2>2 DEF SelectRows, RoundIsCurrent
        <3>2. \A c \in Cameras : Planned[c] # "none" =>
                  c \in Present /\ ~Held(c) /\ path[c] # NoPath /\ Planned[c] = Target(c)
            BY DEF Planned, Change
        <3> QED
            BY <3>1, <3>2 DEF RoundIsCurrent, Present, Held, Target
    <2> QED
        BY <2>1, <2>2
<1>3. ASSUME NEW c \in Cameras, UpdateRow(c)
      PROVE  RoundIsCurrent'
    BY <1>3 DEF UpdateRow, RoundIsCurrent, Present, Held, Target
<1>4. CASE Commit \/ FailRound
    BY <1>4 DEF Commit, FailRound, EndRound, RoundIsCurrent
<1>5. CASE Operators /\ pc = "update"
    BY <1>5, OperatorsEdit DEF RoundIsCurrent, Present, Held, Target
<1>6. CASE Operators /\ pc # "update"
    BY <1>6 DEF Operators, RoundIsCurrent
<1>7. CASE ChangeConfig \/ UNCHANGED vars
    BY <1>7 DEF ChangeConfig, RoundIsCurrent, Present, Held, Target
<1> QED
    BY <1>1, <1>2, <1>3, <1>4, <1>5, <1>6, <1>7 DEF Next, Reconciler

LEMMA RoundInvariance == Spec => []RoundInv
<1>1. Init => RoundInv
    BY DEF Init, RegistryInit, RoundInv, RoundTypeOK, RoundIsCurrent
<1>2. RoundInv /\ [Next]_vars => RoundInv'
    BY NextRoundTypeOK, NextRoundIsCurrent DEF RoundInv
<1> QED
    BY <1>1, <1>2, PTL DEF Spec

\* What the reconciler has written, or has still to write, is what the
\* configuration says of rows that no request has changed since it read them.
THEOREM RoundIsCurrentAlways == Spec => []RoundIsCurrent
<1>1. RoundInv => RoundIsCurrent
    BY DEF RoundInv
<1> QED
    BY <1>1, RoundInvariance, PTL

\* An admin's hold, or a camera of no relay path, that the round's SELECT has
\* seen is never overwritten.
THEOREM HoldsKeptAlways == Spec => HoldsKept
<1> DEFINE Kept == \A c \in Cameras \ edited :
                       status'[c] # status[c] /\ edits' = edits =>
                           ~Held(c) /\ path[c] # NoPath /\ status'[c] = Target(c)
<1>1. RoundInv /\ [Next]_vars => [Kept]_vars
    <2> SUFFICES ASSUME RoundInv, [Next]_vars, NEW c \in Cameras \ edited,
                        status'[c] # status[c], edits' = edits
                 PROVE  ~Held(c) /\ path[c] # NoPath /\ status'[c] = Target(c)
        OBVIOUS
    <2>1. CASE Commit
        BY <2>1 DEF Commit, Applied, Locked, RoundInv, RoundIsCurrent
    <2>2. CASE Operators
        BY <2>2, OperatorsCount DEF RoundInv, RoundTypeOK
    <2>3. CASE ReadConfig \/ SelectRows \/ FailRound \/ ChangeConfig \/ UNCHANGED vars
        BY <2>3 DEF ReadConfig, SelectRows, FailRound, ChangeConfig
    <2>4. CASE \E k \in Cameras : UpdateRow(k)
        BY <2>4 DEF UpdateRow
    <2> QED
        BY <2>1, <2>2, <2>3, <2>4 DEF Next, Reconciler
<1> QED
    BY <1>1, RoundInvariance, PTL DEF Spec, HoldsKept

-----------------------------------------------------------------------------
(***************************************************************************)
(* A round leaves nothing out: until it commits, a row that it has read and*)
(* that does not show what the configuration says is planned or written.   *)
(***************************************************************************)

PlanInv ==
    /\ faults \in Nat
    /\ pc = "update" =>
          \A c \in Present \ edited :
              ~Held(c) /\ path[c] # NoPath =>
                  changes[c] # "none" \/ written[c] # "none" \/ status[c] = Target(c)

LEMMA NextPlanInv == RoundInv /\ PlanInv /\ [Next]_vars => PlanInv'
<1> SUFFICES ASSUME RoundInv, PlanInv, [Next]_vars
             PROVE  PlanInv'
    OBVIOUS
<1> USE DEF RoundInv, RoundTypeOK
<1>0. faults' \in Nat
    BY DEF PlanInv, Next, Reconciler, ReadConfig, SelectRows, UpdateRow, Commit, FailRound,
           Operators, ChangeConfig
<1>1. CASE ReadConfig \/ Commit \/ FailRound
    BY <1>0, <1>1 DEF ReadConfig, Commit, FailRound, EndRound, PlanInv
<1>2. CASE SelectRows
    <2>1. CASE Planned = NoChange
        BY <1>0, <1>2, <2>1 DEF SelectRows, EndRound, PlanInv
    <2>2. CASE Planned # NoChange
        <3>1. changes' = Planned /\ UNCHANGED <<status, path, conf>>
            BY <1>2, <2>2 DEF SelectRows
        <3>2. \A c \in Present : ~Held(c) /\ path[c] # NoPath =>
                  Planned[c] # "none" \/ status[c] = Target(c)
            BY DEF Planned, Change, Target, Present
        <3> QED
            BY <1>0, <3>1, <3>2 DEF PlanInv, Present, Held, Target
    <2> QED
        BY <2>1, <2>2
<1>3. ASSUME NEW c \in Cameras, UpdateRow(c)
      PROVE  PlanInv'
    BY <1>0, <1>3 DEF UpdateRow, PlanInv, Present, Held, Target
<1>4. CASE Operators /\ pc = "update"
    BY <1>0, <1>4, OperatorsEdit DEF PlanInv, Present, Held, Target
<1>5. CASE Operators /\ pc # "update"
    BY <1>0, <1>5 DEF Operators, PlanInv
<1>6. CASE ChangeConfig \/ UNCHANGED vars
    BY <1>0, <1>6 DEF ChangeConfig, PlanInv, Present, Held, Target
<1> QED
    BY <1>1, <1>2, <1>3, <1>4, <1>5, <1>6 DEF Next, Reconciler

\* A round that commits leaves every camera it has read as the configuration
\* says, but for held, untied and meanwhile changed ones.
THEOREM RoundCompleteAlways == Spec => RoundComplete
<1> DEFINE Complete == pc = "update" /\ pc' = "sleep" /\ faults' = faults =>
                           \A c \in Present \ edited :
                               ~Held(c) /\ path[c] # NoPath => status'[c] = Target(c)
<1>1. Init => PlanInv
    BY DEF Init, PlanInv
<1>2. RoundInv /\ PlanInv /\ [Next]_vars => [Complete]_vars
    <2> SUFFICES ASSUME RoundInv, PlanInv, [Next]_vars,
                        pc = "update", pc' = "sleep", faults' = faults,
                        NEW c \in Present \ edited, ~Held(c), path[c] # NoPath
                 PROVE  status'[c] = Target(c)
        OBVIOUS
    <2>1. CASE Commit
        <3>1. c \in Cameras /\ changes[c] = "none"
            BY <2>1 DEF Commit, Present
        <3>2. written[c] # "none" \/ status[c] = Target(c)
            BY <3>1 DEF PlanInv
        <3>3. written[c] # "none" => written[c] = Target(c)
            BY <3>1 DEF RoundInv, RoundIsCurrent
        <3> QED
            BY <2>1, <3>1, <3>2, <3>3 DEF Commit, Applied, Locked
    <2>2. ~FailRound
        BY DEF FailRound, PlanInv
    <2>3. ~Operators /\ ~ChangeConfig /\ ~ReadConfig /\ ~SelectRows
        BY DEF Operators, ChangeConfig, ReadConfig, SelectRows, syncVars
    <2>4. \A k \in Cameras : ~UpdateRow(k)
        BY DEF UpdateRow
    <2> QED
        BY <2>1, <2>2, <2>3, <2>4 DEF Next, Reconciler
<1> QED
    BY <1>1, <1>2, NextPlanInv, RoundInvariance, PTL DEF Spec, RoundComplete

=============================================================================
