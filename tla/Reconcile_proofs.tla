---------------------------- MODULE Reconcile_proofs ----------------------------
(***************************************************************************)
(* What Reconcile guarantees of any set of devices, of any families, with  *)
(* any renderings and any faults.                                          *)
(*                                                                         *)
(* Two inductive invariants carry the proofs.  Structure says where a      *)
(* device's turn can be when the cycle is in a given phase, what it has    *)
(* read by then, and how many of its sessions can be open.  History, which *)
(* rests on it, says what the turn's verdict and the records still mean    *)
(* when they are written: between the comparison and the record the rest   *)
(* of the fabric, the operator and the rollback timers go on.              *)
(***************************************************************************)
EXTENDS Reconcile, TLAPS

(***************************************************************************)
(* The records.                                                            *)
(***************************************************************************)

\* What record() writes is a record.
LEMMA RecordedType ==
    ASSUME NEW r \in Store!DeploymentState, NEW o \in Store!Outcome
    PROVE  Store!Recorded(r, o) \in Store!DeploymentState
BY DEF Store!DeploymentState, Store!Outcome, Store!Recorded, Store!Status

\* What run_cycle passes to record() is an outcome.
LEMMA JudgedType ==
    ASSUME TypeOK, NEW d \in Device
    PROVE  Judged(d) \in Store!Outcome
BY DEF TypeOK, Judged, Failure, InSync, Replaced, Store!Outcome, Store!Status,
       Store!LastChecksum, Verdict, Artifact

\* What the operator leaves is a record.
LEMMA OperatedType ==
    ASSUME NEW r \in Store!DeploymentState, NEW s \in BOOLEAN
    PROVE  Store!Operated(r, s) \in Store!DeploymentState
BY DEF Store!DeploymentState, Store!Operated, Store!Status

\* What sweep_orphans leaves of a deleted record is the record of nothing.
LEMMA NoRecordType == Store!NoRecord \in Store!DeploymentState
BY DEF Store!DeploymentState, Store!NoRecord, Store!Status

-----------------------------------------------------------------------------
(***************************************************************************)
(* The first invariant: the structure of a cycle.                          *)
(***************************************************************************)

\* Turns are taken in their phase, by runnable devices, and leave a verdict.
Turns ==
    /\ phase \in {"idle", "sweep"} => suspended = {}
    /\ phase = "gate" => todo \subseteq due
    /\ phase = "record" => \A d \in todo : outcome[d] # "none"
    /\ phase # "idle" => \A d \in targets : read[d] # None
    /\ dry => phase \notin {"sweep", "orphans"}
    /\ \A d \in Device :
          /\ pc[d] # "idle" => d \in Runnable /\ phase \notin {"idle", "sweep", "gate"}
          /\ outcome[d] # "none" <=> pc[d] = "done"
          /\ Busy(d) => phase = IF d \in Firewall THEN "firewall" ELSE "fabric"
          /\ phase = "fabric" /\ d \in Firewall => pc[d] = "idle"

\* What is about to be pushed is not empty; what a device runs, or rolls back
\* to, keeps its lifeline.
Contents ==
    \A d \in Device :
        /\ pc[d] \in {"open", "close", "push", "confirm"} => config[d] \notin {None, Empty}
        /\ running[d] \notin {Empty, Unsafe}
        /\ undo[d] \notin {Empty, Unsafe}

\* This cycle has swept the device, or given it up, and has not compared it yet.
Unopened(d) ==
    \/ pc[d] \in {"read", "open"}
    \/ /\ pc[d] = "idle" /\ d \in targets
       /\ phase \notin {"idle", "sweep"} \/ (phase = "sweep" /\ d \notin todo)

Sessions ==
    \A d \in Device :
        /\ sessions[d] <= unswept[d] + 1
        /\ Unopened(d) => sessions[d] <= unswept[d]
        /\ pc[d] = "close" /\ KeepsSessions(d) => sessions[d] > 0

Structure == TypeOK /\ Turns /\ Contents /\ Sessions

(***************************************************************************)
(* The second invariant: what verdicts and records mean.                   *)
(***************************************************************************)

\* Nothing was written before the verdict "same", and it still holds, unless
\* somebody else changed the device.
Earned ==
    \A d \in Device :
        /\ pc[d] \notin {"confirm", "done"} => ~written[d]
        /\ pc[d] = "close" => disturbed[d] \/ running[d] = found[d]
        /\ outcome[d] = "same" => ~written[d] /\ (disturbed[d] \/ running[d] = config[d])

\* Only what differs is pushed or reported to differ.
Differing ==
    \A d \in Device :
        pc[d] \in {"push", "confirm"} \/ outcome[d] \in {"differs", "pushed"}
            => found[d] # config[d]

\* A record's checksum names the configuration its outcome was about, but for
\* an artifact re-rendered between discovery and download.
Known ==
    \A d \in Device :
        record[d].checksum # None /\ ~raced[d] => known[d] = record[d].checksum

DryRun == dry => \A d \in Device : pc[d] \notin {"push", "confirm"} /\ ~written[d]

\* A target suspended all along is found suspended when its turn to be asked comes.
HeldBack ==
    phase # "idle" /\ ~dry =>
        \A d \in targets : held[d] =>
            /\ record[d].suspend
            /\ d \notin Runnable \/ phase = "sweep" \/ (phase = "gate" /\ d \in todo)

\* Every runnable device has a verdict when the records are written, and a
\* verdict "same" has its record once it is no longer to be done.
Clean ==
    /\ phase \in {"firewall", "record", "orphans", "report"} => Finished(Runnable \ Firewall)
    /\ phase \in {"record", "orphans", "report"} => Finished(Runnable \intersect Firewall)
    /\ phase \in {"record", "orphans", "report"} /\ ~dry =>
          \A d \in Device : outcome[d] = "same" /\ (phase = "record" => d \notin todo)
              => record[d].status = "in_sync"

History == Earned /\ Differing /\ Known /\ DryRun /\ HeldBack /\ Clean /\ RecordCoherent

USE FamiliesAssumption, ContentAssumption, OfferAssumption, BoundAssumption
DEF Artifact, Config, Structure, TypeOK, Turns, Contents, Sessions, Unopened, Busy,
    Runnable, KeepsSessions, Phase, TurnStep, Verdict, world, cycle, turn, ghost

\* A device's turn, the phase of its cycle, what it has read and the sessions it
\* holds are always in step (run_cycle, reconcile_host).
THEOREM StructureHolds == Spec => []Structure
<1>1. Init => Structure
  <2> SUFFICES ASSUME Init PROVE Structure
    OBVIOUS
  <2>1. record \in [Device -> Store!DeploymentState]
    BY NoRecordType DEF Init
  <2>2. sessions \in [Device -> Nat] /\ unswept \in [Device -> Nat]
    BY DEF Init
  <2>3. TypeOK
    BY <2>1, <2>2 DEF Init
  <2> QED BY <2>3 DEF Init
<1>2. Structure /\ [Next]_vars => Structure'
  <2> SUFFICES ASSUME Structure, [Next]_vars PROVE Structure'
    OBVIOUS
  <2>1. ASSUME NEW isDry \in BOOLEAN, NEW notDue \in SUBSET Firewall, StartCycle(isDry, notDue)
         PROVE  Structure'
    <3>1. held' \in [Device -> BOOLEAN]
      BY <2>1 DEF StartCycle, Store!IsSuspended, Store!DeploymentState
    <3>2. targets' \subseteq Device /\ due' \subseteq targets' /\ todo' \subseteq targets'
      BY <2>1 DEF StartCycle, DueAmong
    <3>3. unswept' \in [Device -> Nat]
      BY <2>1 DEF StartCycle
    <3>4. suspended' \subseteq due'
      <4>1. suspended = {}
        BY <2>1 DEF StartCycle
      <4> QED BY <4>1, <2>1 DEF StartCycle
    <3>5. TypeOK'
      BY <2>1, <3>1, <3>2, <3>3, <3>4 DEF StartCycle
    <3> QED BY <2>1, <3>5 DEF StartCycle, DueAmong
  <2>2. ASSUME SweepDone PROVE Structure'
    BY <2>2 DEF SweepDone
  <2>3. ASSUME RunFabric PROVE Structure'
    BY <2>3 DEF RunFabric, RunOver
  <2>4. ASSUME RunFirewalls PROVE Structure'
    BY <2>4 DEF RunFirewalls, RunOver, Finished
  <2>5. ASSUME CollectOutcomes PROVE Structure'
    BY <2>5 DEF CollectOutcomes, Finished
  <2>6. ASSUME RecordsWritten PROVE Structure'
    BY <2>6 DEF RecordsWritten
  <2>7. ASSUME SweepOrphans PROVE Structure'
    <3>1. record' \in [Device -> Store!DeploymentState]
      BY <2>7, NoRecordType DEF SweepOrphans, Store!WithoutOrphans
    <3> QED BY <2>7, <3>1 DEF SweepOrphans
  <2>8. ASSUME Return PROVE Structure'
    BY <2>8 DEF Return, CycleForgotten
  <2>9. ASSUME Stop PROVE Structure'
    BY <2>9 DEF Stop, CycleForgotten
  <2>10. ASSUME CalmDown PROVE Structure'
    BY <2>10 DEF CalmDown
  <2>11. ASSUME NEW d \in Device, SweepTarget(d)
         PROVE  Structure'
    BY <2>11 DEF SweepTarget, InOrder
  <2>12. ASSUME NEW d \in Device, SweepFails(d)
         PROVE  Structure'
    BY <2>12 DEF SweepFails, InOrder, Faulty
  <2>13. ASSUME NEW d \in Device, ReadSuspension(d)
         PROVE  Structure'
    BY <2>13 DEF ReadSuspension
  <2>14. ASSUME NEW d \in Device, ReadIntent(d)
         PROVE  Structure'
    BY <2>14 DEF ReadIntent, RestUnchanged
  <2>15. ASSUME NEW d \in Device, ReadRefused(d)
         PROVE  Structure'
    BY <2>15 DEF ReadRefused, Ends, RestUnchanged
  <2>16. ASSUME NEW d \in Device, OpenCandidate(d)
         PROVE  Structure'
    BY <2>16 DEF OpenCandidate, RestUnchanged
  <2>17. ASSUME NEW d \in Device, OpenFails(d)
         PROVE  Structure'
    BY <2>17 DEF OpenFails, Ends, RestUnchanged
  <2>18. ASSUME NEW d \in Device, CloseCandidate(d)
         PROVE  Structure'
    BY <2>18 DEF CloseCandidate, Ends, RestUnchanged
  <2>19. ASSUME NEW d \in Device, CloseFails(d)
         PROVE  Structure'
    BY <2>19 DEF CloseFails, Ends, Faulty, RestUnchanged
  <2>20. ASSUME NEW d \in Device, Push(d)
         PROVE  Structure'
    BY <2>20 DEF Push, Ends, Commits, RestUnchanged
  <2>21. ASSUME NEW d \in Device, PushAnswerLost(d)
         PROVE  Structure'
    BY <2>21 DEF PushAnswerLost, Ends, Commits, RestUnchanged
  <2>22. ASSUME NEW d \in Device, PushRefused(d)
         PROVE  Structure'
    BY <2>22 DEF PushRefused, Ends, RestUnchanged
  <2>23. ASSUME NEW d \in Device, Confirm(d)
         PROVE  Structure'
    BY <2>23 DEF Confirm, Ends, RestUnchanged
  <2>24. ASSUME NEW d \in Device, ConfirmFails(d)
         PROVE  Structure'
    BY <2>24 DEF ConfirmFails, Ends, RestUnchanged
  <2>25. ASSUME NEW d \in Device, RecordOutcome(d)
         PROVE  Structure'
    <3>1. record' \in [Device -> Store!DeploymentState]
      <4>1. Store!Recorded(record[d], Judged(d)) \in Store!DeploymentState
        BY JudgedType, RecordedType
      <4> QED BY <2>25, <4>1 DEF RecordOutcome
    <3>2. raced' \in [Device -> BOOLEAN]
      <4>1. (config[d] # read[d]) \in BOOLEAN
        OBVIOUS
      <4>2. raced' = raced \/ raced' = [raced EXCEPT ![d] = (config[d] # read[d])]
        BY <2>25 DEF RecordOutcome
      <4> QED BY <4>1, <4>2
    <3> QED BY <2>25, <3>1, <3>2 DEF RecordOutcome
  <2>26. ASSUME NEW d \in Device, Rerender(d)
         PROVE  Structure'
    BY <2>26 DEF Rerender
  <2>27. ASSUME NEW d \in Device, EditByHand(d)
         PROVE  Structure'
    BY <2>27 DEF EditByHand
  <2>28. ASSUME NEW d \in Device, RollbackFires(d)
         PROVE  Structure'
    BY <2>28 DEF RollbackFires
  <2>29. ASSUME NEW d \in Device, Operate(d)
         PROVE  Structure'
    <3>1. record' \in [Device -> Store!DeploymentState]
      <4>1. Store!Operated(record[d], ~record[d].suspend) \in Store!DeploymentState
        BY OperatedType
      <4> QED BY <2>29, <4>1 DEF Operate
    <3> QED BY <2>29, <3>1 DEF Operate
  <2>30. ASSUME UNCHANGED vars PROVE Structure'
    BY <2>30 DEF vars
  <2> HIDE DEF Structure, History
  <2> QED
    BY <2>1, <2>2, <2>3, <2>4, <2>5, <2>6, <2>7, <2>8, <2>9, <2>10, <2>11,
       <2>12, <2>13, <2>14, <2>15, <2>16, <2>17, <2>18, <2>19, <2>20, <2>21,
       <2>22, <2>23, <2>24, <2>25, <2>26, <2>27, <2>28, <2>29, <2>30 DEF Next,
       Proceed, Environment, TakeTurn
<1> QED BY <1>1, <1>2, PTL DEF Spec

\* Every variable keeps to its type.
THEOREM TypeCorrect == Spec => []TypeOK
<1>1. Structure => TypeOK
  BY DEF Structure
<1> QED BY <1>1, StructureHolds, PTL

\* No rendering, no crash and no fault leaves a device running an empty
\* configuration or one without its lifeline.
THEOREM NothingErased == Spec => []NeverErased
<1>1. Structure => NeverErased
  BY DEF NeverErased
<1> QED BY <1>1, StructureHolds, PTL

\* Firewalls are handled when every turn on the fabric has ended.
THEOREM FirewallsAlone == Spec => []FirewallsRunAlone
<1>1. Structure => FirewallsRunAlone
  BY DEF FirewallsRunAlone
<1> QED BY <1>1, StructureHolds, PTL

\* Abandoned sessions are bounded by the cycles without a successful sweep.
THEOREM SessionsBounded == Spec => []StrandedSessionsBounded
<1>1. Structure => StrandedSessionsBounded
  BY DEF StrandedSessionsBounded
<1> QED BY <1>1, StructureHolds, PTL

-----------------------------------------------------------------------------
USE DEF History, Earned, Differing, Known, DryRun, HeldBack, Clean, RecordCoherent, Finished

\* Verdicts and records keep their meaning while everybody else goes on.
THEOREM HistoryHolds == Spec => []History
<1>1. Init => History
  BY DEF Init, Store!NoRecord
<1>2. Structure /\ Structure' /\ History /\ [Next]_vars => History'
  <2> SUFFICES ASSUME Structure, Structure', History, [Next]_vars PROVE History'
    OBVIOUS
  <2>1. ASSUME NEW isDry \in BOOLEAN, NEW notDue \in SUBSET Firewall, StartCycle(isDry, notDue)
         PROVE  History'
    BY <2>1 DEF StartCycle, DueAmong, Store!IsSuspended
  <2>2. ASSUME SweepDone PROVE History'
    BY <2>2 DEF SweepDone
  <2>3. ASSUME RunFabric PROVE History'
    BY <2>3 DEF RunFabric, RunOver
  <2>4. ASSUME RunFirewalls PROVE History'
    BY <2>4 DEF RunFirewalls, RunOver
  <2>5. ASSUME CollectOutcomes PROVE History'
    BY <2>5 DEF CollectOutcomes
  <2>6. ASSUME RecordsWritten PROVE History'
    BY <2>6 DEF RecordsWritten
  <2>7. ASSUME SweepOrphans PROVE History'
    BY <2>7 DEF SweepOrphans, Store!WithoutOrphans, Store!NoRecord
  <2>8. ASSUME Return PROVE History'
    BY <2>8 DEF Return, CycleForgotten
  <2>9. ASSUME Stop PROVE History'
    BY <2>9 DEF Stop, CycleForgotten
  <2>10. ASSUME CalmDown PROVE History'
    BY <2>10 DEF CalmDown
  <2>11. ASSUME NEW d \in Device, SweepTarget(d)
         PROVE  History'
    BY <2>11 DEF SweepTarget, InOrder
  <2>12. ASSUME NEW d \in Device, SweepFails(d)
         PROVE  History'
    BY <2>12 DEF SweepFails, InOrder, Faulty
  <2>13. ASSUME NEW d \in Device, ReadSuspension(d)
         PROVE  History'
    BY <2>13 DEF ReadSuspension, Store!IsSuspended
  <2>14. ASSUME NEW d \in Device, ReadIntent(d)
         PROVE  History'
    BY <2>14 DEF ReadIntent, RestUnchanged
  <2>15. ASSUME NEW d \in Device, ReadRefused(d)
         PROVE  History'
    BY <2>15 DEF ReadRefused, Ends, RestUnchanged
  <2>16. ASSUME NEW d \in Device, OpenCandidate(d)
         PROVE  History'
    BY <2>16 DEF OpenCandidate, RestUnchanged
  <2>17. ASSUME NEW d \in Device, OpenFails(d)
         PROVE  History'
    BY <2>17 DEF OpenFails, Ends, RestUnchanged
  <2>18. ASSUME NEW d \in Device, CloseCandidate(d)
         PROVE  History'
    BY <2>18 DEF CloseCandidate, Ends, RestUnchanged
  <2>19. ASSUME NEW d \in Device, CloseFails(d)
         PROVE  History'
    BY <2>19 DEF CloseFails, Ends, Faulty, RestUnchanged
  <2>20. ASSUME NEW d \in Device, Push(d)
         PROVE  History'
    BY <2>20 DEF Push, Ends, Commits, RestUnchanged
  <2>21. ASSUME NEW d \in Device, PushAnswerLost(d)
         PROVE  History'
    BY <2>21 DEF PushAnswerLost, Ends, Commits, RestUnchanged
  <2>22. ASSUME NEW d \in Device, PushRefused(d)
         PROVE  History'
    BY <2>22 DEF PushRefused, Ends, RestUnchanged
  <2>23. ASSUME NEW d \in Device, Confirm(d)
         PROVE  History'
    BY <2>23 DEF Confirm, Ends, RestUnchanged
  <2>24. ASSUME NEW d \in Device, ConfirmFails(d)
         PROVE  History'
    BY <2>24 DEF ConfirmFails, Ends, RestUnchanged
  <2>25. ASSUME NEW d \in Device, RecordOutcome(d)
         PROVE  History'
    <3>1. dry \/ record' = [record EXCEPT ![d] = Store!Recorded(@, Judged(d))]
      BY <2>25 DEF RecordOutcome
    <3>2. RecordCoherent'
      BY <2>25, <3>1, JudgedType
         DEF RecordOutcome, Judged, Failure, InSync, Replaced, Store!LastChecksum,
                 Store!Recorded, Store!DeploymentState, Store!Status
    <3>3. Earned' /\ Differing' /\ DryRun'
      BY <2>25 DEF RecordOutcome
    <3>4. Known'
      BY <2>25, <3>1
         DEF RecordOutcome, Judged, Failure, InSync, Replaced, Store!LastChecksum,
                 Store!Recorded, Store!DeploymentState, Store!Status
    <3>5. HeldBack'
      BY <2>25, <3>1 DEF RecordOutcome, Store!Recorded
    <3>6. ~dry /\ outcome[d] = "same" => record'[d].status = "in_sync"
      BY <3>1 DEF Judged, InSync, Store!Recorded
    <3>7. \A e \in Device : e # d => record'[e] = record[e]
      BY <2>25, <3>1 DEF RecordOutcome
    <3>8. Clean'
      BY <2>25, <3>6, <3>7 DEF RecordOutcome
    <3> QED BY <3>2, <3>3, <3>4, <3>5, <3>8
  <2>26. ASSUME NEW d \in Device, Rerender(d)
         PROVE  History'
    BY <2>26 DEF Rerender
  <2>27. ASSUME NEW d \in Device, EditByHand(d)
         PROVE  History'
    <3>1. pc[d] # "idle" => phase # "idle"
      OBVIOUS
    <3>2. phase # "idle" => disturbed' = [disturbed EXCEPT ![d] = TRUE]
      <4>1. CASE phase # "idle"
        <5>1. (phase # "idle") = TRUE
          BY <4>1
        <5> QED BY <2>27, <5>1 DEF EditByHand
      <4> QED BY <4>1
    <3>3. \A e \in Device : e # d => disturbed'[e] = disturbed[e] /\ running'[e] = running[e]
      BY <2>27 DEF EditByHand
    <3>4. pc[d] # "idle" => disturbed'[d]
      BY <3>1, <3>2
    <3>5. Earned'
      BY <2>27, <3>3, <3>4 DEF EditByHand
    <3> QED BY <2>27, <3>5 DEF EditByHand
  <2>28. ASSUME NEW d \in Device, RollbackFires(d)
         PROVE  History'
    <3>1. pc[d] # "idle" => phase # "idle"
      OBVIOUS
    <3>2. phase # "idle" => disturbed' = [disturbed EXCEPT ![d] = TRUE]
      <4>1. CASE phase # "idle"
        <5>1. (phase # "idle") = TRUE
          BY <4>1
        <5> QED BY <2>28, <5>1 DEF RollbackFires
      <4> QED BY <4>1
    <3>3. \A e \in Device : e # d => disturbed'[e] = disturbed[e] /\ running'[e] = running[e]
      BY <2>28 DEF RollbackFires
    <3>4. pc[d] # "idle" => disturbed'[d]
      BY <3>1, <3>2
    <3>5. Earned'
      BY <2>28, <3>3, <3>4 DEF RollbackFires
    <3> QED BY <2>28, <3>5 DEF RollbackFires
  <2>29. ASSUME NEW d \in Device, Operate(d)
         PROVE  History'
    BY <2>29 DEF Operate, Store!Operated, Store!DeploymentState, Store!Status
  <2>30. ASSUME UNCHANGED vars PROVE History'
    BY <2>30 DEF vars
  <2> HIDE DEF Structure, History
  <2> QED
    BY <2>1, <2>2, <2>3, <2>4, <2>5, <2>6, <2>7, <2>8, <2>9, <2>10, <2>11,
       <2>12, <2>13, <2>14, <2>15, <2>16, <2>17, <2>18, <2>19, <2>20, <2>21,
       <2>22, <2>23, <2>24, <2>25, <2>26, <2>27, <2>28, <2>29, <2>30 DEF Next,
       Proceed, Environment, TakeTurn
<1> HIDE DEF Structure, History
<1> QED BY <1>1, <1>2, StructureHolds, PTL DEF Spec

\* Records are coherent after any outcomes and operator edits.
THEOREM RecordsCoherent == Spec => []RecordCoherent
<1>1. History => RecordCoherent
  OBVIOUS
<1> QED BY <1>1, HistoryHolds, PTL

\* A clean report of a full cycle means that every target that is not suspended
\* has been confirmed by it.
THEOREM CleanReports == Spec => []CleanReportMeansConfirmed
<1>1. Structure /\ History => CleanReportMeansConfirmed
  BY DEF CleanReportMeansConfirmed
<1> QED BY <1>1, StructureHolds, HistoryHolds, PTL

\* Nothing but a comparison that found no difference, in a turn that wrote
\* nothing, confirms a device.
THEOREM ConfirmationsEarned == Spec => ConfirmationIsEarned
<1>1. Structure /\ History /\ [Next]_vars =>
        [\A d \in Device :
            RecordOutcome(d) /\ ~dry /\ record'[d].confirmed
                => ~written[d] /\ (disturbed[d] \/ running[d] = config[d])]_vars
  <2> SUFFICES ASSUME Structure, History, NEW d \in Device, RecordOutcome(d), ~dry,
                      record'[d].confirmed
               PROVE  ~written[d] /\ (disturbed[d] \/ running[d] = config[d])
    OBVIOUS
  <2>1. record'[d] = Store!Recorded(record[d], Judged(d))
    BY DEF RecordOutcome
  <2>2. CASE outcome[d] # "same"
    <3>1. record'[d].confirmed = FALSE
      BY <2>1, <2>2 DEF Store!Recorded, Judged, Failure, Replaced
    <3> QED BY <3>1
  <2> QED BY <2>2
<1> HIDE DEF Structure, History
<1> QED BY <1>1, StructureHolds, HistoryHolds, PTL DEF Spec, ConfirmationIsEarned

\* A record blames the device only if the device moved.
THEOREM DriftsAreMoves == Spec => DriftMeansTheDeviceMoved
<1>1. Structure /\ History /\ [Next]_vars =>
        [\A d \in Device :
            RecordOutcome(d) /\ ~dry /\ record'[d].status = "drifted"
            /\ record[d].checksum # None /\ ~raced[d] /\ read[d] = config[d]
                => found[d] # known[d]]_vars
  <2> SUFFICES ASSUME Structure, History, NEW d \in Device, RecordOutcome(d), ~dry,
                      record'[d].status = "drifted", record[d].checksum # None,
                      ~raced[d], read[d] = config[d]
               PROVE  found[d] # known[d]
    OBVIOUS
  <2>1. record'[d].status = Judged(d).status
    BY DEF RecordOutcome, Store!Recorded
  <2>2. outcome[d] \in {"differs", "pushed"}
    BY <2>1 DEF RecordOutcome, Judged, Failure, InSync
  <2>3. record[d].checksum = read[d]
    BY <2>1, <2>2 DEF Judged, Replaced, Store!LastChecksum
  <2> QED BY <2>2, <2>3
<1> HIDE DEF Structure, History
<1> QED BY <1>1, StructureHolds, HistoryHolds, PTL DEF Spec, DriftMeansTheDeviceMoved

\* Only an outcome, the operator and the orphan sweep write records.
LEMMA RecordWriters ==
    ASSUME Structure, [Next]_vars, NEW e \in Device, record'[e] # record[e]
    PROVE  \/ OperatorsOnly(e)
           \/ RecordOutcome(e) /\ ~dry
           \/ SweepOrphans /\ e \notin targets
<1>1. ASSUME NEW d \in Device, Operate(d) PROVE OperatorsOnly(e)
  <2>1. e = d
    BY <1>1 DEF Operate
  <2>2. record'[d] = Store!Operated(record[d], ~record[d].suspend)
    BY <1>1 DEF Operate
  <2>3. record'[d].suspend = ~record[d].suspend
    BY <2>2, <1>1 DEF Store!Operated, Store!DeploymentState
  <2> QED BY <2>1, <2>2, <2>3 DEF OperatorsOnly, Store!DeploymentState
<1>2. ASSUME NEW d \in Device, RecordOutcome(d) PROVE RecordOutcome(e) /\ ~dry
  BY <1>2 DEF RecordOutcome
<1>3. ASSUME SweepOrphans PROVE e \notin targets
  BY <1>3 DEF SweepOrphans, Store!WithoutOrphans
<1>4. ASSUME NEW d \in Device, TakeTurn(d) PROVE FALSE
  BY <1>4 DEF TakeTurn, RestUnchanged, ReadIntent, ReadRefused, OpenCandidate, OpenFails,
              CloseCandidate, CloseFails, Push, PushAnswerLost, PushRefused, Confirm,
              ConfirmFails
<1> QED
  BY <1>1, <1>2, <1>3, <1>4
     DEF Next, Proceed, Environment, vars, StartCycle, SweepTarget, SweepFails, SweepDone,
         ReadSuspension, RunFabric, RunFirewalls, CollectOutcomes, RecordsWritten, Return,
         Stop, Rerender, EditByHand, RollbackFires, CalmDown

\* A target suspended throughout a cycle is neither compared nor written by it.
THEOREM SuspendedLeftAlone == Spec => SuspendedIsLeftAlone
<1>1. Structure /\ Structure' /\ History /\ History' /\ [Next]_vars =>
        [phase # "idle" /\ ~dry =>
            \A d \in targets :
                held[d] => /\ pc'[d] = "idle"
                           /\ ~written'[d]
                           /\ record'[d] # record[d] => OperatorsOnly(d)]_vars
  <2> SUFFICES ASSUME Structure, Structure', History, History', [Next]_vars,
                      phase # "idle", ~dry, NEW d \in targets, held[d]
               PROVE  /\ pc'[d] = "idle"
                      /\ ~written'[d]
                      /\ record'[d] # record[d] => OperatorsOnly(d)
    OBVIOUS
  <2>1. d \notin Runnable \/ phase \in {"sweep", "gate"}
    OBVIOUS
  <2>2. pc[d] = "idle" /\ outcome[d] = "none" /\ ~written[d]
    BY <2>1
  <2>3. ~RecordOutcome(d)
    BY <2>2 DEF RecordOutcome
  <2>4. record'[d] # record[d] => OperatorsOnly(d)
    BY <2>3, RecordWriters
  <2>5. pc'[d] = "idle" /\ ~written'[d]
    <3>1. ASSUME NEW e \in Device, TakeTurn(e) PROVE pc'[d] = pc[d] /\ written'[d] = written[d]
      <4>1. pc[e] # "idle"
        BY <3>1 DEF TakeTurn, ReadIntent, ReadRefused, OpenCandidate, OpenFails, CloseCandidate,
                    CloseFails, Push, PushAnswerLost, PushRefused, Confirm, ConfirmFails
      <4>2. e # d
        BY <4>1, <2>2
      <4> QED
        BY <3>1, <4>2
           DEF TakeTurn, RestUnchanged, Ends, Commits, ReadIntent, ReadRefused, OpenCandidate,
               OpenFails, CloseCandidate, CloseFails, Push, PushAnswerLost, PushRefused,
               Confirm, ConfirmFails
    <3>2. CASE RunFabric \/ RunFirewalls
      <4>1. d \notin Runnable
        BY <2>1, <3>2 DEF RunFabric, RunFirewalls
      <4> QED BY <3>2, <4>1, <2>2 DEF RunFabric, RunFirewalls, RunOver
    <3>3. CASE Return \/ Stop
      BY <3>3 DEF Return, Stop, CycleForgotten
    <3> QED
      BY <3>1, <3>2, <3>3, <2>2
         DEF Next, Proceed, Environment, vars, StartCycle, SweepTarget, SweepFails, SweepDone,
             ReadSuspension, CollectOutcomes, RecordOutcome, RecordsWritten, SweepOrphans,
             Rerender, EditByHand, RollbackFires, Operate, CalmDown
  <2> QED BY <2>4, <2>5
<1> HIDE DEF Structure, History
<1> QED BY <1>1, StructureHolds, HistoryHolds, PTL DEF Spec, SuspendedIsLeftAlone

\* A dry run writes nothing, to a device or to Infrahub.
THEOREM DryRunsLeaveNoTrace == Spec => DryRunLeavesNoTrace
<1>1. Structure /\ Structure' /\ History /\ History' /\ [Next]_vars =>
        [dry => \A d \in Device :
                    /\ ~written'[d]
                    /\ pushSession'[d] = pushSession[d]
                    /\ record'[d] # record[d] => OperatorsOnly(d)]_vars
  <2> SUFFICES ASSUME Structure, Structure', History, History', [Next]_vars,
                      dry, NEW d \in Device
               PROVE  /\ ~written'[d]
                      /\ pushSession'[d] = pushSession[d]
                      /\ record'[d] # record[d] => OperatorsOnly(d)
    OBVIOUS
  <2>1. record'[d] # record[d] => OperatorsOnly(d)
    BY RecordWriters DEF SweepOrphans
  <2>2. ASSUME NEW e \in Device, TakeTurn(e)
        PROVE  ~written'[d] /\ pushSession'[d] = pushSession[d]
    BY <2>2
       DEF TakeTurn, RestUnchanged, ReadIntent, ReadRefused, OpenCandidate, OpenFails,
           CloseCandidate, CloseFails, Push, PushAnswerLost, PushRefused, Confirm, ConfirmFails
  <2>3. ~written'[d] /\ pushSession'[d] = pushSession[d]
    BY <2>2
       DEF Next, Proceed, Environment, vars, StartCycle, SweepTarget, SweepFails, SweepDone,
           ReadSuspension, RunFabric, RunFirewalls, CollectOutcomes, RecordOutcome,
           RecordsWritten, SweepOrphans, Return, Stop, CycleForgotten, Rerender, EditByHand,
           RollbackFires, Operate, CalmDown
  <2> QED BY <2>1, <2>3
<1> HIDE DEF Structure, History
<1> QED BY <1>1, StructureHolds, HistoryHolds, PTL DEF Spec, DryRunLeavesNoTrace
-----------------------------------------------------------------------------
\* A device that runs its artifact, in a world at rest: its turns read what it
\* runs and find no difference.
Quiet(d) ==
    /\ calm
    /\ artifact[d] \in Render /\ running[d] = artifact[d] /\ undo[d] = None
    /\ phase # "idle" => d \in targets
    /\ pc[d] \notin {"push", "confirm"}
    /\ pc[d] \in {"open", "close"} => config[d] = artifact[d]
    /\ pc[d] = "close" => found[d] = artifact[d]
    /\ outcome[d] \in {"none", "same"}

\* The running cycle compares the device and records what it finds.
Promised(d) == phase # "idle" /\ ~dry /\ d \in Runnable /\ ~record[d].suspend

\* A turn of the running cycle is still to come, or has not pushed yet.
AwaitsTurn(d) ==
    /\ Promised(d)
    /\ \/ pc[d] \in {"read", "open", "close", "push"}
       \/ pc[d] = "idle" /\ phase \in {"sweep", "gate"}
       \/ pc[d] = "idle" /\ phase = "fabric" /\ d \in Firewall

\* On its way into line: what its turn finds and pushes is what it should run, and
\* nothing fails.
Mending(d) ==
    /\ calm
    /\ artifact[d] \in Render
    /\ undo[d] # None <=> pc[d] = "confirm"
    /\ phase # "idle" => d \in targets
    /\ pc[d] \in {"open", "close", "push"} => config[d] = artifact[d]
    /\ pc[d] = "close" => found[d] = running[d]
    /\ outcome[d] # "failed"
    /\ running[d] = artifact[d] \/ AwaitsTurn(d)

\* No step of a cycle, whatever it does to the other devices, disturbs a device
\* that runs its artifact.
LEMMA QuietStays ==
    ASSUME NEW rest \in Device, Structure, Quiet(rest), [Next]_vars
    PROVE  Quiet(rest)'
<1> USE DEF Quiet
<1>1. ASSUME NEW isDry \in BOOLEAN, NEW notDue \in SUBSET Firewall, StartCycle(isDry, notDue)
      PROVE  Quiet(rest)'
  BY <1>1 DEF StartCycle, DueAmong
<1>2. ASSUME SweepDone
      PROVE  Quiet(rest)'
  BY <1>2 DEF SweepDone
<1>3. ASSUME RunFabric
      PROVE  Quiet(rest)'
  BY <1>3 DEF RunFabric, RunOver
<1>4. ASSUME RunFirewalls
      PROVE  Quiet(rest)'
  BY <1>4 DEF RunFirewalls, RunOver
<1>5. ASSUME CollectOutcomes
      PROVE  Quiet(rest)'
  BY <1>5 DEF CollectOutcomes
<1>6. ASSUME RecordsWritten
      PROVE  Quiet(rest)'
  BY <1>6 DEF RecordsWritten
<1>7. ASSUME SweepOrphans
      PROVE  Quiet(rest)'
  BY <1>7 DEF SweepOrphans, Store!WithoutOrphans
<1>8. ASSUME Return
      PROVE  Quiet(rest)'
  BY <1>8 DEF Return, CycleForgotten
<1>9. ASSUME Stop
      PROVE  Quiet(rest)'
  BY <1>9 DEF Stop
<1>10. ASSUME CalmDown
      PROVE  Quiet(rest)'
  BY <1>10 DEF CalmDown
<1>11. ASSUME NEW d \in Device, SweepTarget(d)
      PROVE  Quiet(rest)'
  BY <1>11 DEF SweepTarget
<1>12. ASSUME NEW d \in Device, SweepFails(d)
      PROVE  Quiet(rest)'
  BY <1>12 DEF SweepFails
<1>13. ASSUME NEW d \in Device, ReadSuspension(d)
      PROVE  Quiet(rest)'
  BY <1>13 DEF ReadSuspension
<1>14. ASSUME NEW d \in Device, ReadIntent(d)
      PROVE  Quiet(rest)'
  BY <1>14 DEF ReadIntent, RestUnchanged
<1>15. ASSUME NEW d \in Device, ReadRefused(d)
      PROVE  Quiet(rest)'
  BY <1>15 DEF ReadRefused, Faulty, Ends, RestUnchanged
<1>16. ASSUME NEW d \in Device, OpenCandidate(d)
      PROVE  Quiet(rest)'
  BY <1>16 DEF OpenCandidate, RestUnchanged
<1>17. ASSUME NEW d \in Device, OpenFails(d)
      PROVE  Quiet(rest)'
  BY <1>17 DEF OpenFails, Faulty, Ends, RestUnchanged
<1>18. ASSUME NEW d \in Device, CloseCandidate(d)
      PROVE  Quiet(rest)'
  BY <1>18 DEF CloseCandidate, Ends, RestUnchanged
<1>19. ASSUME NEW d \in Device, CloseFails(d)
      PROVE  Quiet(rest)'
  BY <1>19 DEF CloseFails, Faulty
<1>20. ASSUME NEW d \in Device, Push(d)
      PROVE  Quiet(rest)'
  BY <1>20 DEF Push, Ends, Commits, RestUnchanged
<1>21. ASSUME NEW d \in Device, PushAnswerLost(d)
      PROVE  Quiet(rest)'
  BY <1>21 DEF PushAnswerLost, Faulty
<1>22. ASSUME NEW d \in Device, PushRefused(d)
      PROVE  Quiet(rest)'
  BY <1>22 DEF PushRefused, Faulty, Ends, RestUnchanged
<1>23. ASSUME NEW d \in Device, Confirm(d)
      PROVE  Quiet(rest)'
  BY <1>23 DEF Confirm, Ends, RestUnchanged
<1>24. ASSUME NEW d \in Device, ConfirmFails(d)
      PROVE  Quiet(rest)'
  BY <1>24 DEF ConfirmFails, Faulty, Ends, RestUnchanged
<1>25. ASSUME NEW d \in Device, RecordOutcome(d)
      PROVE  Quiet(rest)'
  BY <1>25 DEF RecordOutcome
<1>26. ASSUME NEW d \in Device, Rerender(d)
      PROVE  Quiet(rest)'
  BY <1>26 DEF Rerender
<1>27. ASSUME NEW d \in Device, EditByHand(d)
      PROVE  Quiet(rest)'
  BY <1>27 DEF EditByHand
<1>28. ASSUME NEW d \in Device, RollbackFires(d)
      PROVE  Quiet(rest)'
  BY <1>28 DEF RollbackFires
<1>29. ASSUME NEW d \in Device, Operate(d)
      PROVE  Quiet(rest)'
  BY <1>29 DEF Operate
<1>30. ASSUME UNCHANGED vars PROVE Quiet(rest)'
  BY <1>30 DEF vars
<1> HIDE DEF Structure, Quiet
<1> QED
  BY <1>1, <1>2, <1>3, <1>4, <1>5, <1>6, <1>7, <1>8, <1>9, <1>10, <1>11,
     <1>12, <1>13, <1>14, <1>15, <1>16, <1>17, <1>18, <1>19, <1>20, <1>21,
     <1>22, <1>23, <1>24, <1>25, <1>26, <1>27, <1>28, <1>29, <1>30
     DEF Next, Proceed, Environment, TakeTurn

\* Nor does it take back the record that says so.
LEMMA InLineStays ==
    ASSUME NEW rest \in Device, Structure, Quiet(rest), InLine(rest), [Next]_vars
    PROVE  InLine(rest)'
<1> USE DEF Quiet
<1>1. running'[rest] = artifact'[rest]
  BY QuietStays
<1>2. ASSUME NEW d \in Device, RecordOutcome(d)
      PROVE  record'[rest].status = "in_sync"
  <2>1. CASE d # rest \/ dry
    BY <1>2, <2>1 DEF RecordOutcome, InLine
  <2>2. CASE d = rest /\ ~dry
    <3>1. outcome[d] = "same"
      BY <1>2, <2>2 DEF RecordOutcome
    <3>2. Judged(d) = InSync(read[d])
      BY <3>1 DEF Judged
    <3>3. record'[d] = Store!Recorded(record[d], InSync(read[d]))
      BY <1>2, <2>2, <3>2 DEF RecordOutcome
    <3> QED BY <2>2, <3>3 DEF Store!Recorded, InSync
  <2> QED BY <2>1, <2>2
<1>3. ASSUME SweepOrphans
      PROVE  record'[rest].status = "in_sync"
  BY <1>3 DEF SweepOrphans, Store!WithoutOrphans, InLine
<1>4. ASSUME OperatorsOnly(rest)
      PROVE  record'[rest].status = "in_sync"
  <2>1. record'[rest] = Store!Operated(record[rest], record'[rest].suspend)
    BY <1>4 DEF OperatorsOnly
  <2>2. record[rest] \in Store!DeploymentState /\ record[rest].status = "in_sync"
    BY DEF InLine
  <2> QED BY <2>1, <2>2 DEF Store!Operated, Store!DeploymentState
<1>5. record'[rest].status = "in_sync"
  BY <1>2, <1>3, <1>4, RecordWriters DEF InLine
<1> QED BY <1>1, <1>5 DEF InLine

\* What a cycle promised a device in line, it has recorded when it returns.
LEMMA PromiseKept ==
    ASSUME NEW rest \in Device, Structure, History, Quiet(rest), Promised(rest), [Next]_vars
    PROVE  Promised(rest)' \/ InLine(rest)'
<1> USE DEF Quiet, Promised
<1>1. CASE Return
  <2>1. outcome[rest] = "same" /\ ~dry /\ phase = "report"
    BY <1>1 DEF Return
  <2>2. record[rest].status = "in_sync"
    BY <2>1
  <2> QED BY <1>1, <2>2 DEF Return, InLine
<1>2. CASE SweepOrphans
  BY <1>2 DEF SweepOrphans, Store!WithoutOrphans
<1>3. ASSUME NEW d \in Device, RecordOutcome(d) PROVE Promised(rest)'
  <2>1. record'[rest].suspend = record[rest].suspend
    BY <1>3 DEF RecordOutcome, Store!Recorded
  <2> QED BY <1>3, <2>1 DEF RecordOutcome
<1>4. ASSUME NEW d \in Device, ReadSuspension(d) PROVE Promised(rest)'
  BY <1>4 DEF ReadSuspension, Store!IsSuspended
<1>5. CASE UNCHANGED <<record, suspended, due, dry>> /\ phase' # "idle"
  BY <1>5
<1>6. ASSUME NEW d \in Device, TakeTurn(d) PROVE UNCHANGED <<record, suspended, due, dry, phase>>
  BY <1>6 DEF TakeTurn, RestUnchanged, ReadIntent, ReadRefused, OpenCandidate, OpenFails,
              CloseCandidate, CloseFails, Push, PushAnswerLost, PushRefused, Confirm, ConfirmFails
<1>7. \/ Return \/ SweepOrphans
      \/ \E d \in Device : RecordOutcome(d) \/ ReadSuspension(d)
      \/ UNCHANGED <<record, suspended, due, dry>> /\ phase' # "idle"
  BY <1>6 DEF Next, Proceed, Environment, vars, StartCycle, SweepTarget, SweepFails, SweepDone,
              RunFabric, RunFirewalls, CollectOutcomes, RecordsWritten, Stop, Rerender,
              EditByHand, RollbackFires, Operate, CalmDown
<1> QED BY <1>1, <1>2, <1>3, <1>4, <1>5, <1>7

\* Nothing keeps a device from coming into line, and nothing takes it out again.
LEMMA MendingStays ==
    ASSUME NEW rest \in Device, Structure, Mending(rest), [Next]_vars
    PROVE  Mending(rest)'
<1> USE DEF Mending, AwaitsTurn, Promised
<1>1. ASSUME NEW isDry \in BOOLEAN, NEW notDue \in SUBSET Firewall, StartCycle(isDry, notDue)
      PROVE  Mending(rest)'
  BY <1>1 DEF StartCycle, DueAmong
<1>2. ASSUME SweepDone
      PROVE  Mending(rest)'
  BY <1>2 DEF SweepDone
<1>3. ASSUME RunFabric
      PROVE  Mending(rest)'
  BY <1>3 DEF RunFabric, RunOver
<1>4. ASSUME RunFirewalls
      PROVE  Mending(rest)'
  BY <1>4 DEF RunFirewalls, RunOver
<1>5. ASSUME CollectOutcomes
      PROVE  Mending(rest)'
  BY <1>5 DEF CollectOutcomes
<1>6. ASSUME RecordsWritten
      PROVE  Mending(rest)'
  BY <1>6 DEF RecordsWritten
<1>7. ASSUME SweepOrphans
      PROVE  Mending(rest)'
  BY <1>7 DEF SweepOrphans, Store!WithoutOrphans
<1>8. ASSUME Return
      PROVE  Mending(rest)'
  BY <1>8 DEF Return, CycleForgotten
<1>9. ASSUME Stop
      PROVE  Mending(rest)'
  BY <1>9 DEF Stop
<1>10. ASSUME CalmDown
      PROVE  Mending(rest)'
  BY <1>10 DEF CalmDown
<1>11. ASSUME NEW d \in Device, SweepTarget(d)
      PROVE  Mending(rest)'
  BY <1>11 DEF SweepTarget
<1>12. ASSUME NEW d \in Device, SweepFails(d)
      PROVE  Mending(rest)'
  BY <1>12 DEF SweepFails
<1>13. ASSUME NEW d \in Device, ReadSuspension(d)
      PROVE  Mending(rest)'
  BY <1>13 DEF ReadSuspension, Store!IsSuspended
<1>14. ASSUME NEW d \in Device, ReadIntent(d)
      PROVE  Mending(rest)'
  BY <1>14 DEF ReadIntent, RestUnchanged
<1>15. ASSUME NEW d \in Device, ReadRefused(d)
      PROVE  Mending(rest)'
  BY <1>15 DEF ReadRefused, Faulty, Ends, RestUnchanged
<1>16. ASSUME NEW d \in Device, OpenCandidate(d)
      PROVE  Mending(rest)'
  BY <1>16 DEF OpenCandidate, RestUnchanged
<1>17. ASSUME NEW d \in Device, OpenFails(d)
      PROVE  Mending(rest)'
  BY <1>17 DEF OpenFails, Faulty, Ends, RestUnchanged
<1>18. ASSUME NEW d \in Device, CloseCandidate(d)
      PROVE  Mending(rest)'
  BY <1>18 DEF CloseCandidate, Ends, RestUnchanged
<1>19. ASSUME NEW d \in Device, CloseFails(d)
      PROVE  Mending(rest)'
  BY <1>19 DEF CloseFails, Faulty
<1>20. ASSUME NEW d \in Device, Push(d)
      PROVE  Mending(rest)'
  BY <1>20 DEF Push, Ends, Commits, RestUnchanged
<1>21. ASSUME NEW d \in Device, PushAnswerLost(d)
      PROVE  Mending(rest)'
  BY <1>21 DEF PushAnswerLost, Faulty
<1>22. ASSUME NEW d \in Device, PushRefused(d)
      PROVE  Mending(rest)'
  BY <1>22 DEF PushRefused, Faulty, Ends, RestUnchanged
<1>23. ASSUME NEW d \in Device, Confirm(d)
      PROVE  Mending(rest)'
  BY <1>23 DEF Confirm, Ends, RestUnchanged
<1>24. ASSUME NEW d \in Device, ConfirmFails(d)
      PROVE  Mending(rest)'
  BY <1>24 DEF ConfirmFails, Faulty, Ends, RestUnchanged
<1>25. ASSUME NEW d \in Device, RecordOutcome(d)
      PROVE  Mending(rest)'
  BY <1>25 DEF RecordOutcome
<1>26. ASSUME NEW d \in Device, Rerender(d)
      PROVE  Mending(rest)'
  BY <1>26 DEF Rerender
<1>27. ASSUME NEW d \in Device, EditByHand(d)
      PROVE  Mending(rest)'
  BY <1>27 DEF EditByHand
<1>28. ASSUME NEW d \in Device, RollbackFires(d)
      PROVE  Mending(rest)'
  BY <1>28 DEF RollbackFires
<1>29. ASSUME NEW d \in Device, Operate(d)
      PROVE  Mending(rest)'
  BY <1>29 DEF Operate
<1>30. ASSUME UNCHANGED vars PROVE Mending(rest)'
  BY <1>30 DEF vars
<1> HIDE DEF Structure, Mending
<1> QED
  BY <1>1, <1>2, <1>3, <1>4, <1>5, <1>6, <1>7, <1>8, <1>9, <1>10, <1>11,
     <1>12, <1>13, <1>14, <1>15, <1>16, <1>17, <1>18, <1>19, <1>20, <1>21,
     <1>22, <1>23, <1>24, <1>25, <1>26, <1>27, <1>28, <1>29, <1>30
     DEF Next, Proceed, Environment, TakeTurn

\* Once the world rests, one cycle makes a device run its artifact, the next
\* records it in_sync, and no later one takes that back: all of Converges but the
\* fairness that such cycles are run.
THEOREM TwoCyclesSettle == Spec => CyclesSettle
<1>1. Spec => OneCycleAligns
  <2> SUFFICES ASSUME NEW d \in Device
               PROVE  Spec => [](Begun(d) => [](phase = "idle" => running[d] = artifact[d]))
    BY DEF OneCycleAligns
  <2>1. Structure /\ Begun(d) => Mending(d)
    BY DEF Begun, Mending, AwaitsTurn, Promised, Serviceable
  <2>2. Structure /\ Mending(d) /\ [Next]_vars => Mending(d)'
    BY MendingStays
  <2>3. Mending(d) => (phase = "idle" => running[d] = artifact[d])
    BY DEF Mending, AwaitsTurn, Promised
  <2> HIDE DEF Structure
  <2> QED BY <2>1, <2>2, <2>3, StructureHolds, PTL DEF Spec
<1>2. Spec => NextCycleConfirms
  <2> SUFFICES ASSUME NEW d \in Device
               PROVE  Spec => [](Begun(d) /\ running[d] = artifact[d]
                                    => [](phase = "idle" => []InLine(d)))
    BY DEF NextCycleConfirms
  <2> DEFINE Due == Quiet(d) /\ Promised(d)
             Kept == Quiet(d) /\ InLine(d)
  <2>1. Structure /\ Begun(d) /\ running[d] = artifact[d] => Due
    BY DEF Begun, Quiet, Promised, Serviceable
  <2>2. Structure /\ History /\ Due /\ [Next]_vars => Due' \/ Kept'
    BY QuietStays, PromiseKept
  <2>3. Structure /\ Kept /\ [Next]_vars => Kept'
    BY QuietStays, InLineStays
  <2>4. Due => ~(phase = "idle")
    BY DEF Promised
  <2>5. Kept => InLine(d)
    OBVIOUS
  <2> HIDE DEF Structure, History, Due, Kept
  <2> QED BY <2>1, <2>2, <2>3, <2>4, <2>5, StructureHolds, HistoryHolds, PTL DEF Spec
<1>3. Spec => RestIsKept
  <2> SUFFICES ASSUME NEW d \in Device
               PROVE  Spec => [](AtRest(d) => []InLine(d))
    BY DEF RestIsKept
  <2>1. Structure /\ AtRest(d) => Quiet(d) /\ InLine(d)
    BY DEF AtRest, Quiet, InLine, Serviceable
  <2>2. Structure /\ Quiet(d) /\ [Next]_vars => Quiet(d)'
    BY QuietStays
  <2>3. Structure /\ Quiet(d) /\ InLine(d) /\ [Next]_vars => InLine(d)'
    BY InLineStays
  <2> HIDE DEF Structure
  <2> QED BY <2>1, <2>2, <2>3, StructureHolds, PTL DEF Spec
<1> QED BY <1>1, <1>2, <1>3 DEF CyclesSettle
===============================================================================
