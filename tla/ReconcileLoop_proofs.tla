-------------------------- MODULE ReconcileLoop_proofs --------------------------
(***************************************************************************)
(* What run_forever guarantees for any devices, any cadence, any pushes    *)
(* and any waits the contract allows: the firewalls' turn, the early       *)
(* confirmation of a first push, and the keeping of requests.              *)
(***************************************************************************)
EXTENDS ReconcileLoop, TLAPS

\* The count of _due wraps after FirewallEvery scheduled cycles.
LEMMA Wrap ==
    ASSUME NEW n \in Nat \ {0}, NEW c \in 0 .. n - 1
    PROVE  (c + 1) % n = IF c + 1 = n THEN 0 ELSE c + 1
OBVIOUS

\* The count is zero exactly when the firewalls' turn has come.
CountsTurns == cadence = IF since = FirewallEvery THEN 0 ELSE since

\* A running cycle compares what its arguments make due.
ComparesDue == stage = "cycle" => (scheduled <=> IsScheduled) /\ due = {d \in Device : IsDue(d)}

\* What awaits a confirmation was pushed, and every first push awaits one.
AwaitsConfirmation == followUp \subseteq pushedBefore /\ firstPush \subseteq followUp

\* The first cycle of a process has nothing to confirm, and the firewalls' turn.
FirstCycle == stage = "boot" \/ (stage = "ready" /\ reason = "start") => followUp = {} /\ cadence = 0

LoopInv == TypeOK /\ CountsTurns /\ ComparesDue /\ AwaitsConfirmation /\ FirstCycle

USE LoopAssumption
DEF LoopInv, TypeOK, CountsTurns, ComparesDue, AwaitsConfirmation, FirstCycle, IsScheduled, Forced,
    IsDue, Snapshot, world, wait, cycle, ghost, Wait!Reason, Wait!Snapshot

\* The loop's count, arguments and follow-up are in step at every moment
\* (run_forever).
THEOREM LoopStructure == Spec => []LoopInv
<1>1. Init => LoopInv
  <2> SUFFICES ASSUME Init PROVE LoopInv
    OBVIOUS
  <2>1. 0 \in 0 .. FirewallEvery - 1 /\ FirewallEvery \in 1 .. FirewallEvery
    OBVIOUS
  <2>2. comparedAs \in [Device -> Checksum \union {None}]
    BY DEF Init
  <2> QED BY <2>1, <2>2 DEF Init
<1>2. LoopInv /\ [Next]_vars => LoopInv'
  <2> SUFFICES ASSUME LoopInv, [Next]_vars PROVE LoopInv'
    OBVIOUS
  <2>0. ASSUME Counted
        PROVE  /\ cadence' \in 0 .. FirewallEvery - 1 /\ since' \in 1 .. FirewallEvery
               /\ CountsTurns'
               /\ scheduled' = FALSE /\ due' = {} /\ read' = None
    <3>1. (cadence + 1) % FirewallEvery = IF cadence + 1 = FirewallEvery THEN 0 ELSE cadence + 1
      BY Wrap
    <3> QED BY <2>0, <3>1 DEF Counted
  <2>1. ASSUME Boot PROVE LoopInv'
    BY <2>1 DEF Boot
  <2>2. ASSUME StartCycle PROVE LoopInv'
    BY <2>2 DEF StartCycle
  <2>3. ASSUME NEW pushed \in SUBSET Device, EndCycle(pushed) PROVE LoopInv'
    BY <2>0, <2>3 DEF EndCycle, Earned, Wait!BeginWait
  <2>4. ASSUME CycleRaises PROVE LoopInv'
    BY <2>0, <2>4 DEF CycleRaises, Wait!BeginWait
  <2>5. ASSUME WakeUp PROVE LoopInv'
    BY <2>5 DEF WakeUp, Wait!WakeUp, Wait!WakeRequested, Wait!WakeArtifacts,
                Wait!WakeInterval, Wait!Baselined, Wait!MovedDevices
  <2>6. ASSUME FirstPoll PROVE LoopInv'
    BY <2>6 DEF FirstPoll, Wait!FirstPoll, Wait!Baselined
  <2>7. ASSUME Restart PROVE LoopInv'
    <3>1. 0 \in 0 .. FirewallEvery - 1 /\ FirewallEvery \in 1 .. FirewallEvery
      OBVIOUS
    <3> QED BY <2>7, <3>1 DEF Restart
  <2>8. ASSUME Rerender PROVE LoopInv'
    BY <2>8 DEF Rerender, Wait!Rerender
  <2>9. ASSUME Request PROVE LoopInv'
    BY <2>9 DEF Request, Wait!Request
  <2>10. ASSUME CalmDown PROVE LoopInv'
    BY <2>10 DEF CalmDown
  <2>11. ASSUME UNCHANGED vars PROVE LoopInv'
    BY <2>11 DEF vars
  <2> HIDE DEF LoopInv
  <2> QED
    BY <2>1, <2>2, <2>3, <2>4, <2>5, <2>6, <2>7, <2>8, <2>9, <2>10, <2>11
       DEF Next, EndsCycle
<1> HIDE DEF LoopInv
<1> QED BY <1>1, <1>2, PTL DEF Spec

\* Every variable of the loop keeps to its type.
THEOREM LoopTypeCorrect == Spec => []TypeOK
<1>1. LoopInv => TypeOK
  OBVIOUS
<1> HIDE DEF LoopInv, TypeOK
<1> QED BY <1>1, LoopStructure, PTL

\* A firewall nobody called for is compared by every FirewallEvery-th scheduled
\* cycle and by no other.
THEOREM CadenceKept == Spec => []FirewallKeepsItsCadence
<1>1. LoopInv => FirewallKeepsItsCadence
  <2> SUFFICES ASSUME LoopInv, stage = "cycle", NEW f \in Firewall \ Forced,
                      reason # "requested"
               PROVE  f \in due <=> scheduled /\ since = FirewallEvery
    BY DEF FirewallKeepsItsCadence
  <2>1. f \in due <=> IsScheduled /\ cadence = 0
    OBVIOUS
  <2>2. cadence = 0 <=> since = FirewallEvery
    OBVIOUS
  <2> QED BY <2>1, <2>2
<1> HIDE DEF LoopInv
<1> QED BY <1>1, LoopStructure, PTL

\* A device pushed for the first time is compared by the very next cycle.
THEOREM FirstPushConfirmed == Spec => []FirstPushIsConfirmedNext
<1>1. LoopInv => FirstPushIsConfirmedNext
  BY DEF FirstPushIsConfirmedNext
<1> HIDE DEF LoopInv
<1> QED BY <1>1, LoopStructure, PTL

\* A request on file, or taken and not yet answered, is given up by no step but
\* the start of a cycle that compares every device.
THEOREM RequestsKept == Spec => RequestIsKept
<1>1. LoopInv /\ [Next]_vars => [Owed => Owed' \/ (stage' = "cycle" /\ due' = Device)]_vars
  <2> SUFFICES ASSUME LoopInv, [Next]_vars, Owed
               PROVE  Owed' \/ (stage' = "cycle" /\ due' = Device)
    BY DEF vars
  <2> USE DEF Owed
  <2>1. ASSUME Boot PROVE Owed'
    BY <2>1 DEF Boot
  <2>2. ASSUME StartCycle PROVE Owed' \/ (stage' = "cycle" /\ due' = Device)
    <3>1. CASE requested
      BY <2>2, <3>1 DEF StartCycle
    <3>2. CASE ~requested
      <4>1. reason \in {"start", "requested"}
        BY <2>2, <3>2 DEF StartCycle
      <4>2. \A d \in Device : IsDue(d)
        BY <2>2, <4>1 DEF StartCycle
      <4> QED BY <2>2, <4>2 DEF StartCycle
    <3> QED BY <3>1, <3>2
  <2>3. ASSUME NEW pushed \in SUBSET Device, EndCycle(pushed) PROVE Owed'
    BY <2>3 DEF EndCycle, Wait!BeginWait
  <2>4. ASSUME CycleRaises PROVE Owed'
    BY <2>4 DEF CycleRaises, Wait!BeginWait
  <2>5. ASSUME WakeUp PROVE Owed'
    BY <2>5 DEF WakeUp, Wait!WakeUp, Wait!WakeRequested, Wait!WakeArtifacts, Wait!WakeInterval
  <2>6. ASSUME FirstPoll PROVE Owed'
    BY <2>6 DEF FirstPoll, Wait!FirstPoll
  <2>7. ASSUME Restart PROVE Owed'
    BY <2>7 DEF Restart
  <2>8. ASSUME Rerender PROVE Owed'
    BY <2>8 DEF Rerender, Wait!Rerender
  <2>9. ASSUME Request PROVE Owed'
    BY <2>9 DEF Request, Wait!Request
  <2>10. ASSUME CalmDown PROVE Owed'
    BY <2>10 DEF CalmDown
  <2>11. ASSUME UNCHANGED vars PROVE Owed'
    BY <2>11 DEF vars
  <2> HIDE DEF LoopInv, Owed
  <2> QED
    BY <2>1, <2>2, <2>3, <2>4, <2>5, <2>6, <2>7, <2>8, <2>9, <2>10, <2>11
       DEF Next, EndsCycle
<1> HIDE DEF LoopInv
<1> QED BY <1>1, LoopStructure, PTL DEF RequestIsKept, Spec
===============================================================================
