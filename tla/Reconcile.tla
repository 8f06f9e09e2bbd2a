------------------------------- MODULE Reconcile -------------------------------
(***************************************************************************)
(* One cycle of the deployment reconciler and the world it runs in:        *)
(* run_cycle (deployment/reconcile.py), the per-device turn reconcile_host *)
(* (deployment/inventory.py), the comparison and the push of each family   *)
(* (deployment/compare.py, deployment/devices.py) and the records of       *)
(* StateStore.  Cycles follow one another for ever; between and during     *)
(* them artifacts are re-rendered, devices are edited by hand, operators   *)
(* suspend devices, requests and answers are lost, and the process is      *)
(* killed at any point.                                                    *)
(*                                                                         *)
(* A configuration is opaque.  What the code tells apart is whether it is  *)
(* empty, whether it keeps the lifeline (what management needs), and       *)
(* whether two configurations are equal.  An artifact's checksum is its    *)
(* content.                                                                *)
(***************************************************************************)
EXTENDS Naturals, FiniteSets

CONSTANTS
    Device,      \* every modelled device
    Eos,         \* the EOS switches among them
    Firewall,    \* the vSRX firewalls among them; the rest are SR Linux routers
    Render,      \* renderings that keep the lifeline
    Unsafe,      \* a rendering that lost the lifeline
    Empty,       \* an artifact that was stored before it rendered
    Foreign,     \* a configuration somebody put on a device by hand
    None,        \* no artifact, no rollback armed, nothing read
    Offer,       \* [Device -> the contents the renderer may store]
    Tampered,    \* devices edited by hand
    Operable,    \* devices the operator may suspend
    Flaky,       \* devices whose requests and answers may be lost
    MayCalm,     \* whether the outside world may ever come to rest
    MaxStranded  \* bound on the ghost counters of stranded sessions

Artifact == Render \union {Unsafe, Empty}
Config == Render \union {Unsafe, Empty, Foreign}

Store == INSTANCE StateStore WITH Checksum <- Artifact

ASSUME FamiliesAssumption == Eos \subseteq Device /\ Firewall \subseteq Device /\ Eos \intersect Firewall = {}
ASSUME ContentAssumption ==
    /\ {Unsafe, Empty, Foreign, None} \intersect Render = {}
    /\ Unsafe # Empty /\ Unsafe # Foreign /\ Unsafe # None
    /\ Empty # Foreign /\ Empty # None /\ Foreign # None
ASSUME OfferAssumption == Offer \in [Device -> SUBSET (Artifact \union {None})]
ASSUME BoundAssumption == MaxStranded \in Nat /\ MayCalm \in BOOLEAN

VARIABLES
    \* the world
    artifact,      \* the stored artifact of each device, None when there is none
    running,       \* the running configuration of each device
    undo,          \* what an unconfirmed commit rolls back to, None when none is armed
    sessions,      \* comparison sessions or candidates open on the device
    pushSession,   \* whether a push session or candidate was left behind
    record,        \* the DeploymentState records
    calm,          \* nothing outside the service happens any more
    \* the cycle
    phase, dry, targets, due, todo, suspended,
    read,          \* the checksum discovery read for each target
    \* one device's turn
    pc, config, found, outcome,
    \* ghosts: they constrain nothing
    written,       \* this cycle changed the device's running configuration
    disturbed,     \* somebody else changed it since the comparison
    held,          \* suspended since before this cycle began
    unswept,       \* cycles since the device's sessions were last swept
    known,         \* the configuration the last successful record was about
    raced          \* ... which was not the one its checksum names

world == <<artifact, running, undo, sessions, pushSession, record>>
cycle == <<phase, dry, targets, due, todo, suspended, read>>
turn  == <<pc, config, found, outcome>>
ghost == <<written, disturbed, held, unswept, known, raced>>
vars  == <<world, calm, cycle, turn, ghost>>

Phase == {"idle", "sweep", "gate", "fabric", "firewall", "record", "orphans", "report"}
TurnStep == {"idle", "read", "open", "close", "push", "confirm", "done"}
Verdict == {"none", "same", "differs", "pushed", "failed"}

TypeOK ==
    /\ artifact \in [Device -> Artifact \union {None}]
    /\ running \in [Device -> Config]
    /\ undo \in [Device -> Config \union {None}]
    /\ sessions \in [Device -> Nat]
    /\ pushSession \in [Device -> BOOLEAN]
    /\ record \in [Device -> Store!DeploymentState]
    /\ calm \in BOOLEAN
    /\ phase \in Phase
    /\ dry \in BOOLEAN
    /\ targets \subseteq Device
    /\ due \subseteq targets
    /\ todo \subseteq targets
    /\ suspended \subseteq due
    /\ read \in [Device -> Artifact \union {None}]
    /\ pc \in [Device -> TurnStep]
    /\ config \in [Device -> Artifact \union {None}]
    /\ found \in [Device -> Config \union {None}]
    /\ outcome \in [Device -> Verdict]
    /\ written \in [Device -> BOOLEAN]
    /\ disturbed \in [Device -> BOOLEAN]
    /\ held \in [Device -> BOOLEAN]
    /\ unswept \in [Device -> Nat]
    /\ known \in [Device -> Artifact \union {None}]
    /\ raced \in [Device -> BOOLEAN]

Init ==
    /\ artifact \in [Device -> Artifact \union {None}]
    /\ \A d \in Device : artifact[d] \in Offer[d]
    /\ running = [d \in Device |-> Foreign]
    /\ undo = [d \in Device |-> None]
    /\ sessions = [d \in Device |-> 0]
    /\ pushSession = [d \in Device |-> FALSE]
    /\ record = [d \in Device |-> Store!NoRecord]
    /\ calm = FALSE
    /\ phase = "idle"
    /\ dry = FALSE
    /\ targets = {} /\ due = {} /\ todo = {} /\ suspended = {}
    /\ read = [d \in Device |-> None]
    /\ pc = [d \in Device |-> "idle"]
    /\ config = [d \in Device |-> None]
    /\ found = [d \in Device |-> None]
    /\ outcome = [d \in Device |-> "none"]
    /\ written = [d \in Device |-> FALSE]
    /\ disturbed = [d \in Device |-> FALSE]
    /\ held = [d \in Device |-> FALSE]
    /\ unswept = [d \in Device |-> 0]
    /\ known = [d \in Device |-> None]
    /\ raced = [d \in Device |-> FALSE]

-----------------------------------------------------------------------------
(***************************************************************************)
(* The families.                                                           *)
(***************************************************************************)

\* Reached through commit confirmed: an unconfirmed commit undoes itself.
ConfirmsCommits(d) == d \notin Eos

\* Its sessions or candidates outlive the connection that opened them; the
\* vSRX's candidate and lock end with the CLI session.
KeepsSessions(d) == d \notin Firewall

\* compare_srl and compare_junos assert the lifeline, compare_eos does not.
ComparesOnlySafe(d) == d \notin Eos

Faulty(d) == d \in Flaky /\ ~calm

\* _order and split_firewalls: a firewall is handled when only firewalls are left.
InOrder(d) == d \in Firewall => todo \subseteq Firewall

-----------------------------------------------------------------------------
(***************************************************************************)
(* The cycle.                                                              *)
(***************************************************************************)

\* The process forgets a cycle when it ends: returned, raised or killed.
CycleForgotten ==
    /\ phase' = "idle"
    /\ dry' = FALSE
    /\ targets' = {} /\ due' = {} /\ todo' = {} /\ suspended' = {}
    /\ read' = [d \in Device |-> None]
    /\ pc' = [d \in Device |-> "idle"]
    /\ config' = [d \in Device |-> None]
    /\ found' = [d \in Device |-> None]
    /\ outcome' = [d \in Device |-> "none"]
    /\ written' = [d \in Device |-> FALSE]
    /\ held' = [d \in Device |-> FALSE]
    /\ disturbed' = [d \in Device |-> FALSE]

\* Mutant: dueness is decided for every device, discovered or not.
DueAmongAll(discovered, notDue) == Device \ notDue

\* _due: everything discovered but the firewalls whose turn it is not.
DueAmong(discovered, notDue) == discovered \ notDue

\* discover() and the snapshot of the checksums.  The caller leaves the firewalls
\* in notDue out (the cadence), or none (--converge, a request).
\* A dry run sweeps nothing and reads no suspension.
StartCycle(isDry, notDue) ==
    /\ phase = "idle"
    /\ isDry => \A d \in Device : unswept[d] < MaxStranded
    /\ dry' = isDry
    /\ targets' = {d \in Device : artifact[d] # None}
    /\ due' = DueAmong(targets', notDue)
    /\ read' = artifact
    /\ todo' = IF isDry THEN {} ELSE targets'
    /\ phase' = IF isDry THEN "gate" ELSE "sweep"
    /\ held' = [d \in Device |-> Store!IsSuspended(record[d])]
    /\ unswept' = [d \in Device |-> IF isDry THEN unswept[d] + 1 ELSE unswept[d]]
    /\ UNCHANGED <<world, calm, suspended, turn, written, disturbed, known, raced>>

\* Mutant: the sweep does not recognise the candidates it should clear.
SweepTargetMissesCandidates(d) ==
    /\ phase = "sweep" /\ d \in todo /\ InOrder(d)
    /\ todo' = todo \ {d}
    /\ unswept' = [unswept EXCEPT ![d] = 0]
    /\ UNCHANGED <<world, calm, phase, dry, targets, due, suspended, read, turn,
                   written, disturbed, held, known, raced>>

\* sweep(): this service's own comparison leftovers.  SR Linux candidates are
\* matched by a prefix the push candidates share; EOS push sessions are not.
SweepTarget(d) ==
    /\ phase = "sweep" /\ d \in todo /\ InOrder(d)
    /\ todo' = todo \ {d}
    /\ sessions' = [sessions EXCEPT ![d] = 0]
    /\ pushSession' = [pushSession EXCEPT ![d] = @ /\ d \in Eos]
    /\ unswept' = [unswept EXCEPT ![d] = 0]
    /\ UNCHANGED <<artifact, running, undo, record, calm, phase, dry, targets, due,
                   suspended, read, turn, written, disturbed, held, known, raced>>

\* A failed sweep must not stop the cycle.
SweepFails(d) ==
    /\ phase = "sweep" /\ d \in todo /\ InOrder(d)
    /\ Faulty(d) /\ unswept[d] < MaxStranded
    /\ todo' = todo \ {d}
    /\ unswept' = [unswept EXCEPT ![d] = @ + 1]
    /\ UNCHANGED <<world, calm, phase, dry, targets, due, suspended, read, turn,
                   written, disturbed, held, known, raced>>

SweepDone ==
    /\ phase = "sweep" /\ todo = {}
    /\ phase' = "gate"
    /\ todo' = due
    /\ UNCHANGED <<world, calm, dry, targets, due, suspended, read, turn, ghost>>

\* store.is_suspended, one device after the other.
ReadSuspension(d) ==
    /\ phase = "gate" /\ d \in todo
    /\ todo' = todo \ {d}
    /\ suspended' = IF Store!IsSuspended(record[d]) THEN suspended \union {d} ELSE suspended
    /\ UNCHANGED <<world, calm, phase, dry, targets, due, read, turn, ghost>>

\* Mutant: suspension is read and reported, and the device handled all the same.
RunnableWhenSuspended == due

Runnable == due \ suspended

\* run_over starts a turn for every runnable host of the inventory it is given.
RunOver(hosts) == pc' = [d \in Device |-> IF d \in hosts THEN "read" ELSE pc[d]]

Finished(hosts) == \A d \in hosts : pc[d] = "done"

\* Mutant: the fabric and the firewalls are one inventory.
RunFabricAndFirewalls ==
    /\ phase = "gate" /\ todo = {}
    /\ phase' = "fabric"
    /\ RunOver(Runnable)
    /\ UNCHANGED <<world, calm, dry, targets, due, todo, suspended, read,
                   config, found, outcome, ghost>>

RunFabric ==
    /\ phase = "gate" /\ todo = {}
    /\ phase' = "fabric"
    /\ RunOver(Runnable \ Firewall)
    /\ UNCHANGED <<world, calm, dry, targets, due, todo, suspended, read,
                   config, found, outcome, ghost>>

RunFirewalls ==
    /\ phase = "fabric" /\ Finished(Runnable \ Firewall)
    /\ phase' = "firewall"
    /\ RunOver(Runnable \intersect Firewall)
    /\ UNCHANGED <<world, calm, dry, targets, due, todo, suspended, read,
                   config, found, outcome, ghost>>

CollectOutcomes ==
    /\ phase = "firewall" /\ Finished(Runnable \intersect Firewall)
    /\ phase' = "record"
    /\ todo' = {d \in Device : outcome[d] # "none"}
    /\ UNCHANGED <<world, calm, dry, targets, due, suspended, read, turn, ghost>>

-----------------------------------------------------------------------------
(***************************************************************************)
(* One device's turn (reconcile_host).  Turns of the fabric run in         *)
(* parallel threads; nothing in them touches the records.                  *)
(***************************************************************************)

RestUnchanged ==
    UNCHANGED <<artifact, record, calm, cycle, held, unswept, known, raced>>

\* The turn ends with a verdict.
Ends(d, verdict) ==
    /\ pc' = [pc EXCEPT ![d] = "done"]
    /\ outcome' = [outcome EXCEPT ![d] = verdict]

\* read_intent: the artifact as it is stored now, not as discovery saw it.
ReadIntent(d) ==
    /\ pc[d] = "read"
    /\ artifact[d] \notin {None, Empty}
    /\ config' = [config EXCEPT ![d] = artifact[d]]
    /\ pc' = [pc EXCEPT ![d] = "open"]
    /\ UNCHANGED <<running, undo, sessions, pushSession, found, outcome, written, disturbed>>
    /\ RestUnchanged

\* It is empty, it is gone, or it could not be downloaded.
ReadRefused(d) ==
    /\ pc[d] = "read"
    /\ artifact[d] \in {None, Empty} \/ Faulty(d)
    /\ Ends(d, "failed")
    /\ UNCHANGED <<running, undo, sessions, pushSession, config, found, written, disturbed>>
    /\ RestUnchanged

\* The artifact is loaded as a candidate and the device computes its own diff.
OpenCandidate(d) ==
    /\ pc[d] = "open"
    /\ ComparesOnlySafe(d) => config[d] # Unsafe
    /\ found' = [found EXCEPT ![d] = running[d]]
    /\ sessions' = IF KeepsSessions(d) THEN [sessions EXCEPT ![d] = @ + 1] ELSE sessions
    /\ disturbed' = [disturbed EXCEPT ![d] = FALSE]
    /\ pc' = [pc EXCEPT ![d] = "close"]
    /\ UNCHANGED <<running, undo, pushSession, config, outcome, written>>
    /\ RestUnchanged

\* The lifeline is missing, or the device did not answer and opened nothing.
OpenFails(d) ==
    /\ pc[d] = "open"
    /\ (ComparesOnlySafe(d) /\ config[d] = Unsafe) \/ Faulty(d)
    /\ Ends(d, "failed")
    /\ UNCHANGED <<running, undo, sessions, pushSession, config, found, written, disturbed>>
    /\ RestUnchanged

\* Mutant: a dry run pushes what differs.
CloseCandidateAndPush(d) ==
    /\ pc[d] = "close"
    /\ sessions' = IF KeepsSessions(d) THEN [sessions EXCEPT ![d] = @ - 1] ELSE sessions
    /\ \/ /\ found[d] = config[d]
          /\ Ends(d, "same")
       \/ /\ found[d] # config[d]
          /\ pc' = [pc EXCEPT ![d] = "push"]
          /\ UNCHANGED outcome
    /\ UNCHANGED <<running, undo, pushSession, config, found, written, disturbed>>
    /\ RestUnchanged

\* The candidate is discarded and the diff is the verdict.
CloseCandidate(d) ==
    /\ pc[d] = "close"
    /\ sessions' = IF KeepsSessions(d) THEN [sessions EXCEPT ![d] = @ - 1] ELSE sessions
    /\ \/ /\ found[d] = config[d]
          /\ Ends(d, "same")
       \/ /\ found[d] # config[d] /\ dry
          /\ Ends(d, "differs")
       \/ /\ found[d] # config[d] /\ ~dry
          /\ pc' = [pc EXCEPT ![d] = "push"]
          /\ UNCHANGED outcome
    /\ UNCHANGED <<running, undo, pushSession, config, found, written, disturbed>>
    /\ RestUnchanged

\* The diff is lost, or the abort in the finally clause raises over it: the
\* turn fails either way, with or without the session left on the device.
CloseFails(d) ==
    /\ pc[d] = "close" /\ Faulty(d)
    /\ \E stranded \in BOOLEAN :
          sessions' = IF KeepsSessions(d) /\ ~stranded
                      THEN [sessions EXCEPT ![d] = @ - 1] ELSE sessions
    /\ Ends(d, "failed")
    /\ UNCHANGED <<running, undo, pushSession, config, found, written, disturbed>>
    /\ RestUnchanged

\* Mutant: the lifeline is not asserted before the push.
CommitsUnchecked(d) ==
    /\ running' = [running EXCEPT ![d] = config[d]]
    /\ undo' = IF ConfirmsCommits(d) THEN [undo EXCEPT ![d] = running[d]] ELSE undo
    /\ written' = [written EXCEPT ![d] = TRUE]

\* The commit itself.  SR Linux and Junos arm a rollback to what was running.
Commits(d) ==
    /\ config[d] # Unsafe
    /\ running' = [running EXCEPT ![d] = config[d]]
    /\ undo' = IF ConfirmsCommits(d) THEN [undo EXCEPT ![d] = running[d]] ELSE undo
    /\ written' = [written EXCEPT ![d] = TRUE]

\* PUSHERS: the configuration that was compared, as a full replace.
Push(d) ==
    /\ pc[d] = "push"
    /\ Commits(d)
    /\ IF ConfirmsCommits(d)
       THEN pc' = [pc EXCEPT ![d] = "confirm"] /\ UNCHANGED outcome
       ELSE Ends(d, "pushed")
    /\ UNCHANGED <<sessions, pushSession, config, found, disturbed>>
    /\ RestUnchanged

\* The device committed and its answer was lost: the turn fails, the rollback
\* of a confirmed commit stays armed.
PushAnswerLost(d) ==
    /\ pc[d] = "push" /\ Faulty(d)
    /\ Commits(d)
    /\ Ends(d, "failed")
    /\ UNCHANGED <<sessions, pushSession, config, found, disturbed>>
    /\ RestUnchanged

\* The lifeline assertion refuses before anything reaches the device; the
\* device refuses and is left as it was, but for the session it was sent.
PushRefused(d) ==
    /\ pc[d] = "push"
    /\ \/ config[d] = Unsafe /\ UNCHANGED pushSession
       \/ /\ config[d] # Unsafe /\ Faulty(d)
          /\ \E left \in BOOLEAN :
                pushSession' = [pushSession EXCEPT ![d] = @ \/ (left /\ KeepsSessions(d))]
    /\ Ends(d, "failed")
    /\ UNCHANGED <<running, undo, sessions, config, found, written, disturbed>>
    /\ RestUnchanged

\* Mutant: management is checked, but the commit is never accepted.
ConfirmNotAccepted(d) ==
    /\ pc[d] = "confirm" /\ undo[d] # None
    /\ Ends(d, "pushed")
    /\ UNCHANGED <<running, undo, sessions, pushSession, config, found, written, disturbed>>
    /\ RestUnchanged

\* Management answered and the commit is accepted before its rollback fired.
Confirm(d) ==
    /\ pc[d] = "confirm" /\ undo[d] # None
    /\ undo' = [undo EXCEPT ![d] = None]
    /\ Ends(d, "pushed")
    /\ UNCHANGED <<running, sessions, pushSession, config, found, written, disturbed>>
    /\ RestUnchanged

\* Management did not answer, or the accept was refused or its answer lost: the
\* commit is rejected at once, left to its rollback, or was accepted after all.
ConfirmFails(d) ==
    /\ pc[d] = "confirm"
    /\ undo[d] = None \/ Faulty(d)
    /\ \/ UNCHANGED <<running, undo>>
       \/ /\ undo[d] # None
          /\ undo' = [undo EXCEPT ![d] = None]
          /\ running' \in {running, [running EXCEPT ![d] = undo[d]]}
    /\ Ends(d, "failed")
    /\ UNCHANGED <<sessions, pushSession, config, found, written, disturbed>>
    /\ RestUnchanged

-----------------------------------------------------------------------------
(***************************************************************************)
(* The records, after every turn has ended.                                *)
(***************************************************************************)

Failure == [status |-> "failed", confirmed |-> FALSE, pushed |-> FALSE,
            checksum |-> None, error |-> TRUE]

InSync(checksum) == [status |-> "in_sync", confirmed |-> TRUE, pushed |-> FALSE,
                     checksum |-> checksum, error |-> FALSE]

\* pending when the intent moved since the last record, drifted when it did not.
Replaced(previous, checksum) ==
    [status |-> IF previous # None /\ previous # checksum THEN "pending" ELSE "drifted",
     confirmed |-> FALSE, pushed |-> TRUE, checksum |-> checksum, error |-> FALSE]

\* Mutant: a push is recorded as a confirmation.
JudgedByThePush(d) == IF outcome[d] = "failed" THEN Failure ELSE InSync(read[d])

Judged(d) ==
    CASE outcome[d] = "failed" -> Failure
      [] outcome[d] = "same"   -> InSync(read[d])
      [] OTHER -> Replaced(Store!LastChecksum(record[d]), read[d])

\* One iteration of the loop over the outcomes; a dry run records nothing.
RecordOutcome(d) ==
    /\ phase = "record" /\ d \in todo
    /\ todo' = todo \ {d}
    /\ IF dry
       THEN UNCHANGED <<record, known, raced>>
       ELSE /\ record' = [record EXCEPT ![d] = Store!Recorded(@, Judged(d))]
            /\ IF outcome[d] = "failed"
               THEN UNCHANGED <<known, raced>>
               ELSE /\ known' = [known EXCEPT ![d] = config[d]]
                    /\ raced' = [raced EXCEPT ![d] = config[d] # read[d]]
    /\ UNCHANGED <<artifact, running, undo, sessions, pushSession, calm, phase, dry, targets,
                   due, suspended, read, turn, written, disturbed, held, unswept>>

\* Mutant: one record that cannot be written ends the loop over the outcomes.
RecordsAbandoned ==
    /\ phase = "record"
    /\ phase' = IF dry THEN "report" ELSE "orphans"
    /\ UNCHANGED <<world, calm, dry, targets, due, todo, suspended, read, turn, ghost>>

RecordsWritten ==
    /\ phase = "record" /\ todo = {}
    /\ phase' = IF dry THEN "report" ELSE "orphans"
    /\ UNCHANGED <<world, calm, dry, targets, due, todo, suspended, read, turn, ghost>>

\* Mutant: a device whose turn it is not counts as gone.
SweepOrphansAndAbsent ==
    /\ phase = "orphans"
    /\ record' = Store!WithoutOrphans(record, due)
    /\ phase' = "report"
    /\ UNCHANGED <<artifact, running, undo, sessions, pushSession, calm, dry, targets, due,
                   todo, suspended, read, turn, ghost>>

SweepOrphans ==
    /\ phase = "orphans"
    /\ record' = Store!WithoutOrphans(record, targets)
    /\ phase' = "report"
    /\ UNCHANGED <<artifact, running, undo, sessions, pushSession, calm, dry, targets, due,
                   todo, suspended, read, turn, ghost>>

\* run_cycle returns its report to the caller.
Return ==
    /\ phase = "report"
    /\ CycleForgotten
    /\ UNCHANGED <<world, calm, unswept, known, raced>>

\* The process is killed, or a call to Infrahub raises out of run_cycle: every
\* turn stops where it is and nobody tidies up after it.
Stop ==
    /\ phase # "idle" /\ ~calm
    /\ CycleForgotten
    /\ UNCHANGED <<world, calm, unswept, known, raced>>

-----------------------------------------------------------------------------
(***************************************************************************)
(* Everybody else.                                                         *)
(***************************************************************************)

\* The generators and the artifact pipeline store another rendering.
Rerender(d) ==
    /\ ~calm
    /\ \E c \in Offer[d] \ {artifact[d]} : artifact' = [artifact EXCEPT ![d] = c]
    /\ UNCHANGED <<running, undo, sessions, pushSession, record, calm, cycle, turn, ghost>>

\* Somebody reconfigures the device, while no confirmed commit is pending on it.
EditByHand(d) ==
    /\ ~calm /\ d \in Tampered /\ undo[d] = None
    /\ running[d] # Foreign
    /\ running' = [running EXCEPT ![d] = Foreign]
    /\ disturbed' = [disturbed EXCEPT ![d] = phase # "idle"]
    /\ UNCHANGED <<artifact, undo, sessions, pushSession, record, calm, cycle, turn,
                   written, held, unswept, known, raced>>

\* The timer of an unconfirmed commit expires.  Once calm, the management check
\* and the accept together take less than that timer.
RollbackFires(d) ==
    /\ undo[d] # None
    /\ calm => pc[d] # "confirm"
    /\ running' = [running EXCEPT ![d] = undo[d]]
    /\ undo' = [undo EXCEPT ![d] = None]
    /\ disturbed' = [disturbed EXCEPT ![d] = phase # "idle"]
    /\ UNCHANGED <<artifact, sessions, pushSession, record, calm, cycle, turn,
                   written, held, unswept, known, raced>>

\* The operator suspends or resumes a device.
Operate(d) ==
    /\ ~calm /\ d \in Operable
    /\ record' = [record EXCEPT ![d] = Store!Operated(@, ~@.suspend)]
    /\ held' = [held EXCEPT ![d] = FALSE]
    /\ UNCHANGED <<artifact, running, undo, sessions, pushSession, calm, cycle, turn,
                   written, disturbed, unswept, known, raced>>

CalmDown ==
    /\ MayCalm /\ ~calm
    /\ calm' = TRUE
    /\ UNCHANGED <<world, cycle, turn, ghost>>

-----------------------------------------------------------------------------
TakeTurn(d) ==
    \/ ReadIntent(d) \/ ReadRefused(d)
    \/ OpenCandidate(d) \/ OpenFails(d)
    \/ CloseCandidate(d) \/ CloseFails(d)
    \/ Push(d) \/ PushAnswerLost(d) \/ PushRefused(d)
    \/ Confirm(d) \/ ConfirmFails(d)

\* What the process does within a cycle.
Proceed ==
    \/ SweepDone \/ RunFabric \/ RunFirewalls \/ CollectOutcomes
    \/ RecordsWritten \/ SweepOrphans \/ Return
    \/ \E d \in Device : SweepTarget(d) \/ SweepFails(d) \/ ReadSuspension(d)
                         \/ TakeTurn(d) \/ RecordOutcome(d)

Environment ==
    \/ CalmDown
    \/ \E d \in Device : Rerender(d) \/ EditByHand(d) \/ RollbackFires(d) \/ Operate(d)

Next ==
    \/ \E isDry \in BOOLEAN, notDue \in SUBSET Firewall : StartCycle(isDry, notDue)
    \/ Proceed
    \/ Stop
    \/ Environment

Spec == Init /\ [][Next]_vars

\* The process runs, cycles over everything keep being started (the cadence of
\* run_forever), and rollback timers expire.
Fairness ==
    /\ WF_vars(Proceed)
    /\ SF_vars(StartCycle(FALSE, {}))
    /\ \A d \in Device : WF_vars(RollbackFires(d))

FairSpec == Spec /\ Fairness

-----------------------------------------------------------------------------
(***************************************************************************)
(* Safety.                                                                 *)
(***************************************************************************)

\* Whatever is stored as an artifact, and whenever it is re-rendered, no device
\* is ever left running an empty configuration or one without its lifeline
\* (read_intent and the lifeline assertions refuse; what is compared is what
\* is pushed).
NeverErased == \A d \in Device : running[d] \notin {Empty, Unsafe}

\* A record is coherent after any sequence of outcomes and operator edits: it is
\* in_sync exactly when its last check confirmed it, it shows an error exactly
\* when its last check failed, it is pending or drifted exactly when its last
\* check pushed, and a device once brought into line has a checksum to tell the
\* two apart (StateStore.record).
RecordCoherent ==
    \A d \in Device :
        LET r == record[d] IN
        /\ r.status = "in_sync" <=> r.confirmed
        /\ r.status = "failed" <=> r.error
        /\ r.status \in {"pending", "drifted"} <=> r.attempted
        /\ r.checksum = None => r.status \in {"absent", "never_deployed", "failed"}

Busy(d) == pc[d] \notin {"idle", "done"}

\* No firewall is compared or pushed while a turn on the fabric is under way:
\* its comparison holds an exclusive lock (split_firewalls, run_cycle).
FirewallsRunAlone ==
    \A f \in Firewall, d \in Device : Busy(f) /\ Busy(d) => d \in Firewall

\* A device gathers no more abandoned comparison sessions than cycles that went
\* without a successful sweep, plus the one in use or just abandoned: a process
\* killed however often cannot exhaust the sessions of a device it can sweep.
StrandedSessionsBounded == \A d \in Device : sessions[d] <= unswept[d] + 1

\* A full cycle that reports nothing different and nothing failed has a record
\* in_sync, confirmed by this very cycle, for every target that is not
\* suspended: what converge and the CLI conclude from the report.
CleanReportMeansConfirmed ==
    phase = "report" /\ ~dry /\ due = targets
    /\ (\A d \in Device : outcome[d] \in {"none", "same"})
        => \A d \in targets \ suspended : record[d].status = "in_sync"

OperatorsOnly(d) == record'[d].suspend # record[d].suspend
                    /\ record'[d] = Store!Operated(record[d], record'[d].suspend)

\* A record confirms a device only when the device itself answered that it
\* matches the artifact this cycle downloaded, never because of a push, whether
\* that push was acknowledged or its answer was lost: at that moment the cycle
\* has not written the device, and unless somebody else has changed it since
\* it runs that artifact.
ConfirmationIsEarned ==
    [][\A d \in Device :
          RecordOutcome(d) /\ ~dry /\ record'[d].confirmed
              => ~written[d] /\ (disturbed[d] \/ running[d] = config[d])]_vars

\* A record says drifted, rather than pending, only of a device that moved: its
\* diff was taken against another configuration than the one of its last
\* successful record.  Two windows are excepted: an artifact re-rendered between
\* discovery and download in this cycle, or in the one of that record.
DriftMeansTheDeviceMoved ==
    [][\A d \in Device :
          RecordOutcome(d) /\ ~dry /\ record'[d].status = "drifted"
          /\ record[d].checksum # None /\ ~raced[d] /\ read[d] = config[d]
              => found[d] # known[d]]_vars

\* From the start of a cycle to its end, a target suspended all along is neither
\* compared nor written, and its record changes by nobody's hand but the
\* operator's.  (A dry run compares suspended devices too.)
SuspendedIsLeftAlone ==
    [][phase # "idle" /\ ~dry =>
          \A d \in targets :
              held[d] => /\ pc'[d] = "idle"
                         /\ ~written'[d]
                         /\ record'[d] # record[d] => OperatorsOnly(d)]_vars

\* A dry run writes nothing to a device and nothing to Infrahub.
DryRunLeavesNoTrace ==
    [][dry => \A d \in Device :
                  /\ ~written'[d]
                  /\ pushSession'[d] = pushSession[d]
                  /\ record'[d] # record[d] => OperatorsOnly(d)]_vars

(***************************************************************************)
(* Liveness.                                                               *)
(***************************************************************************)

Serviceable(d) == artifact[d] \in Render /\ ~record[d].suspend
InLine(d) == running[d] = artifact[d] /\ record[d].status = "in_sync"

\* Once nobody interferes any more, every device with a usable artifact that is
\* not suspended ends up running that artifact, with a record that says so, and
\* stays there: whatever was lost, killed, armed or edited before.
Converges == \A d \in Device : calm /\ Serviceable(d) ~> []InLine(d)

(***************************************************************************)
(* The part of it that needs no fairness: what undisturbed cycles do, once *)
(* they run, whatever the other devices are still going through.           *)
(***************************************************************************)

\* A cycle that is to compare the device has begun, and no rollback is armed.
Begun(d) == calm /\ phase = "sweep" /\ d \in due /\ Serviceable(d) /\ undo[d] = None

\* One such cycle leaves the device running its artifact, and so do all that follow.
OneCycleAligns ==
    \A d \in Device : [](Begun(d) => [](phase = "idle" => running[d] = artifact[d]))

\* Of a device that runs it already, one such cycle leaves a record in_sync, and
\* no later cycle, full, partial or dry, takes that back: with the first, the two
\* cycles converge needs at least are all it needs.
NextCycleConfirms ==
    \A d \in Device :
        [](Begun(d) /\ running[d] = artifact[d] => [](phase = "idle" => []InLine(d)))

\* A device in line between two cycles, however it got there, stays so.
AtRest(d) == calm /\ phase = "idle" /\ Serviceable(d) /\ undo[d] = None /\ InLine(d)

RestIsKept == \A d \in Device : [](AtRest(d) => []InLine(d))

CyclesSettle == OneCycleAligns /\ NextCycleConfirms /\ RestIsKept

-----------------------------------------------------------------------------
(***************************************************************************)
(* What the documentation claims and the code does not do.                 *)
(***************************************************************************)

\* "Read before the device is reached, so a suspended device is never connected
\* to -- no session opened, no lock taken" (is_suspended).
SuspendedIsNeverReached ==
    [][\A d \in Device : held[d] => ~SweepTarget(d)]_vars

\* "suspend and suspend_reason belong to the operator", which the service "must
\* never touch" (state.py).
SuspendIsTheOperators ==
    [][\A d \in Device : record'[d].suspend # record[d].suspend => OperatorsOnly(d)]_vars

\* "Every configuration session ... this service creates carries this prefix, so
\* the sweep can recognise its own leftovers" (compare.py).
SweepFindsItsOwn ==
    \A d \in Device : phase = "gate" /\ ~dry /\ d \in targets /\ unswept[d] = 0
        => sessions[d] = 0 /\ ~pushSession[d]
===============================================================================
