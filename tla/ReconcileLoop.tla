----------------------------- MODULE ReconcileLoop -----------------------------
(***************************************************************************)
(* run_forever (deployment/reconcile.py): the service.  Cycles and waits   *)
(* alternate; why a wait ended, and what the cycle before it pushed,       *)
(* decide which devices the next cycle compares (_cycle_arguments, _due).  *)
(* The wait is the one of WakeContract, and what a cycle does to a device  *)
(* is the matter of Reconcile: here it returns the devices it pushed, or   *)
(* raises.  The process is killed and restarted at any point.              *)
(***************************************************************************)
EXTENDS Naturals

CONSTANTS
    Device,
    Firewall,        \* the devices whose comparison locks them
    Checksum,
    None,
    FirewallEvery,   \* scheduled cycles between two comparisons of a firewall
    MayRaise         \* whether a cycle may fail entirely

ASSUME LoopAssumption ==
    /\ Firewall \subseteq Device
    /\ None \notin [Device -> Checksum]
    /\ FirewallEvery \in Nat \ {0}
    /\ MayRaise \in BOOLEAN

VARIABLES
    published, requested,        \* the world: artifact checksums, the trigger file
    calm,                        \* intent rests, nothing needs a push, nothing is killed
    stage,                       \* "boot", "ready", "cycle" or "wait"
    baseline, reason, moved,     \* the wait and what it answered
    cadence,                     \* scheduled_cycles % FIREWALL_EVERY
    followUp,                    \* pushed last cycle, awaiting a confirming comparison
    scheduled, due, read,        \* the running cycle: its arguments, its snapshot
    since,                       \* ghost: scheduled cycles since the firewalls' turn
    firstPush,                   \* ghost: pushed by the last cycle and not by the one before
    pushedBefore,                \* ghost: pushed by the last cycle
    comparedAs                   \* ghost: the checksum each device was last compared with

world == <<published, requested, calm>>
wait  == <<baseline, reason, moved>>
cycle == <<scheduled, due, read>>
ghost == <<since, firstPush, pushedBefore, comparedAs>>
vars  == <<world, stage, wait, cadence, followUp, cycle, ghost>>

Wait == INSTANCE WakeContract WITH waiting <- (stage = "wait")

Snapshot == [Device -> Checksum]

TypeOK ==
    /\ published \in Snapshot
    /\ requested \in BOOLEAN
    /\ calm \in BOOLEAN
    /\ stage \in {"boot", "ready", "cycle", "wait"}
    /\ baseline \in Snapshot \union {None}
    /\ reason \in Wait!Reason
    /\ moved \subseteq Device
    /\ cadence \in 0 .. FirewallEvery - 1
    /\ followUp \subseteq Device
    /\ scheduled \in BOOLEAN
    /\ due \subseteq Device
    /\ read \in Snapshot \union {None}
    /\ since \in 1 .. FirewallEvery
    /\ firstPush \subseteq Device
    /\ pushedBefore \subseteq Device
    /\ comparedAs \in [Device -> Checksum \union {None}]

\* A request may be left from before the process started.
Init ==
    /\ published \in Snapshot
    /\ requested \in BOOLEAN
    /\ calm = FALSE
    /\ stage = "boot"
    /\ baseline = None /\ reason = "start" /\ moved = {}
    /\ cadence = 0
    /\ followUp = {}
    /\ scheduled = FALSE /\ due = {} /\ read = None
    /\ since = FirewallEvery
    /\ firstPush = {} /\ pushedBefore = {}
    /\ comparedAs = [d \in Device |-> None]

-----------------------------------------------------------------------------
\* The first cycle runs at once, and answers a request that was left.
Boot ==
    /\ stage = "boot"
    /\ stage' = "ready"
    /\ requested' = FALSE
    /\ reason' = "start" /\ moved' = {}
    /\ UNCHANGED <<published, calm, baseline, cadence, followUp, cycle, ghost>>

\* _cycle_arguments: only these cycles advance the firewalls' count.
IsScheduled == reason \in {"start", "interval"} /\ followUp = {}

Forced == moved \union followUp

\* Mutant: an early cycle takes the firewall's lock on its own account.
IsDueOnEarlyCycles(d) ==
    \/ reason = "requested"
    \/ d \in Forced
    \/ d \in Firewall => cadence = 0

\* Mutant: a request is one more early cycle.
IsDueWhenRequested(d) ==
    \/ d \in Forced
    \/ d \in Firewall => IsScheduled /\ cadence = 0

\* _due
IsDue(d) ==
    \/ reason = "requested"
    \/ d \in Forced
    \/ d \in Firewall => IsScheduled /\ cadence = 0

StartCycle ==
    /\ stage = "ready"
    /\ stage' = "cycle"
    /\ scheduled' = IsScheduled
    /\ due' = {d \in Device : IsDue(d)}
    /\ read' = published
    /\ comparedAs' = [d \in Device |-> IF d \in due' THEN published[d] ELSE comparedAs[d]]
    /\ UNCHANGED <<world, wait, cadence, followUp, since, firstPush, pushedBefore>>

\* Mutant: the count wraps one too late.
CountedOneTooMany ==
    /\ cadence' = IF scheduled THEN (cadence % FirewallEvery) + 1 ELSE cadence
    /\ since' = IF ~scheduled THEN since
                ELSE IF since = FirewallEvery THEN 1 ELSE since + 1
    /\ scheduled' = FALSE /\ due' = {} /\ read' = None

\* The count advances with every scheduled cycle, whether it returned or raised.
Counted ==
    /\ cadence' = IF scheduled THEN (cadence + 1) % FirewallEvery ELSE cadence
    /\ since' = IF ~scheduled THEN since
                ELSE IF since = FirewallEvery THEN 1 ELSE since + 1
    /\ scheduled' = FALSE /\ due' = {} /\ read' = None

\* Mutant: one early confirmation at a time.
EarnedOneAtATime(pushed) == IF followUp = {} THEN pushed ELSE {}

\* Mutant: what awaits a confirmation is never struck off.
EarnedForEver(pushed) == pushed \union followUp

\* Each push earns one early confirmation.
Earned(pushed) == pushed \ followUp

\* The wait starts from what the cycle read.
EndCycle(pushed) ==
    /\ stage = "cycle"
    /\ pushed \subseteq due /\ (calm => pushed = {})
    /\ stage' = "wait"
    /\ Wait!BeginWait(read)
    /\ followUp' = Earned(pushed)
    /\ Counted
    /\ firstPush' = pushed \ pushedBefore
    /\ pushedBefore' = pushed
    /\ UNCHANGED <<calm, comparedAs>>

\* What it pushed is forgotten; the wait starts from what is there now, if that can be read.
CycleRaises ==
    /\ stage = "cycle" /\ MayRaise /\ ~calm
    /\ stage' = "wait"
    /\ \E from \in {published, None} : Wait!BeginWait(from)
    /\ followUp' = {}
    /\ Counted
    /\ firstPush' = {} /\ pushedBefore' = {}
    /\ UNCHANGED <<calm, comparedAs>>

\* wait_for_wake
WakeUp ==
    /\ stage = "wait"
    /\ stage' = "ready"
    /\ Wait!WakeUp
    /\ UNCHANGED <<calm, cadence, followUp, cycle, ghost>>

FirstPoll ==
    /\ UNCHANGED <<calm, stage, cadence, followUp, cycle, ghost>>
    /\ Wait!FirstPoll

\* The process is killed and started again; nothing it knew survives.
Restart ==
    /\ stage # "boot" /\ ~calm
    /\ stage' = "boot"
    /\ baseline' = None
    /\ cadence' = 0
    /\ followUp' = {}
    /\ scheduled' = FALSE /\ due' = {} /\ read' = None
    /\ since' = FirewallEvery
    /\ firstPush' = {} /\ pushedBefore' = {}
    /\ UNCHANGED <<world, reason, moved, comparedAs>>

Rerender == ~calm /\ UNCHANGED <<calm, stage, cadence, followUp, cycle, ghost>> /\ Wait!Rerender

Request == UNCHANGED <<calm, stage, cadence, followUp, cycle, ghost>> /\ Wait!Request

CalmDown ==
    /\ ~calm
    /\ calm' = TRUE
    /\ UNCHANGED <<published, requested, stage, wait, cadence, followUp, cycle, ghost>>

EndsCycle == CycleRaises \/ \E pushed \in SUBSET Device : EndCycle(pushed)

Next ==
    \/ Boot \/ StartCycle \/ EndsCycle \/ WakeUp \/ FirstPoll
    \/ Restart \/ Rerender \/ Request \/ CalmDown

Spec == Init /\ [][Next]_vars

\* The process runs, what WakeContract promises of the wait, and a process that
\* is killed again and again still gets to a cycle at times.
Fairness ==
    /\ WF_vars(Boot)
    /\ SF_vars(StartCycle)
    /\ WF_vars(EndsCycle)
    /\ WF_vars(WakeUp)
    /\ SF_vars(WakeUp /\ reason' = "requested")

FairSpec == Spec /\ Fairness

-----------------------------------------------------------------------------
(***************************************************************************)
(* A firewall that nobody called for (its intent did not move, it was not  *)
(* just pushed, no request) is compared by a scheduled cycle only, and     *)
(* FirewallEvery scheduled cycles after the last such time: confirmations  *)
(* and early cycles neither take its lock nor bring its turn forward, and  *)
(* a scheduled cycle never misses it.                                      *)
(***************************************************************************)
FirewallKeepsItsCadence ==
    stage = "cycle" =>
        \A f \in Firewall \ Forced :
            reason # "requested" => (f \in due <=> scheduled /\ since = FirewallEvery)

(***************************************************************************)
(* A device that a cycle pushed, and the one before did not, is compared   *)
(* by the very next cycle, whatever starts it, the firewall included:      *)
(* without it last_confirmed_at would wait for the device's turn.          *)
(***************************************************************************)
FirstPushIsConfirmedNext == stage = "cycle" => firstPush \subseteq due

(***************************************************************************)
(* A request compares every device, firewall included, even one made while *)
(* a cycle runs, while the process is down, or just before it is killed.   *)
(***************************************************************************)
RequestComparesEverything == requested ~> (stage = "cycle" /\ due = Device)

(***************************************************************************)
(* Until then it is never lost: while a request is on file or its answer   *)
(* is owed (the wait took it and the cycle has not begun, or the process   *)
(* starts and its first cycle is to answer it), no step gives it up but    *)
(* the start of a cycle that compares every device: not a wait that ended  *)
(* for another reason first, not a failing cycle, not a kill in between.   *)
(***************************************************************************)
Owed == requested \/ stage = "boot" \/ (stage = "ready" /\ reason \in {"start", "requested"})

RequestIsKept == [][Owed => Owed' \/ (stage' = "cycle" /\ due' = Device)]_vars

(***************************************************************************)
(* Once intent rests, nothing needs a push and nothing is killed, every    *)
(* device is compared again and again: neither requests nor what was being *)
(* confirmed keep the firewall from its turn.                              *)
(***************************************************************************)
EveryDeviceComesRound == \A d \in Device : calm ~> (stage = "cycle" /\ d \in due)

(***************************************************************************)
(* "artifacts that moved and held still: the fabric, plus the devices      *)
(* whose intent moved, so a firewall change is compared without waiting    *)
(* its turn" (_cycle_arguments): a firewall whose artifact is not the one  *)
(* it was compared with is one the wait sees as moved.                     *)
(***************************************************************************)
FirewallChangeWaitsForNoTurn ==
    stage = "wait" /\ baseline # None =>
        \A f \in Firewall : published[f] # comparedAs[f] => published[f] # baseline[f]
===============================================================================
