----------------------------- MODULE WakeContract -----------------------------
(***************************************************************************)
(* What run_forever relies on when it waits between two cycles: every wait *)
(* ends, for one of three reasons; a request ends one of them, once; and   *)
(* intent ends one only if it is not the intent the wait started from.     *)
(* Wake implements it (deployment/wake.py); ReconcileLoop builds on it.    *)
(***************************************************************************)
CONSTANTS
    Device,
    Checksum,
    None         \* nothing was read

VARIABLES
    published,   \* the artifact checksums Infrahub holds
    waiting,     \* the loop is between two cycles
    baseline,    \* what the wait compares them with
    reason,      \* why the last wait ended
    moved,       \* the devices whose intent moved, as the last wait saw it
    requested    \* the trigger file exists

wakeVars == <<published, waiting, baseline, reason, moved, requested>>

Snapshot == [Device -> Checksum]
Reason == {"start", "interval", "artifacts", "requested"}

\* moved(): the devices whose artifact changed checksum.
MovedDevices(before, after) == {d \in Device : before[d] # after[d]}

Init ==
    /\ published \in Snapshot
    /\ waiting = FALSE
    /\ baseline = None
    /\ reason = "start"
    /\ moved = {}
    /\ requested \in BOOLEAN

\* A generator run or a merge re-renders one device's artifact.
Rerender ==
    /\ \E d \in Device : \E c \in Checksum \ {published[d]} :
          published' = [published EXCEPT ![d] = c]
    /\ UNCHANGED <<waiting, baseline, reason, moved, requested>>

\* invoke reconcile --now touches the file.
Request ==
    /\ requested' = TRUE
    /\ UNCHANGED <<published, waiting, baseline, reason, moved>>

\* Mutant: a request made while the cycle ran is taken for one it answered.
BeginWaitAfresh(from) ==
    /\ ~waiting
    /\ waiting' = TRUE
    /\ baseline' = from
    /\ requested' = FALSE
    /\ UNCHANGED <<published, reason, moved>>

BeginWait(from) ==
    /\ ~waiting
    /\ waiting' = TRUE
    /\ baseline' = from
    /\ UNCHANGED <<published, reason, moved, requested>>

\* With nothing to compare with, the first poll that answers is the baseline.
Baselined == baseline = None /\ baseline' = published

FirstPoll ==
    /\ waiting
    /\ Baselined
    /\ UNCHANGED <<published, waiting, reason, moved, requested>>

\* The file is removed as it is read.
WakeRequested ==
    /\ waiting /\ requested
    /\ waiting' = FALSE
    /\ requested' = FALSE
    /\ reason' = "requested"
    /\ moved' = {}
    /\ UNCHANGED <<published, baseline>>

WakeArtifacts ==
    /\ waiting /\ baseline # None /\ published # baseline
    /\ waiting' = FALSE
    /\ reason' = "artifacts"
    /\ moved' = MovedDevices(baseline, published)
    /\ UNCHANGED <<published, baseline, requested>>

\* The interval ran out; a render that would not settle is named all the same.
WakeInterval ==
    /\ waiting
    /\ waiting' = FALSE
    /\ reason' = "interval"
    /\ moved' \in SUBSET Device
    /\ Baselined \/ UNCHANGED baseline
    /\ UNCHANGED <<published, requested>>

WakeUp == WakeRequested \/ WakeArtifacts \/ WakeInterval

Next ==
    \/ Rerender \/ Request \/ FirstPoll \/ WakeUp
    \/ \E from \in Snapshot \union {None} : BeginWait(from)

Spec == Init /\ [][Next]_wakeVars /\ WF_wakeVars(WakeUp) /\ SF_wakeVars(WakeRequested)
===============================================================================
