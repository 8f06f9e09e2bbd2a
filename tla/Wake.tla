--------------------------------- MODULE Wake ---------------------------------
(***************************************************************************)
(* wait_for_wake (deployment/wake.py): the wait between two cycles, which  *)
(* polls the artifact checksums and ends when the interval is over, or     *)
(* sooner on a request or when a moved set of checksums has held still.    *)
(* Between two waits a cycle runs; here it is no more than a moment.        *)
(*                                                                         *)
(* Time is counted in units of TICK from the start of the wait.  One turn  *)
(* of the loop takes from one unit to MaxTurn: a sleep of TICK, and a poll *)
(* that may be slow.                                                       *)
(***************************************************************************)
EXTENDS Integers, Sequences, SequencesExt

CONSTANTS
    Device,
    Checksum,
    None,           \* nothing was read
    Delays,         \* CONFIRM_DELAY and the interval
    PollSeconds,
    StablePolls,
    SettleLimit,
    MaxTurn

Snapshot == [Device -> Checksum]

ASSUME TimeAssumption ==
    /\ Delays \subseteq Nat /\ \E m \in Delays : \A n \in Delays : n <= m
    /\ {PollSeconds, StablePolls, SettleLimit, MaxTurn} \subseteq Nat \ {0}
    /\ None \notin Snapshot

\* moved(): the devices whose artifact changed checksum.
MovedDevices(before, after) == {d \in Device : before[d] # after[d]}

VARIABLES
    published,      \* the checksums Infrahub holds
    pc,             \* where the loop is; "woken" when the wait has returned
    requested, reason, moved,
    now, deadline, nextPoll,
    baseline, pending, agreeing,
    seen,           \* ghost: the last StablePolls snapshots polled in this wait
    still           \* ghost: how long every poll has answered and nothing moved

time  == <<now, deadline, nextPoll>>
watch == <<baseline, pending, agreeing>>
ghost == <<seen, still>>
vars  == <<published, pc, requested, reason, moved, time, watch, ghost>>

\* Mutant: the settle limit is measured from now, over and over.
hardDeadlineFromNow == now + SettleLimit

hardDeadline == deadline + SettleLimit

Waiting == pc # "woken"

\* The longest that StablePolls polls that all answer can take.
LongestAgreement == StablePolls * (PollSeconds + MaxTurn - 1)

\* No moment later than this one is told apart.
Horizon == SettleLimit + MaxTurn + CHOOSE m \in Delays : \A n \in Delays : n <= m

TypeOK ==
    /\ published \in Snapshot
    /\ pc \in {"turn", "sleep", "woken"}
    /\ requested \in BOOLEAN
    /\ reason \in {"start", "interval", "artifacts", "requested"}
    /\ moved \subseteq Device
    /\ now \in 0 .. Horizon
    /\ deadline \in Delays
    /\ nextPoll \in 0 .. Horizon + PollSeconds
    /\ baseline \in Snapshot \union {None}
    /\ pending \in Snapshot \union {None}
    /\ agreeing \in 0 .. StablePolls
    /\ seen \in Seq(Snapshot) /\ Len(seen) <= StablePolls
    /\ still \in 0 .. LongestAgreement + 1

\* The service starts with a cycle, not with a wait.
Init ==
    /\ published \in Snapshot
    /\ pc = "woken"
    /\ requested = FALSE
    /\ reason = "start"
    /\ moved = {}
    /\ now = 0
    /\ deadline \in Delays
    /\ nextPoll = 0
    /\ baseline = None
    /\ pending = None
    /\ agreeing = 0
    /\ seen = <<>>
    /\ still = 0

\* The wait starts from what the cycle read, which may have moved any number of
\* times since; after a cycle that failed, from what is there now, or nothing.
BeginWait(delay, from) ==
    /\ pc = "woken"
    /\ pc' = "turn"
    /\ now' = 0
    /\ deadline' = delay
    /\ nextPoll' = PollSeconds
    /\ baseline' = from
    /\ pending' = None
    /\ agreeing' = 0
    /\ seen' = <<>>
    /\ still' = 0
    /\ UNCHANGED <<published, requested, reason, moved>>

Return(why, devices) ==
    /\ pc' = "woken"
    /\ reason' = why
    /\ moved' = devices

\* Mutant: the trigger file is removed and the wait goes on.
RequestForgotten ==
    /\ pc = "turn" /\ requested
    /\ requested' = FALSE
    /\ pc' = "sleep"
    /\ UNCHANGED <<published, reason, moved, time, watch, ghost>>

\* The trigger file is there, and is removed as it is read.
Requested ==
    /\ pc = "turn" /\ requested
    /\ requested' = FALSE
    /\ Return("requested", {})
    /\ UNCHANGED <<published, time, watch, ghost>>

\* Mutant: a further movement does not reset the count.
ObserveWithoutReset(current) ==
    /\ baseline' = IF baseline = None THEN current ELSE baseline
    /\ CASE baseline = None     -> UNCHANGED <<pending, agreeing>>
         [] current = baseline  -> pending' = None /\ agreeing' = 0
         [] OTHER               -> pending' = current /\ agreeing' = agreeing + 1

\* Mutant: every poll starts the count again.
ObserveFromScratch(current) ==
    /\ baseline' = IF baseline = None THEN current ELSE baseline
    /\ CASE baseline = None     -> UNCHANGED <<pending, agreeing>>
         [] current = baseline  -> pending' = None /\ agreeing' = 0
         [] OTHER               -> pending' = current /\ agreeing' = 1

\* What a poll that answered does to the snapshot that moved and has not held still yet.
Observe(current) ==
    /\ baseline' = IF baseline = None THEN current ELSE baseline
    /\ CASE baseline = None     -> UNCHANGED <<pending, agreeing>>
         [] current = baseline  -> pending' = None /\ agreeing' = 0
         [] current = pending   -> agreeing' = agreeing + 1 /\ UNCHANGED pending
         [] OTHER               -> pending' = current /\ agreeing' = 1

NoPollDue == now < nextPoll /\ UNCHANGED <<nextPoll, watch, ghost>>

Poll ==
    /\ now >= nextPoll
    /\ nextPoll' = now + PollSeconds
    /\ Observe(published)
    /\ seen' = LET all == Append(seen, published)
               IN  IF Len(all) > StablePolls THEN Tail(all) ELSE all
    /\ UNCHANGED still

\* A failed poll is logged and forgotten.
PollFails ==
    /\ now >= nextPoll
    /\ nextPoll' = now + PollSeconds
    /\ still' = 0
    /\ UNCHANGED <<watch, seen>>

HeldStill == pending' # None /\ agreeing' >= StablePolls

\* Mutant: a render under way at the deadline is compared half done.
IntervalOverRegardless == now >= deadline

\* Mutant: a render that keeps moving holds the cycle for ever.
IntervalOverWhenStill == now >= deadline /\ pending' = None

IntervalOver == now >= deadline /\ (pending' = None \/ now >= hardDeadline)

\* What this turn's poll, if there was one, leaves to decide.
Judge ==
    CASE HeldStill -> Return("artifacts", MovedDevices(baseline, pending'))
      [] ~HeldStill /\ IntervalOver ->
            Return("interval", IF pending' = None THEN {} ELSE MovedDevices(baseline, pending'))
      [] OTHER -> pc' = "sleep" /\ UNCHANGED <<reason, moved>>

\* One turn of the loop without a request.  A request that comes later in the
\* turn, or as the wait ends, is left for the next turn or the next wait.
Turn ==
    /\ pc = "turn" /\ ~requested
    /\ NoPollDue \/ Poll \/ PollFails
    /\ Judge
    /\ UNCHANGED <<published, requested, now, deadline>>

\* The rest of the turn's time.
Sleep ==
    /\ pc = "sleep"
    /\ pc' = "turn"
    /\ \E t \in 1 .. MaxTurn :
          /\ now' = now + t
          /\ still' = IF still + t > LongestAgreement THEN LongestAgreement + 1 ELSE still + t
    /\ UNCHANGED <<published, requested, reason, moved, deadline, nextPoll, watch, seen>>

\* A generator run or a merge re-renders one device's artifact.
Rerender ==
    /\ \E d \in Device : \E c \in Checksum \ {published[d]} :
          published' = [published EXCEPT ![d] = c]
    /\ still' = 0
    /\ UNCHANGED <<pc, requested, reason, moved, time, watch, seen>>

Request ==
    /\ requested' = TRUE
    /\ UNCHANGED <<published, pc, reason, moved, time, watch, ghost>>

Wait == Requested \/ Turn \/ Sleep

Loop == \E delay \in Delays, from \in Snapshot \union {None} : BeginWait(delay, from)

Next == Wait \/ Loop \/ Rerender \/ Request

\* The process runs: a cycle ends, and so does every turn of the wait.
Spec == Init /\ [][Next]_vars /\ WF_vars(Wait) /\ WF_vars(Loop)

-----------------------------------------------------------------------------
(***************************************************************************)
(* Rule 1 and rule 2 of the module's own documentation: the loop wakes on  *)
(* artifacts only for a snapshot that the last StablePolls polls agreed on *)
(* and that the last cycle did not read, and it names exactly the devices  *)
(* that moved.                                                             *)
(***************************************************************************)
WakesOnWhatHeldStill ==
    pc = "woken" /\ reason = "artifacts"
        => /\ Len(seen) = StablePolls
           /\ \A i \in DOMAIN seen : seen[i] = Last(seen)
           /\ Last(seen) # baseline
           /\ moved = MovedDevices(baseline, Last(seen)) /\ moved # {}

(***************************************************************************)
(* The interval ends a wait no earlier than it is due, and before the hard *)
(* deadline only if the last poll that answered saw nothing new: a render  *)
(* under way at the deadline holds the cycle.                              *)
(***************************************************************************)
IntervalHoldsForARender ==
    pc = "woken" /\ reason = "interval"
        => /\ now >= deadline
           /\ now < hardDeadline /\ seen # <<>> => Last(seen) = baseline

(***************************************************************************)
(* Rule 3: however often the artifacts move, no wait outlives the settle   *)
(* limit by more than one turn.                                            *)
(***************************************************************************)
NeverHeldPastSettleLimit == Waiting => now < hardDeadline + MaxTurn

(***************************************************************************)
(* Intent that moved, even while the cycle ran, is not left to the         *)
(* interval: once it has held still for the time StablePolls polls can     *)
(* take, and they answered, the wait is over.                              *)
(***************************************************************************)
StableMoveWakes ==
    Waiting /\ baseline # None /\ still > LongestAgreement => published = baseline

(***************************************************************************)
(* The wait implements the contract run_forever is built on: it ends, it   *)
(* ends for intent only when that is not what it started from and then     *)
(* names the devices that moved, and a request is never lost, whatever     *)
(* else ends the wait it falls in.                                         *)
(***************************************************************************)
Contract == INSTANCE WakeContract WITH waiting <- Waiting
ContractSpec == Contract!Spec
===============================================================================
