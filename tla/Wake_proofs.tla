----------------------------- MODULE Wake_proofs -----------------------------
(***************************************************************************)
(* What a wait keeps to, for any delays, poll interval, settle limit and   *)
(* number of polls that must agree, and however long each turn takes.      *)
(***************************************************************************)
EXTENDS Wake, TLAPS

\* The polls that agree are the last ones seen.
Alike ==
    /\ baseline = None => pending = None /\ seen = <<>>
    /\ pending = None => agreeing = 0 /\ (seen # <<>> => seen[Len(seen)] = baseline)
    /\ pending # None =>
          /\ pending # baseline
          /\ agreeing \in 1 .. Len(seen)
          /\ \A i \in 1 .. Len(seen) : i > Len(seen) - agreeing => seen[i] = pending

Agreement == Alike /\ (Waiting => agreeing < StablePolls)

\* The time since the last poll, or since the wait began.
Elapsed == now + PollSeconds - nextPoll

\* The most that it can be, for one turn may end just before a poll is due.
Longest == PollSeconds + MaxTurn - 1

Clocks ==
    /\ Waiting => Elapsed \in 0 .. Longest
    /\ pc = "sleep" => Elapsed < PollSeconds /\ now < hardDeadline
    /\ NeverHeldPastSettleLimit

\* The polls that saw what is published now, each at most Longest after the one before.
Polled == IF pending = published THEN agreeing ELSE 0

Recent ==
    Waiting /\ baseline # None /\ published # baseline => still <= Polled * Longest + Elapsed

Answered == WakesOnWhatHeldStill /\ IntervalHoldsForARender

WakeInv == TypeOK /\ Agreement /\ Clocks /\ Recent /\ Answered

USE TimeAssumption DEF time, watch, ghost, vars

LEMMA Positive ==
    /\ PollSeconds \in Nat \ {0} /\ StablePolls \in Nat \ {0}
    /\ SettleLimit \in Nat \ {0} /\ MaxTurn \in Nat \ {0}
    /\ Longest \in Nat \ {0} /\ PollSeconds <= Longest
<1>1. /\ PollSeconds \in Nat \ {0} /\ StablePolls \in Nat \ {0}
      /\ SettleLimit \in Nat \ {0} /\ MaxTurn \in Nat \ {0}
  OBVIOUS
<1> QED BY <1>1 DEF Longest

\* The horizon is beyond every hard deadline.
LEMMA Beyond ==
    Horizon \in Nat /\ \A n \in Delays : n + SettleLimit + MaxTurn <= Horizon
<1> DEFINE m == CHOOSE m \in Delays : \A n \in Delays : n <= m
<1>1. m \in Delays /\ \A n \in Delays : n <= m
  OBVIOUS
<1>2. m \in Nat
  BY <1>1
<1>3. Horizon = SettleLimit + MaxTurn + m
  BY DEF Horizon
<1> HIDE DEF m
<1>4. ASSUME NEW n \in Delays PROVE n + SettleLimit + MaxTurn <= Horizon
  <2>1. n \in Nat /\ n <= m
    BY <1>1
  <2> QED BY <2>1, <1>2, <1>3, Positive
<1> QED BY <1>2, <1>3, <1>4, Positive

\* Polls that agree, each at most Longest after the one before, take no longer than
\* LongestAgreement.
LEMMA Agreed ==
    ASSUME NEW n \in Nat
    PROVE  /\ n * Longest \in Nat
           /\ (n + 1) * Longest = n * Longest + Longest
           /\ n < StablePolls => n * Longest + Longest <= LongestAgreement
           /\ LongestAgreement \in Nat
<1> DEFINE k == Longest
<1>1. k \in Nat /\ LongestAgreement = StablePolls * k
  BY Positive DEF LongestAgreement, Longest
<1> HIDE DEF k
<1>2. n * k \in Nat /\ StablePolls * k \in Nat
  BY <1>1, Positive
<1>3. (n + 1) * k = n * k + k
  BY <1>1
<1>4. ASSUME n < StablePolls PROVE n * k + k <= StablePolls * k
  <2>1. PICK d \in Nat : StablePolls = n + 1 + d
    <3>1. StablePolls - (n + 1) \in Nat /\ StablePolls = n + 1 + (StablePolls - (n + 1))
      BY <1>4, Positive
    <3> QED BY <3>1
  <2>2. StablePolls * k = n * k + k + d * k /\ d * k \in Nat /\ n * k \in Nat
    BY <1>1, <2>1
  <2> QED BY <2>2, <1>1
<1> QED BY <1>1, <1>2, <1>3, <1>4 DEF k

\* What a poll adds is last, and the rest moves up.
LEMMA PollSeen ==
    ASSUME TypeOK, Poll
    PROVE  /\ published \in Snapshot /\ seen' \in Seq(Snapshot)
           /\ Len(seen') = IF Len(seen) = StablePolls THEN StablePolls ELSE Len(seen) + 1
           /\ seen'[Len(seen')] = published
           /\ \A i \in 1 .. Len(seen') - 1 : seen'[i] = seen[i + Len(seen) - (Len(seen') - 1)]
<1> DEFINE all == Append(seen, published)
<1>1. /\ published \in Snapshot /\ seen \in Seq(Snapshot) /\ Len(seen) <= StablePolls
      /\ Len(seen) \in Nat
  BY DEF TypeOK
<1>2. /\ all \in Seq(Snapshot) /\ Len(all) = Len(seen) + 1
      /\ \A i \in 1 .. Len(seen) : all[i] = seen[i]
      /\ all[Len(seen) + 1] = published
  BY <1>1
<1>3. seen' = IF Len(all) > StablePolls THEN Tail(all) ELSE all
  BY DEF Poll
<1> HIDE DEF all
<1>4. CASE Len(seen) = StablePolls
  <2>1. seen' = Tail(all) /\ all # <<>>
    BY <1>1, <1>2, <1>3, <1>4, Positive
  <2>2. /\ Tail(all) \in Seq(Snapshot) /\ Len(Tail(all)) = Len(all) - 1
        /\ \A i \in 1 .. Len(all) - 1 : Tail(all)[i] = all[i + 1]
    BY <2>1, <1>2
  <2> QED BY <1>1, <1>2, <1>4, <2>1, <2>2, Positive
<1>5. CASE Len(seen) # StablePolls
  <2>1. seen' = all
    BY <1>1, <1>2, <1>3, <1>5, Positive
  <2> QED BY <1>1, <1>2, <1>5, <2>1, Positive
<1> QED BY <1>4, <1>5

WatchTypes ==
    /\ baseline \in Snapshot \union {None} /\ pending \in Snapshot \union {None}
    /\ agreeing \in 0 .. StablePolls
    /\ seen \in Seq(Snapshot) /\ Len(seen) <= StablePolls

\* What a poll that answers leaves of the agreement.
LEMMA PollAlike ==
    ASSUME TypeOK, Agreement, Waiting, Poll
    PROVE  WatchTypes' /\ Alike'
<1>1. /\ published \in Snapshot /\ published # None /\ seen' \in Seq(Snapshot)
      /\ Len(seen') = IF Len(seen) = StablePolls THEN StablePolls ELSE Len(seen) + 1
      /\ seen'[Len(seen')] = published
      /\ \A i \in 1 .. Len(seen') - 1 : seen'[i] = seen[i + Len(seen) - (Len(seen') - 1)]
  BY PollSeen
<1>2. /\ Len(seen) \in Nat /\ Len(seen) <= StablePolls /\ agreeing \in Nat
      /\ baseline \in Snapshot \union {None} /\ pending \in Snapshot \union {None}
  BY Positive DEF TypeOK
<1>3. Len(seen') \in Nat \ {0} /\ Len(seen') <= StablePolls /\ seen' # <<>>
  BY <1>1, <1>2, Positive
<1>4. agreeing < StablePolls /\ Alike
  BY DEF Agreement
<1>5. Observe(published)
  BY DEF Poll
<1>6. CASE baseline = None
  <2>1. baseline' = published /\ pending' = None /\ agreeing' = 0
    BY <1>1, <1>4, <1>5, <1>6 DEF Observe, Alike
  <2> QED BY <1>1, <1>3, <2>1, Positive DEF WatchTypes, Alike
<1>7. CASE baseline # None /\ published = baseline
  <2>1. baseline' = baseline /\ pending' = None /\ agreeing' = 0
    BY <1>1, <1>4, <1>5, <1>7 DEF Observe, Alike
  <2> QED BY <1>1, <1>2, <1>3, <1>7, <2>1, Positive DEF WatchTypes, Alike
<1>8. CASE baseline # None /\ published # baseline /\ published = pending
  <2>1. baseline' = baseline /\ pending' = pending /\ agreeing' = agreeing + 1
    BY <1>5, <1>8 DEF Observe
  <2>2. agreeing \in 1 .. Len(seen)
    BY <1>1, <1>4, <1>8 DEF Alike
  <2>3. agreeing' \in 1 .. Len(seen') /\ agreeing' \in 0 .. StablePolls
    BY <1>1, <1>2, <1>4, <2>1, <2>2, Positive
  <2>4. ASSUME NEW i \in 1 .. Len(seen'), i > Len(seen') - agreeing' PROVE seen'[i] = pending'
    <3>1. CASE i = Len(seen')
      BY <1>1, <1>8, <2>1, <3>1
    <3>2. CASE i # Len(seen')
      <4> DEFINE j == i + Len(seen) - (Len(seen') - 1)
      <4>0. /\ i \in Nat /\ i >= 1 /\ i < Len(seen') /\ i > Len(seen') - (agreeing + 1)
            /\ agreeing <= Len(seen)
            /\ Len(seen') = Len(seen) \/ Len(seen') = Len(seen) + 1
        BY <1>1, <1>2, <1>3, <2>1, <2>2, <2>4, <3>2
      <4>1. i \in 1 .. Len(seen') - 1 /\ j \in 1 .. Len(seen) /\ j > Len(seen) - agreeing
        BY <4>0, <1>2, <1>3
      <4>2. seen'[i] = seen[j]
        BY <1>1, <4>1
      <4> HIDE DEF j
      <4>3. seen[j] = pending
        BY <1>1, <1>4, <1>8, <4>1 DEF Alike
      <4> QED BY <2>1, <4>2, <4>3
    <3> QED BY <3>1, <3>2
  <2> QED BY <1>1, <1>2, <1>3, <1>8, <2>1, <2>3, <2>4 DEF WatchTypes, Alike
<1>9. CASE baseline # None /\ published # baseline /\ published # pending
  <2>1. baseline' = baseline /\ pending' = published /\ agreeing' = 1
    BY <1>5, <1>9 DEF Observe
  <2>2. \A i \in 1 .. Len(seen') : i > Len(seen') - 1 => seen'[i] = published
    BY <1>1, <1>3
  <2> QED BY <1>1, <1>2, <1>3, <1>9, <2>1, <2>2, Positive DEF WatchTypes, Alike
<1> QED BY <1>6, <1>7, <1>8, <1>9

\* What a turn leaves of the watch, before it is judged.
LEMMA TurnWatch ==
    ASSUME WakeInv, pc = "turn", NoPollDue \/ Poll \/ PollFails,
           published' = published, now' = now, deadline' = deadline
    PROVE  /\ WatchTypes' /\ Alike'
           /\ pending' # None => baseline' = baseline
           /\ nextPoll' \in 0 .. Horizon + PollSeconds /\ Elapsed' \in 0 .. PollSeconds - 1
           /\ still' \in 0 .. LongestAgreement + 1
           /\ baseline' # None /\ published' # baseline' =>
                 still' <= Polled' * Longest + Elapsed'
<1> USE DEF WakeInv
<1>1. /\ Waiting /\ Agreement /\ Alike /\ TypeOK
      /\ now \in Nat /\ now <= Horizon /\ nextPoll \in Nat /\ nextPoll <= Horizon + PollSeconds
      /\ Elapsed \in 0 .. Longest /\ still \in 0 .. LongestAgreement + 1
      /\ published \in Snapshot /\ published # None
  BY Beyond, Positive DEF TypeOK, Waiting, Agreement, Clocks
<1>2. CASE NoPollDue
  <2>1. WatchTypes' /\ Alike'
    BY <1>1, <1>2 DEF NoPollDue, WatchTypes, Alike, TypeOK
  <2>2. UNCHANGED <<nextPoll, baseline, pending, agreeing, seen, still>> /\ now < nextPoll
    BY <1>2 DEF NoPollDue
  <2>3. Elapsed' = Elapsed /\ Polled' = Polled /\ Elapsed < PollSeconds
    BY <1>1, <2>2, Positive DEF Elapsed, Polled
  <2>4. Elapsed' \in 0 .. PollSeconds - 1
    BY <1>1, <2>3, Positive
  <2> QED BY <1>1, <2>1, <2>2, <2>3, <2>4 DEF Recent, TypeOK
<1>3. CASE Poll \/ PollFails
  <2>1. nextPoll' = now + PollSeconds
    BY <1>3 DEF Poll, PollFails
  <2>2. Elapsed' = 0
    BY <1>1, <2>1, Positive DEF Elapsed
  <2>3. nextPoll' \in 0 .. Horizon + PollSeconds /\ Elapsed' \in 0 .. PollSeconds - 1
    BY <1>1, <2>1, <2>2, Positive, Beyond
  <2>4. CASE PollFails
    <3>1. UNCHANGED <<baseline, pending, agreeing, seen>> /\ still' = 0
      BY <2>4 DEF PollFails
    <3>2. WatchTypes' /\ Alike'
      BY <1>1, <3>1 DEF WatchTypes, Alike, TypeOK
    <3>3. Polled' \in Nat
      BY <3>2, Positive DEF Polled, WatchTypes
    <3>4. Polled' * Longest + Elapsed' >= 0
      BY <2>2, <3>3, Agreed
    <3> QED BY <1>1, <2>3, <3>1, <3>2, <3>4, Agreed
  <2>5. CASE Poll
    <3>1. WatchTypes' /\ Alike'
      BY <1>1, <2>5, PollAlike
    <3>2. Observe(published) /\ still' = still
      BY <2>5 DEF Poll
    <3>3. pending' # None => baseline' = baseline
      BY <1>1, <3>2 DEF Observe, Alike
    <3>4. ASSUME baseline' # None, published' # baseline'
          PROVE  still' <= Polled' * Longest + Elapsed'
      <4>1. baseline # None /\ published # baseline
        BY <1>1, <3>2, <3>4 DEF Observe
      <4>2. Polled \in Nat
        BY <1>1, Positive DEF TypeOK, Polled
      <4>3. Polled' = Polled + 1
        BY <1>1, <3>2, <4>1 DEF Observe, Polled, TypeOK
      <4>4. still <= Polled * Longest + Elapsed
        BY <1>1, <4>1 DEF Recent
      <4>5. (Polled + 1) * Longest = Polled * Longest + Longest /\ Polled * Longest \in Nat
        BY <4>2, Agreed
      <4> HIDE DEF WakeInv
      <4> QED BY <1>1, <2>2, <3>2, <4>3, <4>4, <4>5, Positive
    <3> QED BY <1>1, <2>3, <3>1, <3>2, <3>3, <3>4
  <2> QED BY <1>3, <2>4, <2>5
<1> QED BY <1>2, <1>3

\* The inductive invariant of the wait.
THEOREM WakeInvariant == Spec => []WakeInv
<1>1. Init => WakeInv
  <2> SUFFICES ASSUME Init PROVE WakeInv
    OBVIOUS
  <2>0. LongestAgreement \in Nat
    BY Agreed
  <2>1. TypeOK
    <3>1. seen \in Seq(Snapshot) /\ Len(seen) = 0
      BY DEF Init
    <3>2. /\ 0 \in 0 .. Horizon /\ 0 \in 0 .. Horizon + PollSeconds
          /\ 0 \in 0 .. StablePolls /\ 0 \in 0 .. LongestAgreement + 1 /\ 0 <= StablePolls
      BY <2>0, Positive, Beyond
    <3> QED BY <3>1, <3>2 DEF Init, TypeOK
  <2>2. Agreement /\ Clocks /\ Recent /\ Answered
    BY Positive DEF Init, Agreement, Alike, Clocks, NeverHeldPastSettleLimit, Recent, Answered,
                    WakesOnWhatHeldStill, IntervalHoldsForARender, Waiting
  <2> QED BY <2>1, <2>2 DEF WakeInv
<1>2. WakeInv /\ [Next]_vars => WakeInv'
  <2> SUFFICES ASSUME WakeInv, [Next]_vars PROVE WakeInv'
    OBVIOUS
  <2>0. LongestAgreement \in Nat /\ Horizon \in Nat /\ deadline \in Nat
    BY Agreed, Beyond DEF WakeInv, TypeOK
  <2>1. CASE Requested
    <3>1. pc' = "woken" /\ reason' = "requested" /\ moved' = {} /\ requested' = FALSE
      BY <2>1 DEF Requested, Return
    <3>2. UNCHANGED <<published, time, watch, ghost>>
      BY <2>1 DEF Requested
    <3> QED
      BY <3>1, <3>2 DEF WakeInv, TypeOK, Agreement, Alike, Clocks, NeverHeldPastSettleLimit,
           Recent, Answered, WakesOnWhatHeldStill, IntervalHoldsForARender, Waiting
  <2>2. CASE Turn
    <3>1. /\ pc = "turn" /\ UNCHANGED <<published, requested, now, deadline>>
          /\ NoPollDue \/ Poll \/ PollFails
          /\ Judge
      BY <2>2 DEF Turn
    <3>2. /\ WatchTypes' /\ Alike'
          /\ pending' # None => baseline' = baseline
          /\ nextPoll' \in 0 .. Horizon + PollSeconds /\ Elapsed' \in 0 .. PollSeconds - 1
          /\ still' \in 0 .. LongestAgreement + 1
          /\ baseline' # None /\ published' # baseline' =>
                still' <= Polled' * Longest + Elapsed'
      BY <3>1, TurnWatch
    <3>3. Waiting /\ now < hardDeadline + MaxTurn /\ hardDeadline' = hardDeadline
      BY <3>1 DEF WakeInv, Clocks, NeverHeldPastSettleLimit, Waiting, hardDeadline
    <3>4. Elapsed' \in 0 .. Longest /\ Elapsed' < PollSeconds
      BY <3>2, Positive
    <3>5. Recent'
      BY <3>2 DEF Recent
    <3>6. CASE HeldStill
      <4>1. pc' = "woken" /\ reason' = "artifacts" /\ moved' = MovedDevices(baseline, pending')
        BY <3>1, <3>6 DEF Judge, Return
      <4>2. /\ pending' # None /\ agreeing' >= StablePolls /\ baseline' = baseline
        BY <3>2, <3>6 DEF HeldStill
      <4>3. /\ Len(seen') = StablePolls /\ seen' # <<>> /\ agreeing' = StablePolls
            /\ \A i \in 1 .. Len(seen') : seen'[i] = pending'
            /\ pending' # baseline'
        BY <3>2, <4>2, Positive DEF WatchTypes, Alike
      <4>4. Last(seen') = pending'
        BY <4>3, Positive DEF Last
      <4>5. \A i \in DOMAIN seen' : seen'[i] = Last(seen')
        BY <3>2, <4>3, <4>4 DEF WatchTypes
      <4>6. pending' \in Snapshot /\ baseline' \in Snapshot
        BY <3>2, <4>2 DEF WatchTypes, Alike
      <4>7. moved' # {} /\ moved' \subseteq Device
        BY <4>1, <4>2, <4>3, <4>6 DEF MovedDevices, Snapshot
      <4>8. TypeOK'
        BY <3>1, <3>2, <4>1, <4>7 DEF WakeInv, TypeOK, WatchTypes
      <4>9. Answered'
        BY <4>1, <4>2, <4>3, <4>4, <4>5, <4>7
           DEF Answered, WakesOnWhatHeldStill, IntervalHoldsForARender
      <4> QED BY <3>2, <3>5, <4>1, <4>8, <4>9
              DEF WakeInv, Agreement, Clocks, NeverHeldPastSettleLimit, Waiting
    <3>7. CASE ~HeldStill /\ IntervalOver
      <4>1. /\ pc' = "woken" /\ reason' = "interval" /\ moved' \subseteq Device
            /\ now >= deadline /\ (pending' = None \/ now >= hardDeadline)
        BY <3>1, <3>7 DEF Judge, Return, IntervalOver, MovedDevices
      <4>2. TypeOK'
        BY <3>1, <3>2, <4>1 DEF WakeInv, TypeOK, WatchTypes
      <4>3. ASSUME now' < hardDeadline', seen' # <<>> PROVE Last(seen') = baseline'
        <5>1. now < hardDeadline /\ now \in Nat /\ hardDeadline \in Nat
          BY <2>0, <3>1, <3>3, <4>3, Positive DEF WakeInv, TypeOK, hardDeadline
        <5>2. pending' = None
          BY <4>1, <5>1
        <5> QED BY <3>2, <4>3, <5>2 DEF Alike, Last
      <4>4. Answered'
        BY <3>1, <4>1, <4>3 DEF Answered, WakesOnWhatHeldStill, IntervalHoldsForARender
      <4> QED BY <3>2, <3>5, <4>1, <4>2, <4>4
              DEF WakeInv, Agreement, Clocks, NeverHeldPastSettleLimit, Waiting
    <3>8. CASE ~HeldStill /\ ~IntervalOver
      <4>1. pc' = "sleep" /\ UNCHANGED <<reason, moved>>
        BY <3>1, <3>8 DEF Judge
      <4>2. agreeing' < StablePolls
        BY <3>2, <3>8, Positive DEF HeldStill, WatchTypes, Alike
      <4>3. now < hardDeadline
        BY <2>0, <3>8, Positive DEF IntervalOver, hardDeadline, WakeInv, TypeOK
      <4>4. TypeOK'
        BY <3>1, <3>2, <4>1 DEF WakeInv, TypeOK, WatchTypes
      <4>5. Clocks'
        BY <3>1, <3>3, <3>4, <4>1, <4>3 DEF Clocks, NeverHeldPastSettleLimit
      <4>6. Answered'
        BY <4>1 DEF Answered, WakesOnWhatHeldStill, IntervalHoldsForARender
      <4> QED BY <3>2, <3>5, <4>2, <4>4, <4>5, <4>6 DEF WakeInv, Agreement
    <3> QED BY <3>6, <3>7, <3>8
  <2>3. CASE Sleep
    <3>1. PICK t \in 1 .. MaxTurn :
             /\ now' = now + t
             /\ still' = IF still + t > LongestAgreement THEN LongestAgreement + 1 ELSE still + t
      BY <2>3 DEF Sleep
    <3>2. /\ pc = "sleep" /\ pc' = "turn"
          /\ UNCHANGED <<published, requested, reason, moved, deadline, nextPoll, watch, seen>>
      BY <2>3 DEF Sleep
    <3>3. /\ now \in Nat /\ nextPoll \in Nat /\ still \in Nat /\ t \in Nat /\ t <= MaxTurn
          /\ Elapsed \in 0 .. Longest /\ Elapsed < PollSeconds /\ now < hardDeadline
          /\ agreeing < StablePolls
      BY <2>0, <3>2, Positive DEF WakeInv, TypeOK, Clocks, Waiting, Agreement
    <3>4. now' < hardDeadline + MaxTurn /\ hardDeadline' = hardDeadline
      BY <2>0, <3>1, <3>2, <3>3, Positive DEF hardDeadline
    <3>5. hardDeadline + MaxTurn <= Horizon
      BY <2>0, Beyond, Positive DEF hardDeadline, WakeInv, TypeOK
    <3>6. now' \in 0 .. Horizon
      BY <2>0, <3>1, <3>3, <3>4, <3>5, Positive DEF hardDeadline
    <3>7. still' \in 0 .. LongestAgreement + 1 /\ still' <= still + t
      BY <2>0, <3>1, <3>3
    <3>8. Elapsed' = Elapsed + t
      BY <3>1, <3>2, <3>3, Positive DEF Elapsed
    <3>9. Elapsed' \in 0 .. Longest
      BY <3>3, <3>8, Positive DEF Longest
    <3>10. TypeOK'
      BY <3>2, <3>6, <3>7 DEF WakeInv, TypeOK
    <3>11. Clocks'
      BY <3>2, <3>4, <3>9 DEF Clocks, NeverHeldPastSettleLimit
    <3>12. Recent'
      <4> SUFFICES ASSUME baseline # None, published # baseline
                   PROVE  still' <= Polled * Longest + Elapsed'
        BY <3>2 DEF Recent, Polled
      <4>1. still <= Polled * Longest + Elapsed
        BY <3>2 DEF WakeInv, Recent, Waiting
      <4>2. Polled \in Nat
        BY Positive DEF WakeInv, TypeOK, Polled
      <4>3. Polled * Longest \in Nat
        BY <4>2, Agreed
      <4> QED BY <3>1, <3>3, <3>7, <3>8, <4>1, <4>3, Positive
    <3>13. Agreement' /\ Answered'
      BY <3>2, <3>3 DEF WakeInv, Agreement, Alike, Answered, WakesOnWhatHeldStill,
                        IntervalHoldsForARender
    <3> QED BY <3>10, <3>11, <3>12, <3>13 DEF WakeInv
  <2>4. CASE Loop
    <3>1. PICK delay \in Delays, from \in Snapshot \union {None} : BeginWait(delay, from)
      BY <2>4 DEF Loop
    <3>2. /\ pc' = "turn" /\ now' = 0 /\ deadline' = delay /\ nextPoll' = PollSeconds
          /\ baseline' = from /\ pending' = None /\ agreeing' = 0 /\ seen' = <<>> /\ still' = 0
          /\ UNCHANGED <<published, requested, reason, moved>>
      BY <3>1 DEF BeginWait
    <3>3. delay \in Nat
      BY <3>1
    <3>4. TypeOK'
      BY <2>0, <3>2, Positive DEF WakeInv, TypeOK
    <3>5. Elapsed' = 0 /\ hardDeadline' = delay + SettleLimit
      BY <3>2, Positive DEF Elapsed, hardDeadline
    <3>6. Clocks'
      BY <3>2, <3>3, <3>5, Positive DEF Clocks, NeverHeldPastSettleLimit
    <3>7. Polled' = 0 /\ 0 * Longest = 0
      BY <3>2, Positive DEF Polled, WakeInv, TypeOK
    <3>8. Recent'
      BY <3>2, <3>5, <3>7 DEF Recent
    <3>9. Agreement' /\ Answered'
      BY <3>2, Positive DEF Agreement, Alike, Answered, WakesOnWhatHeldStill,
                            IntervalHoldsForARender
    <3> QED BY <3>4, <3>6, <3>8, <3>9 DEF WakeInv
  <2>5. CASE Rerender
    <3>1. /\ still' = 0
          /\ UNCHANGED <<pc, requested, reason, moved, time, watch, seen>>
      BY <2>5 DEF Rerender
    <3>2. published' \in Snapshot
      BY <2>5 DEF Rerender, WakeInv, TypeOK, Snapshot
    <3>3. Polled' \in Nat
      BY <3>1, Positive DEF Polled, WakeInv, TypeOK
    <3>4. Waiting' => Elapsed' \in Nat
      BY <3>1, Positive DEF WakeInv, Clocks, Waiting, Elapsed
    <3>5. Recent'
      <4>1. Polled' * Longest \in Nat
        BY <3>3, Agreed
      <4> QED BY <3>1, <3>4, <4>1 DEF Recent
    <3>6. TypeOK'
      BY <2>0, <3>1, <3>2 DEF WakeInv, TypeOK
    <3> QED BY <3>1, <3>5, <3>6
            DEF WakeInv, Agreement, Alike, Clocks, NeverHeldPastSettleLimit, Answered,
                WakesOnWhatHeldStill, IntervalHoldsForARender, Waiting, Elapsed, hardDeadline
  <2>6. CASE Request \/ UNCHANGED vars
    BY <2>6 DEF Request, WakeInv, TypeOK, Agreement, Alike, Clocks, NeverHeldPastSettleLimit,
         Recent, Polled, Answered, WakesOnWhatHeldStill, IntervalHoldsForARender, Waiting,
         Elapsed, hardDeadline
  <2> QED BY <2>1, <2>2, <2>3, <2>4, <2>5, <2>6 DEF Next, Wait
<1> QED BY <1>1, <1>2, PTL DEF Spec

\* Every variable keeps its type, and no clock passes the horizon.
THEOREM WakeTypeCorrect == Spec => []TypeOK
<1>1. WakeInv => TypeOK
  BY DEF WakeInv
<1> QED BY <1>1, WakeInvariant, PTL

\* The wait ends for artifacts only on what StablePolls polls agreed on, and names
\* exactly what moved (Rules 1 and 2 of wake.py).
THEOREM WakesOnWhatHeldStillAlways == Spec => []WakesOnWhatHeldStill
<1>1. WakeInv => WakesOnWhatHeldStill
  BY DEF WakeInv, Answered
<1> QED BY <1>1, WakeInvariant, PTL

\* The interval ends a wait when it is due and holds for a render that moves.
THEOREM IntervalHoldsAlways == Spec => []IntervalHoldsForARender
<1>1. WakeInv => IntervalHoldsForARender
  BY DEF WakeInv, Answered
<1> QED BY <1>1, WakeInvariant, PTL

\* No wait outlives the settle limit by more than a turn (Rule 3 of wake.py).
THEOREM HeldWithinTheLimit == Spec => []NeverHeldPastSettleLimit
<1>1. WakeInv => NeverHeldPastSettleLimit
  BY DEF WakeInv, Clocks
<1> QED BY <1>1, WakeInvariant, PTL

\* Intent that moved and held still as long as the polls take has ended the wait, for
\* any of the constants: fewer than StablePolls polls saw it, each at most Longest apart.
THEOREM StableMovesWake == Spec => []StableMoveWakes
<1>1. WakeInv => StableMoveWakes
  <2> SUFFICES ASSUME WakeInv, Waiting, baseline # None, published # baseline
               PROVE  ~(still > LongestAgreement)
    BY DEF StableMoveWakes
  <2>1. still <= Polled * Longest + Elapsed /\ Elapsed \in 0 .. Longest
    BY DEF WakeInv, Recent, Clocks
  <2>2. Polled \in Nat /\ Polled < StablePolls /\ still \in Nat
    BY Agreed, Positive DEF WakeInv, TypeOK, Agreement, Polled
  <2>3. Polled * Longest \in Nat /\ LongestAgreement \in Nat
        /\ Polled * Longest + Longest <= LongestAgreement
    BY <2>2, Agreed
  <2> QED BY <2>1, <2>2, <2>3, Positive
<1> QED BY <1>1, WakeInvariant, PTL

\* Every step of the wait is a step of its contract, or none: a turn with a poll is the
\* wait's first poll, its end, or nothing that run_forever can see.
THEOREM WakeKeepsItsContract == Spec => Contract!Init /\ [][Contract!Next]_Contract!wakeVars
<1> USE DEF Contract!wakeVars
<1>1. Init => Contract!Init
  BY DEF Init, Contract!Init, Contract!Snapshot, Snapshot, Waiting
<1>2. WakeInv /\ [Next]_vars => [Contract!Next]_Contract!wakeVars
  <2> SUFFICES ASSUME WakeInv, [Next]_vars
               PROVE  Contract!Next \/ UNCHANGED <<published, Waiting, baseline, reason, moved, requested>>
    OBVIOUS
  <2> USE DEF Contract!Next, Contract!WakeUp
  <2>1. CASE Requested
    BY <2>1 DEF Requested, Return, Contract!WakeRequested, Waiting
  <2>2. CASE Turn
    <3>1. /\ pc = "turn" /\ ~requested /\ UNCHANGED <<published, requested, now, deadline>>
          /\ NoPollDue \/ Poll \/ PollFails
          /\ Judge
      BY <2>2 DEF Turn
    <3>2. WatchTypes' /\ Alike' /\ (pending' # None => baseline' = baseline)
      BY <3>1, TurnWatch
    <3>3. UNCHANGED baseline \/ (baseline = None /\ baseline' = published)
      BY <3>1 DEF NoPollDue, Poll, PollFails, Observe
    <3>4. CASE HeldStill
      <4>1. pc' = "woken" /\ reason' = "artifacts" /\ moved' = MovedDevices(baseline, pending')
        BY <3>1, <3>4 DEF Judge, Return
      <4>2. pending' # None /\ baseline' = baseline /\ baseline # None /\ pending' # baseline
        BY <3>2, <3>4 DEF HeldStill, Alike
      <4>3. pending' = published
        <5>1. agreeing < StablePolls /\ Alike /\ published # None /\ agreeing \in Nat
          BY <3>1, Positive DEF WakeInv, Agreement, Waiting, TypeOK
        <5>2. Poll
          BY <3>1, <3>4, <5>1, Positive DEF HeldStill, NoPollDue, PollFails
        <5>3. Observe(published)
          BY <5>2 DEF Poll
        <5> QED BY <4>2, <5>1, <5>3 DEF Observe, Alike
      <4> QED BY <3>1, <4>1, <4>2, <4>3
              DEF Contract!WakeArtifacts, Contract!MovedDevices, MovedDevices, Waiting
    <3>5. CASE ~HeldStill /\ IntervalOver
      <4>1. pc' = "woken" /\ reason' = "interval" /\ moved' \in SUBSET Device
        BY <3>1, <3>5 DEF Judge, Return, MovedDevices
      <4> QED BY <3>1, <3>3, <4>1 DEF Contract!WakeInterval, Contract!Baselined, Waiting
    <3>6. CASE ~HeldStill /\ ~IntervalOver
      <4>1. pc' = "sleep" /\ UNCHANGED <<reason, moved>>
        BY <3>1, <3>6 DEF Judge
      <4> QED BY <3>1, <3>3, <4>1 DEF Contract!FirstPoll, Contract!Baselined, Waiting
    <3> QED BY <3>4, <3>5, <3>6
  <2>3. CASE Sleep
    BY <2>3 DEF Sleep, Waiting
  <2>4. CASE Loop
    BY <2>4 DEF Loop, BeginWait, Contract!BeginWait, Contract!Snapshot, Snapshot, Waiting
  <2>5. CASE Rerender
    BY <2>5 DEF Rerender, Contract!Rerender, Waiting
  <2>6. CASE Request
    BY <2>6 DEF Request, Contract!Request, Waiting
  <2>7. CASE UNCHANGED vars
    BY <2>7 DEF Waiting
  <2> QED BY <2>1, <2>2, <2>3, <2>4, <2>5, <2>6, <2>7 DEF Next, Wait
<1> QED BY <1>1, <1>2, WakeInvariant, PTL DEF Spec
===============================================================================
