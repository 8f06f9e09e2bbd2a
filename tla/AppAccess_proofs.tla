-------------------------- MODULE AppAccess_proofs --------------------------
(***************************************************************************)
(* What runs of the access generator never take away, for any number of    *)
(* grants and of runs that overlap and stop anywhere.                      *)
(***************************************************************************)
EXTENDS AppAccess, TLAPS

\* What a run at work means to record or to close is not declared by hand, and what it
\* means to remove is its grant's.
Cautious ==
    \A r \in Run : run[r] # None =>
        /\ run[r].may => source[run[r].of] \notin Declared
        /\ run[r].at = "record" => run[r].may
        /\ run[r].at \in {"unrule", "unwrite"} => \A o \in run[r].uses : o[1] = run[r].of

AccessInv == TypeOK /\ HandWrittenKept /\ Cautious

USE AccessAssumption
DEF request, firewall, policy, ghosts, vars

\* A run that goes on has the same grant, objects and permission.
LEMMA Moved ==
    ASSUME TypeOK, Cautious, NEW r \in Run, run[r] # None, NEW there,
           there \in {"write", "rule", "link", "permit", "record", "advertise", "end", "close",
                      "settle", "unadvertise"},
           there = "record" => run[r].may,
           run' = [run EXCEPT ![r].at = there], source' = source
    PROVE  run' \in [Run -> Work \union {None}] /\ Cautious'
<1>1. run[r] \in Work
  BY DEF TypeOK
<1>2. [run[r] EXCEPT !.at = there] \in Work
  BY <1>1 DEF Work
<1>3. run' \in [Run -> Work \union {None}]
  <2> HIDE DEF Work
  <2> QED BY <1>2 DEF TypeOK
<1>4. \A q \in Run : q # r => run'[q] = run[q]
  BY DEF TypeOK
<1>5. /\ run'[r].at = there /\ run'[r].of = run[r].of /\ run'[r].may = run[r].may
  BY <1>1 DEF TypeOK, Work
<1>6. Cautious'
  BY <1>4, <1>5 DEF Cautious
<1> QED BY <1>3, <1>6

\* A withdrawal that goes on, and counts what it removed.
LEMMA Counted ==
    ASSUME TypeOK, Cautious, NEW r \in Run, run[r] # None, NEW there, NEW b \in BOOLEAN,
           \/ run[r].at = "unrule" /\ there = "unwrite"
           \/ there = "close",
           run' = [run EXCEPT ![r].at = there, ![r].removed = b], source' = source
    PROVE  run' \in [Run -> Work \union {None}] /\ Cautious'
<1>1. run[r] \in Work
  BY DEF TypeOK
<1>2. [run[r] EXCEPT !.at = there, !.removed = b] \in Work
  BY <1>1 DEF Work
<1>3. run' = [run EXCEPT ![r] = [run[r] EXCEPT !.at = there, !.removed = b]]
  OBVIOUS
<1>4. run' \in [Run -> Work \union {None}]
  <2> HIDE DEF Work
  <2> QED BY <1>2, <1>3 DEF TypeOK
<1>5. \A q \in Run : q # r => run'[q] = run[q]
  BY <1>3 DEF TypeOK
<1>6. /\ run'[r].at = there /\ run'[r].of = run[r].of
      /\ run'[r].may = run[r].may /\ run'[r].uses = run[r].uses
  BY <1>1, <1>3 DEF TypeOK, Work
<1>7. run'[r].at = "unwrite" => \A o \in run[r].uses : o[1] = run[r].of
  BY <1>6 DEF Cautious
<1>8. run[r].may => source[run[r].of] \notin Declared
  BY DEF Cautious
<1>9. run'[r].at # "record" /\ run'[r].at # "unrule"
  BY <1>6
<1>10. ASSUME NEW q \in Run, run'[q] # None
       PROVE  /\ run'[q].may => source'[run'[q].of] \notin Declared
              /\ run'[q].at = "record" => run'[q].may
              /\ run'[q].at \in {"unrule", "unwrite"} => \A o \in run'[q].uses : o[1] = run'[q].of
  <2>1. CASE q = r
    BY <1>6, <1>7, <1>8, <1>9, <2>1
  <2>2. CASE q # r
    <3>1. run'[q] = run[q]
      BY <1>5, <2>2
    <3> QED BY <1>10, <3>1 DEF Cautious
  <2> QED BY <2>1, <2>2
<1> QED BY <1>4, <1>10 DEF Cautious

\* A run that is over means nothing any more.
LEMMA Ended ==
    ASSUME TypeOK, Cautious, NEW r \in Run, run' = [run EXCEPT ![r] = None], source' = source
    PROVE  run' \in [Run -> Work \union {None}] /\ Cautious'
<1>1. run' \in [Run -> Work \union {None}]
  <2> HIDE DEF Work
  <2> QED BY DEF TypeOK
<1>2. \A q \in Run : run'[q] = IF q = r THEN None ELSE run[q]
  BY DEF TypeOK
<1>3. Cautious'
  BY <1>2 DEF Cautious
<1> QED BY <1>1, <1>3

\* A change of status keeps its type.
LEMMA StatusSet ==
    ASSUME TypeOK, NEW g \in Grant, NEW s \in Status, SetStatus(g, s)
    PROVE  status' \in [Grant -> Status] /\ due' \subseteq Grant
BY DEF TypeOK, SetStatus

\* What a run reads when it starts.
LEMMA WorkBegun ==
    ASSUME AccessInv, NEW g \in Grant
    PROVE  /\ Begins(g) \in Work
           /\ Begins(g).of = g
           /\ Begins(g).at # "record"
           /\ Begins(g).may => source[g] \notin Declared
           /\ Begins(g).at \in {"unrule", "unwrite"} => \A o \in Begins(g).uses : o[1] = g
<1> USE DEF AccessInv
<1>1. \A i \in Item : Resolved(g, i) \in Object
  <2> SUFFICES ASSUME NEW i \in Item PROVE Resolved(g, i) \in Object
    OBVIOUS
  <2>1. CASE Existing(i) = {}
    BY <2>1 DEF Resolved, Object
  <2>2. CASE Existing(i) # {}
    <3>1. (CHOOSE o \in Existing(i) : TRUE) \in Existing(i)
      BY <2>2
    <3>2. Existing(i) \subseteq Object
      BY DEF Existing, TypeOK
    <3> QED BY <2>2, <3>1, <3>2 DEF Resolved
  <2> QED BY <2>1, <2>2
<1>2. wants[g] \subseteq Item
  BY DEF TypeOK
<1>3. Named(g) \subseteq Object /\ \A o \in Named(g) : o[1] = g
  BY DEF TypeOK, Named, Own
<1>4. {Resolved(g, i) : i \in wants[g]} \subseteq Object
  BY <1>1, <1>2
<1>5. Closes(g) => source[g] \notin Declared
  BY DEF Closes, HandWrittenKept
<1>6. MayRecord(g) => source[g] \notin Declared
  BY DEF MayRecord, Others, HandWrittenKept
<1>7. Closes(g) \in BOOLEAN /\ MayRecord(g) \in BOOLEAN
  BY DEF Closes, MayRecord
<1>8. advertised \subseteq Grant
  BY DEF TypeOK
<1>9. CASE Withdrawn(g)
  BY <1>3, <1>5, <1>7, <1>8, <1>9 DEF Begins, Work
<1>10. CASE ~Withdrawn(g)
  BY <1>4, <1>6, <1>7, <1>8, <1>10 DEF Begins, Work
<1> QED BY <1>9, <1>10

\* The inductive invariant of the grants.
THEOREM AccessInvariant == Spec => []AccessInv
<1>1. Init => AccessInv
  <2> SUFFICES ASSUME Init PROVE AccessInv
    OBVIOUS
  <2>1. source \in [Grant -> Prefix]
    BY DEF Init
  <2>2. {Baseline} \X Predefined \subseteq Object
    BY DEF Object
  <2>3. ASSUME NEW g \in Grant
        PROVE  group[g] \subseteq Object /\ \A o \in group[g] : o[1] = g
    <3>1. Asked[g] \subseteq Item
      OBVIOUS
    <3>2. {g} \X (Asked[g] \ Predefined) \subseteq Object
      BY <3>1 DEF Object
    <3>3. group[g] = {} \/ group[g] = {g} \X (Asked[g] \ Predefined)
      BY DEF Init
    <3> QED BY <3>2, <3>3
  <2>4. \A g \in Grant : group[g] \subseteq objects
    BY DEF Init
  <2>5. objects \subseteq Object
    BY <2>2, <2>3 DEF Init
  <2>6. group \in [Grant -> SUBSET Object]
    BY <2>3 DEF Init
  <2>7. ASSUME NEW g \in Grant
        PROVE  rule[g] \in (SUBSET Object) \union {None} /\ (g \in linked => rule[g] # None)
    <3>1. {Baseline} \X (Asked[g] \intersect Predefined) \subseteq Object
      BY <2>2
    <3>2. group[g] \union ({Baseline} \X (Asked[g] \intersect Predefined)) \in SUBSET Object
      BY <2>3, <3>1
    <3>3. rule[g] = IF g \in Merged
                    THEN group[g] \union ({Baseline} \X (Asked[g] \intersect Predefined)) ELSE None
      BY DEF Init
    <3>4. linked = Merged
      BY DEF Init
    <3>5. None \notin SUBSET Object
      OBVIOUS
    <3>6. CASE g \in Merged
      <4>1. rule[g] = group[g] \union ({Baseline} \X (Asked[g] \intersect Predefined))
        BY <3>3, <3>6
      <4> QED BY <3>2, <3>5, <4>1
    <3>7. CASE g \notin Merged
      <4>1. rule[g] = None /\ g \notin linked
        BY <3>3, <3>4, <3>7
      <4> QED BY <4>1
    <3> QED BY <3>6, <3>7
  <2>8. rule \in [Grant -> (SUBSET Object) \union {None}]
    <3>1. rule = [g \in Grant |-> rule[g]]
      BY DEF Init
    <3> QED BY <2>7, <3>1
  <2>9. TypeOK
    <3> HIDE DEF Work, Object
    <3>1. status \in [Grant -> Status] /\ wants \in [Grant -> SUBSET Item]
      BY DEF Init, Status
    <3>2. linked \subseteq Grant /\ recorded \subseteq Grant /\ advertised \subseteq Grant
      BY DEF Init
    <3>3. allowed \subseteq Prefix /\ due \subseteq Grant
      BY <2>1 DEF Init
    <3>4. run \in [Run -> Work \union {None}]
      BY DEF Init
    <3>5. events \in 0 .. MaxEvents /\ revoked \subseteq Grant /\ lone \subseteq Run
      BY DEF Init
    <3>6. apart \in BOOLEAN /\ steady \in BOOLEAN
      BY DEF Init
    <3>7. linked \subseteq {g \in Grant : rule[g] # None}
      BY <2>7, <3>2
    <3>8. \A g \in Grant : group[g] \subseteq {o \in objects : o[1] = g}
      BY <2>3, <2>4
    <3> QED BY <2>1, <2>5, <2>6, <2>8, <3>1, <3>2, <3>3, <3>4, <3>5, <3>6, <3>7, <3>8 DEF TypeOK
  <2>10. HandWrittenKept /\ Cautious
    BY <2>1 DEF Init, HandWrittenKept, Cautious
  <2> QED BY <2>9, <2>10 DEF AccessInv
<1>2. AccessInv /\ [Next]_vars => AccessInv'
  <2> SUFFICES ASSUME AccessInv, [Next]_vars PROVE AccessInv'
    OBVIOUS
  <2> USE DEF AccessInv
  <2>1. ASSUME NEW g \in Grant, Edit(g) PROVE AccessInv'
    BY <2>1 DEF Edit, Happens, TypeOK, HandWrittenKept, Cautious, Status
  <2>2. ASSUME NEW r \in Run, NEW g \in Grant, Start(r, g) PROVE AccessInv'
    <3>1. run' = [run EXCEPT ![r] = Begins(g)] /\ source' = source
      BY <2>2 DEF Start
    <3> HIDE DEF AccessInv
    <3>2. /\ Begins(g) \in Work /\ Begins(g).of = g
          /\ Begins(g).at # "record"
          /\ Begins(g).may => source[g] \notin Declared
          /\ Begins(g).at \in {"unrule", "unwrite"} => \A o \in Begins(g).uses : o[1] = g
      BY WorkBegun
    <3> USE DEF AccessInv
    <3>3. run' \in [Run -> Work \union {None}]
      BY <3>1, <3>2 DEF TypeOK
    <3>4. \A q \in Run : run'[q] = IF q = r THEN Begins(g) ELSE run[q]
      BY <3>1 DEF TypeOK
    <3>5. Cautious'
      BY <3>1, <3>2, <3>4 DEF Cautious
    <3>6. TypeOK'
      BY <2>2, <3>3 DEF TypeOK, Start, Happens
    <3>7. HandWrittenKept'
      BY <2>2 DEF Start, HandWrittenKept
    <3> QED BY <3>5, <3>6, <3>7
  <2>3. ASSUME NEW r \in Run, Stops(r) PROVE AccessInv'
    <3>1. run' \in [Run -> Work \union {None}] /\ Cautious'
      BY <2>3, Ended DEF Stops, Ends
    <3>2. lone' \subseteq Run /\ events' \in 0 .. MaxEvents
      BY <2>3 DEF Stops, Ends, Happens, TypeOK
    <3> QED BY <2>3, <3>1, <3>2 DEF Stops, TypeOK, HandWrittenKept
  <2>4. ASSUME NEW r \in Run, Step(r) PROVE AccessInv'
    <3>0. run[r] # None /\ run[r] \in Work
      BY <2>4 DEF TypeOK, Step, Refuse, Write, PutRule, Link, Permit, Record, Advertise, Prune,
                  Unrule, Unwrite, Close, Settle, Unadvertise, At
    <3> DEFINE g == run[r].of
    <3>00. /\ g \in Grant /\ run[r].uses \subseteq Object /\ run[r].adv \subseteq Grant
           /\ run[r].may \in BOOLEAN /\ source[g] \in Prefix
      BY <3>0 DEF Work, TypeOK
    <3>1. CASE Refuse(r)
      <4>1. run' \in [Run -> Work \union {None}] /\ Cautious'
        BY <3>1, <3>0, Ended DEF Refuse, At, Moves, Ends
      <4>2. status' \in [Grant -> Status] /\ due' \subseteq Grant
        BY <3>1, <3>00, StatusSet DEF Refuse, Status
      <4>9. lone' \subseteq Run
        BY <3>1 DEF Refuse, Moves, Ends, Removes, TypeOK
      <4> QED BY <3>1, <4>1, <4>2, <4>9 DEF Refuse, TypeOK, HandWrittenKept
    <3>2. CASE Write(r)
      <4>1. run' \in [Run -> Work \union {None}] /\ Cautious'
        BY <3>2, <3>0, Moved DEF Write, At, Moves, Ends
      <4>2. Own(g, run[r].uses) \subseteq Object
        BY <3>00 DEF Own
      <4>9. lone' \subseteq Run
        BY <3>2 DEF Write, Moves, Ends, Removes, TypeOK
      <4> QED BY <3>2, <4>1, <4>2, <4>9 DEF Write, TypeOK, HandWrittenKept
    <3>3. CASE PutRule(r)
      <4>1. run' \in [Run -> Work \union {None}] /\ Cautious'
        BY <3>3, <3>0, Moved DEF PutRule, At, Moves, Ends
      <4>2. rule' \in [Grant -> (SUBSET Object) \union {None}] /\ \A h \in linked : rule'[h] # None
        BY <3>3, <3>00 DEF PutRule, TypeOK
      <4>9. lone' \subseteq Run
        BY <3>3 DEF PutRule, Moves, Ends, Removes, TypeOK
      <4> QED BY <3>3, <4>1, <4>2, <4>9 DEF PutRule, TypeOK, HandWrittenKept
    <3>4. CASE Link(r)
      <4>1. CASE rule[g] = None
        <5>1. run' \in [Run -> Work \union {None}] /\ Cautious'
          BY <3>4, <4>1, Ended DEF Link, Ends
        <5>9. lone' \subseteq Run
          BY <3>4, <4>1 DEF Link, Moves, Ends, Removes, TypeOK
        <5> QED BY <3>4, <4>1, <5>1, <5>9 DEF Link, TypeOK, HandWrittenKept
      <4>2. CASE rule[g] # None
        <5>1. run' \in [Run -> Work \union {None}] /\ Cautious'
          BY <3>4, <3>0, <4>2, Moved DEF Link, Moves
        <5>2. status' \in [Grant -> Status] /\ due' \subseteq Grant
          BY <3>4, <3>00, <4>2, StatusSet DEF Link, Status
        <5>9. lone' \subseteq Run
          BY <3>4, <4>2 DEF Link, Moves, Ends, Removes, TypeOK
        <5> QED BY <3>4, <3>00, <4>2, <5>1, <5>2, <5>9 DEF Link, TypeOK, HandWrittenKept
      <4> QED BY <4>1, <4>2
    <3>5. CASE Permit(r)
      <4>1. run' \in [Run -> Work \union {None}] /\ Cautious'
        BY <3>5, <3>0, Moved DEF Permit, Moves
      <4>9. lone' \subseteq Run
        BY <3>5 DEF Permit, Moves, Ends, Removes, TypeOK
      <4> QED BY <3>5, <3>00, <4>1, <4>9 DEF Permit, TypeOK, HandWrittenKept
    <3>6. CASE Record(r)
      <4>1. run' \in [Run -> Work \union {None}] /\ Cautious'
        BY <3>6, <3>0, Moved DEF Record, At, Moves, Ends
      <4>2. source[g] \notin Declared
        BY <3>6, <3>0 DEF Record, At, Cautious
      <4>9. lone' \subseteq Run
        BY <3>6 DEF Record, Moves, Ends, Removes, TypeOK
      <4> QED BY <3>6, <3>00, <4>1, <4>2, <4>9 DEF Record, TypeOK, HandWrittenKept
    <3>7. CASE Advertise(r)
      <4>1. run' \in [Run -> Work \union {None}] /\ Cautious'
        BY <3>7, <3>0, Moved DEF Advertise, At, Moves, Ends
      <4>9. lone' \subseteq Run
        BY <3>7 DEF Advertise, Moves, Ends, Removes, TypeOK
      <4> QED BY <3>7, <3>00, <4>1, <4>9 DEF Advertise, TypeOK, HandWrittenKept
    <3>8. CASE Prune(r)
      <4>1. run' \in [Run -> Work \union {None}] /\ Cautious'
        BY <3>8, <3>0, Ended DEF Prune, At, Moves, Ends
      <4>2. Touched(run[r]) \subseteq Object /\ \A o \in Touched(run[r]) : o[1] = g
        BY <3>00 DEF Touched, Own
      <4>3. \A o \in group[g] : o[1] = g
        BY <3>00 DEF TypeOK
      <4>4. objects' = objects \ (group[g] \ Touched(run[r]))
        BY <3>8 DEF Prune
      <4>5. group' = [group EXCEPT ![g] = Touched(run[r]) \intersect objects]
        BY <3>8 DEF Prune
      <4>6. ASSUME NEW h \in Grant PROVE group'[h] \subseteq {o \in objects' : o[1] = h}
        <5>1. CASE h = g
          BY <3>00, <4>2, <4>4, <4>5, <5>1 DEF TypeOK
        <5>2. CASE h # g
          <6>1. group'[h] = group[h]
            BY <4>5, <5>2 DEF TypeOK
          <6> QED BY <4>3, <4>4, <5>2, <6>1 DEF TypeOK
        <5> QED BY <5>1, <5>2
      <4>7. group' \in [Grant -> SUBSET Object]
        BY <4>2, <4>5 DEF TypeOK
      <4>8. {Baseline} \X Predefined \subseteq objects'
        BY <3>00, <4>3, <4>4 DEF HandWrittenKept
      <4>9. lone' \subseteq Run
        BY <3>8 DEF Prune, Moves, Ends, Removes, TypeOK
      <4> QED BY <3>8, <4>1, <4>4, <4>6, <4>7, <4>8, <4>9 DEF Prune, TypeOK, HandWrittenKept
    <3>9. CASE Unrule(r)
      <4>1. PICK b \in BOOLEAN : run' = [run EXCEPT ![r].at = "unwrite", ![r].removed = b]
        BY <3>9, <3>0 DEF Unrule, Removes, Work
      <4>2. run' \in [Run -> Work \union {None}] /\ Cautious'
        BY <3>0, <3>9, <4>1, Counted DEF Unrule, At
      <4>3. rule' \in [Grant -> (SUBSET Object) \union {None}] /\ \A h \in linked' : h \in linked /\ rule'[h] # None
        <5>1. CASE rule' = rule /\ linked' = linked
          BY <5>1 DEF TypeOK
        <5>2. CASE rule' = [rule EXCEPT ![g] = None] /\ linked' = linked \ {g}
          <6>1. \A h \in linked' : h \in linked /\ h # g /\ h \in Grant /\ rule[h] # None
            BY <5>2 DEF TypeOK
          <6>2. rule' \in [Grant -> (SUBSET Object) \union {None}]
            BY <5>2 DEF TypeOK
          <6>3. \A h \in Grant : h # g => rule'[h] = rule[h]
            BY <5>2 DEF TypeOK
          <6> QED BY <6>1, <6>2, <6>3
        <5> QED BY <3>9, <5>1, <5>2 DEF Unrule
      <4>9. lone' \subseteq Run
        BY <3>9 DEF Unrule, Moves, Ends, Removes, TypeOK
      <4> QED BY <3>9, <4>2, <4>3, <4>9 DEF Unrule, TypeOK, HandWrittenKept
    <3>10. CASE Unwrite(r)
      <4>1. PICK b \in BOOLEAN : run' = [run EXCEPT ![r].at = "close", ![r].removed = b]
        BY <3>10, <3>0 DEF Unwrite, Removes, Work
      <4>2. run' \in [Run -> Work \union {None}] /\ Cautious'
        BY <3>0, <3>10, <4>1, Counted DEF Unwrite, At
      <4>3. \A o \in run[r].uses : o[1] = g
        BY <3>10, <3>0 DEF Unwrite, At, Cautious
      <4>4. objects' = objects \ run[r].uses /\ group' = [group EXCEPT ![g] = @ \ run[r].uses]
        BY <3>10 DEF Unwrite
      <4>5. ASSUME NEW h \in Grant PROVE group'[h] \subseteq {o \in objects' : o[1] = h}
        <5>1. CASE h = g
          BY <4>4, <5>1 DEF TypeOK
        <5>2. CASE h # g
          <6>1. group'[h] = group[h]
            BY <4>4, <5>2 DEF TypeOK
          <6> QED BY <4>3, <4>4, <5>2, <6>1 DEF TypeOK
        <5> QED BY <5>1, <5>2
      <4>6. group' \in [Grant -> SUBSET Object]
        BY <3>00, <4>4 DEF TypeOK
      <4>7. {Baseline} \X Predefined \subseteq objects'
        BY <3>00, <4>3, <4>4 DEF HandWrittenKept
      <4>9. lone' \subseteq Run
        BY <3>10 DEF Unwrite, Moves, Ends, Removes, TypeOK
      <4> QED BY <3>10, <4>2, <4>4, <4>5, <4>6, <4>7, <4>9 DEF Unwrite, TypeOK, HandWrittenKept
    <3>11. CASE Close(r)
      <4>1. run' \in [Run -> Work \union {None}] /\ Cautious'
        BY <3>11, <3>0, Moved, Ended DEF Close, Moves, Ends
      <4>2. run[r].may => source[g] \notin Declared
        BY <3>0 DEF Cautious
      <4>9. lone' \subseteq Run
        BY <3>11 DEF Close, Moves, Ends, Removes, TypeOK
      <4> QED BY <3>11, <3>00, <4>1, <4>2, <4>9 DEF Close, TypeOK, HandWrittenKept
    <3>12. CASE Settle(r)
      <4>1. run' \in [Run -> Work \union {None}] /\ Cautious'
        BY <3>12, <3>0, Moved DEF Settle, At, Moves, Ends
      <4>2. status' \in [Grant -> Status] /\ due' \subseteq Grant
        BY <3>12, <3>00, StatusSet DEF Settle, SettledAs, Status
      <4>9. lone' \subseteq Run
        BY <3>12 DEF Settle, Moves, Ends, Removes, TypeOK
      <4> QED BY <3>12, <4>1, <4>2, <4>9 DEF Settle, TypeOK, HandWrittenKept
    <3>13. CASE Unadvertise(r)
      <4>1. run' \in [Run -> Work \union {None}] /\ Cautious'
        BY <3>13, <3>0, Ended DEF Unadvertise, At, Moves, Ends
      <4>9. lone' \subseteq Run
        BY <3>13 DEF Unadvertise, Moves, Ends, Removes, TypeOK
      <4> QED BY <3>13, <3>00, <4>1, <4>9 DEF Unadvertise, TypeOK, HandWrittenKept
    <3> QED BY <2>4, <3>1, <3>2, <3>3, <3>4, <3>5, <3>6, <3>7, <3>8, <3>9, <3>10, <3>11, <3>12, <3>13 DEF Step
  <2>5. CASE UNCHANGED vars
    BY <2>5 DEF TypeOK, HandWrittenKept, Cautious
  <2> QED
    BY <2>1, <2>2, <2>3, <2>4, <2>5 DEF Next
<1> QED BY <1>1, <1>2, PTL DEF Spec

\* Every variable keeps its type, and each run's group names only what its grant made and
\* what still exists.
THEOREM AccessTypeCorrect == Spec => []TypeOK
<1>1. AccessInv => TypeOK
  BY DEF AccessInv
<1> QED BY <1>1, AccessInvariant, PTL

\* No run prunes, withdraws or closes what somebody wrote by hand, whichever grants
\* reference it and however their runs meet: is_ours, the generated names and the
\* recorded sources keep it out of reach.
THEOREM HandWrittenIsKept == Spec => []HandWrittenKept
<1>1. AccessInv => HandWrittenKept
  BY DEF AccessInv
<1> QED BY <1>1, AccessInvariant, PTL
===============================================================================
