------------------------ MODULE AccessBroker_proofs ------------------------
(***************************************************************************)
(* What the access broker guarantees for any catalogue, any pairs of       *)
(* zones, any commits Junos refuses and any pass that stops half way:      *)
(* nothing unapproved reaches the firewall, no policy is on it without an  *)
(* object to answer for it, and no pass takes a live grant's policy.       *)
(***************************************************************************)
EXTENDS AccessBroker, TLAPS

\* Approval comes before the object, the object before the listing, the listing
\* before the policy.
ApprovedFirst ==
    \A g \in Grant :
        /\ Desired(g) => g \in approved
        /\ object[g] # None \/ items[g] # None \/ HasRule(g) => g \in approved

\* What a pass knows of an object is still true of it: what was listed with its
\* finalizer, or dying, is there and stays so until the pass releases it.
ListingStillTrue ==
    \A g \in Grant :
        /\ object[g] # None /\ object[g].deleting => object[g].finalizer
        /\ items[g] # None /\ items[g].deleting => items[g].finalizer
        /\ items[g] # None /\ items[g].finalizer => Held(g)
        /\ items[g] # None /\ items[g].deleting => object[g].deleting

\* The object in hand, while its policy is committed or taken away.
HandInStep ==
    /\ step \in {"held", "applied", "refused"} => ~items[current].deleting /\ Held(current)
    /\ step \in {"applied", "refused"} => current \in wanted
    /\ step = "removed" => items[current].deleting

\* A held object that is not dying was listed live by the running pass, and is
\* either still to be seen to or already wanted.
LiveIsWanted ==
    stage # "idle" => \A g \in Grant :
        Held(g) /\ ~object[g].deleting =>
            g \in wanted \/ (items[g] # None /\ ~items[g].deleting)

\* What an object may become while no pass releases it.
Follows(o, n) ==
    /\ n # None /\ n.deleting => n.finalizer
    /\ o # None /\ o.finalizer => n # None /\ n.finalizer /\ (o.deleting => n.deleting)

\* In step with one another, whatever the order of events.
BrokerInv ==
    TypeOK /\ ApprovedFirst /\ RuleHasItsObject /\ ListingStillTrue /\ HandInStep /\ LiveIsWanted

USE BrokerAssumption
DEF Nothing, Held, Desired, world, inHand, pass, vars

\* The inductive invariant of the portal, Crossplane and a pass taken together.
THEOREM BrokerInvariant == Spec => []BrokerInv
<1>1. Init => BrokerInv
  <2> SUFFICES ASSUME Init PROVE BrokerInv
    OBVIOUS
  <2> USE DEF Init
  <2>1. TypeOK
    BY DEF TypeOK
  <2>2. ApprovedFirst /\ RuleHasItsObject /\ ListingStillTrue
    BY DEF ApprovedFirst, RuleHasItsObject, ListingStillTrue, HasRule
  <2>3. HandInStep /\ LiveIsWanted
    BY DEF HandInStep, LiveIsWanted
  <2> QED BY <2>1, <2>2, <2>3 DEF BrokerInv
<1>2. BrokerInv /\ [Next]_vars => BrokerInv'
  <2> SUFFICES ASSUME BrokerInv, [Next]_vars PROVE BrokerInv'
    OBVIOUS
  <2> USE DEF BrokerInv, TypeOK, ApprovedFirst, RuleHasItsObject, ListingStillTrue,
              HandInStep, LiveIsWanted, HasRule
  <2>1. ASSUME NEW g \in Grant, Request(g) PROVE BrokerInv'
    <3> USE <2>1 DEF Request, Written
    <3>1. TypeOK'
      OBVIOUS
    <3>2. ApprovedFirst'
      OBVIOUS
    <3>3. RuleHasItsObject'
      OBVIOUS
    <3>4. ListingStillTrue'
      OBVIOUS
    <3>5. HandInStep' /\ LiveIsWanted'
      OBVIOUS
    <3> QED BY <3>1, <3>2, <3>3, <3>4, <3>5
  <2>2. ASSUME NEW g \in Grant, Approve(g) PROVE BrokerInv'
    <3> USE <2>2 DEF Approve, Written
    <3>1. TypeOK'
      OBVIOUS
    <3>2. ApprovedFirst'
      OBVIOUS
    <3>3. RuleHasItsObject'
      OBVIOUS
    <3>4. ListingStillTrue'
      OBVIOUS
    <3>5. HandInStep' /\ LiveIsWanted'
      OBVIOUS
    <3> QED BY <3>1, <3>2, <3>3, <3>4, <3>5
  <2>3. ASSUME NEW g \in Grant, Edit(g) PROVE BrokerInv'
    BY <2>3 DEF Edit, Written
  <2>4. ASSUME NEW g \in Grant, Revoke(g) PROVE BrokerInv'
    BY <2>4 DEF Revoke
  <2>5. ASSUME NEW g \in Grant, Compose(g) PROVE BrokerInv'
    <3>0. /\ object[g] \in Object \union {None} /\ UNCHANGED <<world, rule, pass, leaked>>
          /\ app[g] # None => app[g].access \in Access
      BY <2>5 DEF Compose
    <3>1. PICK n \in Object \union {None} :
             /\ object' = [object EXCEPT ![g] = n]
             /\ Follows(object[g], n)
             /\ n # None /\ n.finalizer /\ ~n.deleting => Held(g) /\ ~object[g].deleting
             /\ n # None => g \in approved
      <4>1. CASE Created(g)
        BY <3>0, <4>1 DEF Created, Fresh, Follows, Object
      <4>2. CASE Updated(g)
        <5> DEFINE n == [object[g] EXCEPT !.access = app[g].access]
        <5>1. /\ n \in Object /\ n # None
              /\ n.finalizer = object[g].finalizer /\ n.deleting = object[g].deleting
          BY <3>0, <4>2 DEF Updated, Object
        <5>2. object' = [object EXCEPT ![g] = n]
          BY <4>2 DEF Updated
        <5> HIDE DEF n
        <5> QED BY <3>0, <4>2, <5>1, <5>2 DEF Updated, Follows
      <4>3. CASE Deleted(g)
        <5> DEFINE n == [object[g] EXCEPT !.deleting = TRUE]
        <5>1. n \in Object /\ n.finalizer = object[g].finalizer /\ n.deleting
          BY <3>0, <4>3 DEF Deleted, Object
        <5>2. object' = [object EXCEPT ![g] = IF object[g].finalizer THEN n ELSE None]
          BY <4>3 DEF Deleted
        <5> HIDE DEF n
        <5> QED BY <3>0, <4>3, <5>1, <5>2 DEF Deleted, Follows, Object
      <4> QED BY <2>5, <4>1, <4>2, <4>3 DEF Compose
    <3>2. TypeOK'
      BY <3>1 , <3>0 DEF Follows
    <3>3. ApprovedFirst'
      BY <3>1 , <3>0 DEF Follows
    <3>4. RuleHasItsObject'
      BY <3>1 , <3>0 DEF Follows
    <3>5. ListingStillTrue'
      BY <3>1 , <3>0 DEF Follows
    <3>6. HandInStep' /\ LiveIsWanted'
      BY <3>1 , <3>0 DEF Follows
    <3> QED BY <3>2, <3>3, <3>4, <3>5, <3>6
  <2>6. ASSUME NEW g \in Grant, NEW p \in Pair, EditByHand(g, p) PROVE BrokerInv'
    BY <2>6 DEF EditByHand
  <2>7. ASSUME CalmDown PROVE BrokerInv'
    BY <2>7 DEF CalmDown
  <2>8. ASSUME PassFails PROVE BrokerInv'
    BY <2>8 DEF PassFails, PassOver
  <2>9. ASSUME ListObjects PROVE BrokerInv'
    <3>1. \A g \in Grant :
             /\ items'[g] \in Object \union {None}
             /\ items'[g] = None <=> object[g] = None
             /\ object[g] # None => /\ items'[g].finalizer = object[g].finalizer
                                    /\ items'[g].deleting = object[g].deleting
      <4> SUFFICES ASSUME NEW g \in Grant
                   PROVE  /\ items'[g] \in Object \union {None}
                          /\ items'[g] = None <=> object[g] = None
                          /\ object[g] # None => /\ items'[g].finalizer = object[g].finalizer
                                                 /\ items'[g].deleting = object[g].deleting
        OBVIOUS
      <4>1. items'[g] = Listed(object[g]) /\ object[g] \in Object \union {None}
        BY <2>9 DEF ListObjects
      <4>2. CASE object[g] = None
        BY <4>1, <4>2 DEF Listed
      <4>3. CASE object[g] \in Object
        <5> DEFINE o == object[g]
                   n == [o EXCEPT !.ready = "unknown", !.observed = None]
        <5>1. o \in Object /\ items'[g] = n
          BY <4>1, <4>3 DEF Listed
        <5>2. n \in Object /\ n.finalizer = o.finalizer /\ n.deleting = o.deleting
          <6> HIDE DEF o
          <6> QED BY <5>1 DEF Object
        <5> QED BY <5>1, <5>2
      <4> QED BY <4>1, <4>2, <4>3
    <3> USE <2>9 DEF ListObjects
    <3>2. TypeOK'
      BY <3>1 
    <3>3. ApprovedFirst'
      BY <3>1 
    <3>4. RuleHasItsObject'
      BY <3>1 
    <3>5. ListingStillTrue'
      BY <3>1 
    <3>6. HandInStep' /\ LiveIsWanted'
      BY <3>1 
    <3> QED BY <3>2, <3>3, <3>4, <3>5, <3>6
  <2>10. ASSUME ListManaged PROVE BrokerInv'
    BY <2>10 DEF ListManaged
  <2>11. ASSUME ItemsDone PROVE BrokerInv'
    BY <2>11 DEF ItemsDone
  <2>12. ASSUME PassEnds PROVE BrokerInv'
    BY <2>12 DEF PassEnds, PassOver
  <2>13. ASSUME NEW g \in Grant, Hold(g) PROVE BrokerInv'
    <3>0. object[g] \in Object \union {None}
      OBVIOUS
    <3>1. /\ Held(g)' /\ object'[g] \in Object
          /\ object[g] # None /\ object'[g].deleting = object[g].deleting
          /\ object' = [object EXCEPT ![g] = object'[g]]
      <4>1. CASE items[g].finalizer
        BY <2>13, <3>0, <4>1 DEF Hold, IsNext
      <4>2. CASE ~items[g].finalizer
        <5> DEFINE n == [object[g] EXCEPT !.finalizer = TRUE]
        <5>1. object[g] \in Object /\ object' = [object EXCEPT ![g] = n]
          BY <2>13, <3>0, <4>2 DEF Hold, HoldIt
        <5>2. n \in Object /\ n.finalizer /\ n.deleting = object[g].deleting
          BY <5>1 DEF Object
        <5> HIDE DEF n
        <5> QED BY <5>1, <5>2
      <4> QED BY <4>1, <4>2
    <3> USE <2>13 DEF Hold, IsNext
    <3>2. TypeOK'
      BY <3>1 
    <3>3. ApprovedFirst'
      BY <3>1 
    <3>4. RuleHasItsObject'
      BY <3>1 
    <3>5. ListingStillTrue'
      BY <3>1 
    <3>6. HandInStep' /\ LiveIsWanted'
      BY <3>1 
    <3> QED BY <3>2, <3>3, <3>4, <3>5, <3>6
  <2>14. ASSUME NEW g \in Grant, HoldRefused(g) PROVE BrokerInv'
    BY <2>14 DEF HoldRefused, PassOver
  <2>15. ASSUME Apply PROVE BrokerInv'
    <3>1. current \in Grant /\ items[current] \in Object
      BY <2>15 DEF Apply
    <3>2. items[current].access.pair \in Pair /\ items[current].access.ports \subseteq Port
      BY <3>1 DEF Object, Access
    <3> QED BY <2>15, <3>1, <3>2 DEF Apply
  <2>16. ASSUME ApplyRefused PROVE BrokerInv'
    BY <2>16 DEF ApplyRefused, WantedStill
  <2>17. ASSUME SetReady PROVE BrokerInv'
    <3>0. current \in Grant /\ object[current] \in Object /\ items[current] \in Object
      BY <2>17 DEF SetReady
    <3>1. PICK n \in Object :
             /\ object' = [object EXCEPT ![current] = n]
             /\ n.finalizer = object[current].finalizer /\ n.deleting = object[current].deleting
      <4> DEFINE o == object[current]
                 a == items[current].access
                 r == IF step = "applied" THEN "true" ELSE "false"
                 n == [o EXCEPT !.ready = r, !.policyRef = a.pair, !.observed = a]
      <4>1. a \in Access /\ a.pair \in Pair /\ r \in {"true", "false"}
        BY <3>0 DEF Object, Access
      <4>2. object' = [object EXCEPT ![current] = n] \/ object' = object
        BY <2>17, <3>0 DEF SetReady
      <4>3. n \in Object /\ n.finalizer = o.finalizer /\ n.deleting = o.deleting
        <5> HIDE DEF a, r
        <5> QED BY <3>0, <4>1 DEF Object
      <4>4. object = [object EXCEPT ![current] = o]
        BY <3>0
      <4> HIDE DEF n
      <4> QED BY <3>0, <4>2, <4>3, <4>4
    <3> USE <2>17 DEF SetReady
    <3>2. TypeOK'
      BY <3>1 , <3>0
    <3>3. ApprovedFirst'
      BY <3>1 , <3>0
    <3>4. RuleHasItsObject'
      BY <3>1 , <3>0
    <3>5. ListingStillTrue'
      BY <3>1 , <3>0
    <3>6. HandInStep' /\ LiveIsWanted'
      BY <3>1 , <3>0
    <3> QED BY <3>2, <3>3, <3>4, <3>5, <3>6
  <2>18. ASSUME NEW g \in Grant, Remove(g) PROVE BrokerInv'
    BY <2>18 DEF Remove, Removed, IsNext
  <2>19. ASSUME Release PROVE BrokerInv'
    <3> USE <2>19 DEF Release
    <3>1. TypeOK'
      OBVIOUS
    <3>2. ApprovedFirst'
      OBVIOUS
    <3>3. RuleHasItsObject'
      OBVIOUS
    <3>4. ListingStillTrue'
      OBVIOUS
    <3>5. HandInStep' /\ LiveIsWanted'
      OBVIOUS
    <3> QED BY <3>1, <3>2, <3>3, <3>4, <3>5
  <2>20. ASSUME NEW g \in Grant, Prune(g) PROVE BrokerInv'
    BY <2>20 DEF Prune, Removed, Orphans
  <2>21. CASE UNCHANGED vars
    BY <2>21
  <2> QED
    BY <2>1, <2>2, <2>3, <2>4, <2>5, <2>6, <2>7, <2>8, <2>9, <2>10, <2>11, <2>12, <2>13, <2>14, <2>15, <2>16, <2>17, <2>18, <2>19, <2>20, <2>21 DEF Next, Reconcile
<1> QED BY <1>1, <1>2, PTL DEF Spec

\* The pass, what it listed and the object in hand keep to their types and to one
\* another (reconcile).
THEOREM BrokerTypeCorrect == Spec => []TypeOK
<1>1. BrokerInv => TypeOK
  BY DEF BrokerInv
<1> QED BY BrokerInvariant, <1>1, PTL

\* Nothing reaches the firewall under a name nobody approved (the composition's
\* gate, and reconcile that works on what it listed).
THEOREM OnlyApproved == Spec => []NothingUnapproved
<1>1. BrokerInv => NothingUnapproved
  BY DEF BrokerInv, ApprovedFirst, NothingUnapproved
<1> QED BY BrokerInvariant, <1>1, PTL

\* A policy has an object to answer for it, or its removal was refused (the
\* finalizer, apply and remove of reconcile).
THEOREM RulesAnsweredFor == Spec => []RuleHasItsObject
<1>1. BrokerInv => RuleHasItsObject
  BY DEF BrokerInv
<1> QED BY BrokerInvariant, <1>1, PTL

\* No step of a pass takes a port from under a live object (remove and the orphan
\* sweep of reconcile).
THEOREM LiveGrantsKept == Spec => LiveGrantKeepsItsRule
<1> DEFINE Kept(g) == Held(g) /\ ~object[g].deleting =>
                         \A p \in Pair : rule[g][p] \subseteq rule'[g][p]
<1>1. BrokerInv /\ [Next]_vars => [pass' # pass => \A g \in Grant : Kept(g)]_vars
  <2> SUFFICES ASSUME BrokerInv, Next, pass' # pass, NEW h \in Grant PROVE Kept(h)
    OBVIOUS
  <2>0. TypeOK /\ ListingStillTrue /\ LiveIsWanted
    BY DEF BrokerInv
  <2>1. CASE rule' = rule
    BY <2>1
  <2>2. CASE Apply
    BY <2>0, <2>2 DEF Apply, TypeOK
  <2>3. ASSUME NEW g \in Grant, Remove(g) PROVE Kept(h)
    <3>1. object[g].deleting
      BY <2>0, <2>3 DEF Remove, IsNext, ListingStillTrue
    <3> QED BY <2>0, <2>3, <3>1 DEF Remove, Removed, TypeOK
  <2>4. ASSUME NEW g \in Grant, Prune(g) PROVE Kept(h)
    <3>1. g \notin wanted /\ items[g] = None
      BY <2>0, <2>4 DEF Prune, Orphans, TypeOK
    <3>2. ~(Held(g) /\ ~object[g].deleting)
      BY <2>0, <2>4, <3>1 DEF Prune, LiveIsWanted
    <3> QED BY <2>0, <2>4, <3>2 DEF Prune, Removed, TypeOK
  <2>5. \/ rule' = rule \/ Apply \/ \E g \in Grant : Remove(g) \/ Prune(g)
    BY DEF Next, Reconcile, ListObjects, ListManaged, ItemsDone, PassEnds, Hold, HoldRefused,
           ApplyRefused, SetReady, Release, PassFails, CalmDown, Request, Approve, Edit, Written,
           Revoke, Compose, EditByHand
  <2> QED BY <2>1, <2>2, <2>3, <2>4, <2>5
<1> QED BY BrokerInvariant, <1>1, PTL DEF Spec, LiveGrantKeepsItsRule

-----------------------------------------------------------------------------
(***************************************************************************)
(* One undisturbed pass.                                                   *)
(***************************************************************************)

\* Crossplane has nothing left to do for a grant.
Composed(g) ==
    IF Desired(g) THEN object[g] # None /\ ~object[g].deleting /\ object[g].access = app[g].access
    ELSE object[g] # None => object[g].deleting

\* A pass has just listed the objects, and they are what they are to be.
Underway ==
    /\ calm /\ stage = "listed"
    /\ \A g \in Grant : Composed(g) /\ items[g] = Listed(object[g])

\* Such a pass ends with everything settled, whatever the passes before it left half
\* done, and no later pass unsettles anything: all of ComesToRest but the fairness
\* that Crossplane composes and a pass is made.
PassSettles == [](Underway => [](stage = "idle" => []Settled))

\* How far the pass has come with a grant.
Progress(g) ==
    /\ Composed(g)
    /\ Desired(g) =>
          /\ items[g] # None => items[g].access = app[g].access /\ ~items[g].deleting
          /\ stage # "idle" /\ items[g] = None => g \in wanted /\ Granted(g)
          /\ current = g /\ step = "applied" =>
                /\ app[g].access \notin Rejected
                /\ app[g].access.ports \subseteq rule[g][app[g].access.pair]
          /\ current = g /\ step = "refused" => app[g].access \in Rejected
    /\ ~Desired(g) =>
          /\ g \notin wanted
          /\ items[g] # None => items[g].deleting
          /\ stage # "idle" /\ items[g] = None => object[g] = None
          /\ stage \in {"items", "orphans"} =>
                IF managed[g] = None THEN HasRule(g) => Straddles(g)
                ELSE rule[g][managed[g]] # {} \/ ~HasRule(g)

Settling == calm /\ \A g \in Grant : Progress(g)

\* Once the world is calm, only Crossplane and the pass go on, and Crossplane has
\* nothing left to do.
LEMMA OnlyThePass ==
    ASSUME BrokerInv, Settling, Next
    PROVE  /\ Reconcile
           /\ calm' = calm /\ app' = app
           /\ \A g \in Grant : Desired(g)' = Desired(g)
<1> USE DEF Settling, Progress, Composed
<1>1. ASSUME NEW g \in Grant, Compose(g) PROVE FALSE
  BY <1>1 DEF Compose, Created, Updated, Deleted
<1>2. ~PassFails /\ ~CalmDown
  BY DEF PassFails, CalmDown
<1>3. ASSUME NEW g \in Grant
      PROVE  ~Request(g) /\ ~Approve(g) /\ ~Edit(g) /\ ~Revoke(g)
             /\ \A p \in Pair : ~EditByHand(g, p)
  BY DEF Request, Approve, Edit, Revoke, Written, EditByHand
<1>4. Reconcile
  BY <1>1, <1>2, <1>3 DEF Next
<1> QED
  BY <1>4 DEF Reconcile, ListObjects, ListManaged, Hold, HoldRefused, Apply, ApplyRefused,
              SetReady, Remove, Release, ItemsDone, Prune, PassEnds

\* What a pass lists of an object is what the object asks for, and whether it is dying.
LEMMA ListedKeeps ==
    ASSUME NEW o \in Object \union {None}
    PROVE  /\ Listed(o) = None <=> o = None
           /\ o # None => Listed(o).access = o.access /\ Listed(o).deleting = o.deleting
<1>1. CASE o = None
  BY <1>1 DEF Listed
<1>2. CASE o \in Object
  <2>1. Listed(o) = [o EXCEPT !.ready = "unknown", !.observed = None] /\ o # None
    BY <1>2 DEF Listed
  <2>2. Listed(o) \in Object
    BY <1>2, <2>1 DEF Object
  <2> QED BY <1>2, <2>1, <2>2 DEF Object
<1> QED BY <1>1, <1>2

\* Holding an object changes nothing of it but its finalizer.
LEMMA HeldOnly ==
    ASSUME TypeOK, NEW h \in Grant, Hold(h), NEW g \in Grant
    PROVE  /\ object'[g] = None <=> object[g] = None
           /\ object[g] # None => /\ object'[g].access = object[g].access
                                  /\ object'[g].deleting = object[g].deleting
                                  /\ object'[g].ready = object[g].ready
                                  /\ object'[g].observed = object[g].observed
<1>1. object \in [Grant -> Object \union {None}]
  BY DEF TypeOK
<1>2. CASE g # h \/ object' = object
  BY <1>1, <1>2 DEF Hold, HoldIt
<1>3. CASE g = h /\ object' # object
  <2>1. object[h] \in Object /\ object'[h] = [object[h] EXCEPT !.finalizer = TRUE]
    BY <1>1, <1>3 DEF Hold, HoldIt
  <2>2. object'[h] \in Object
    BY <2>1 DEF Object
  <2> QED BY <1>3, <2>1, <2>2 DEF Object
<1> QED BY <1>2, <1>3

\* A report says how the object in hand fared, and of what it was listed with.
LEMMA ReportedOnly ==
    ASSUME TypeOK, HandInStep, calm, SetReady
    PROVE  /\ current \in Grant /\ object[current] # None /\ object'[current] # None
           /\ object'[current].access = object[current].access
           /\ object'[current].deleting = object[current].deleting
           /\ object'[current].ready = IF step = "applied" THEN "true" ELSE "false"
           /\ object'[current].observed = items[current].access
           /\ \A g \in Grant \ {current} : object'[g] = object[g]
<1>1. /\ object \in [Grant -> Object \union {None}] /\ items \in [Grant -> Object \union {None}]
      /\ current \in Grant /\ items[current] # None
  BY DEF TypeOK, SetReady
<1>2. object[current] \in Object /\ items[current] \in Object
  BY <1>1 DEF HandInStep, SetReady
<1>3. object' = [object EXCEPT ![current].ready = IF step = "applied" THEN "true" ELSE "false",
                               ![current].policyRef = items[current].access.pair,
                               ![current].observed = items[current].access]
  BY <1>2 DEF SetReady
<1>4. object'[current] = [object[current] EXCEPT
                             !.ready = IF step = "applied" THEN "true" ELSE "false",
                             !.policyRef = items[current].access.pair,
                             !.observed = items[current].access]
  BY <1>1, <1>3
<1>5. items[current].access \in Access /\ items[current].access.pair \in Pair
  BY <1>2 DEF Object, Access
<1>6. object'[current] \in Object
  BY <1>2, <1>4, <1>5 DEF Object
<1> QED BY <1>1, <1>2, <1>3, <1>4, <1>6 DEF Object

\* The pass brings every grant further, or leaves it as it is.
LEMMA ProgressStays ==
    ASSUME BrokerInv, Settling, Next, stage # "idle" \/ Settled, NEW g \in Grant
    PROVE  Progress(g)'
<1>0. /\ Progress(g) /\ calm
      /\ Reconcile /\ calm' = calm /\ app' = app /\ Desired(g)' = Desired(g)
      /\ TypeOK /\ ListingStillTrue /\ HandInStep
  BY OnlyThePass DEF Settling, BrokerInv
<1> USE <1>0 DEF TypeOK, Progress, Composed, Granted, HasRule, Straddles
<1>1. CASE ListObjects
  <2>1. items'[g] = Listed(object[g]) /\ stage' = "listed"
        /\ UNCHANGED <<object, rule, wanted, managed, current, step>> /\ wanted = {}
    BY <1>1 DEF ListObjects
  <2>2. IF Desired(g) THEN Granted(g) ELSE Withdrawn(g)
    BY <1>1 DEF ListObjects, Settled
  <2>3. /\ items'[g] = None <=> object[g] = None
        /\ object[g] # None => items'[g].access = object[g].access
                              /\ items'[g].deleting = object[g].deleting
    BY <2>1, ListedKeeps
  <2> HIDE DEF Straddles, HasRule
  <2> QED BY <1>1, <2>1, <2>2, <2>3 DEF Withdrawn
<1>2. CASE ListManaged
  BY <1>2 DEF ListManaged
<1>3. CASE ItemsDone
  BY <1>3 DEF ItemsDone
<1>4. CASE PassEnds
  BY <1>4 DEF PassEnds, PassOver
<1>5. ASSUME NEW h \in Grant, Hold(h) PROVE Progress(g)'
  BY <1>5, HeldOnly DEF Hold, IsNext
<1>6. ASSUME NEW h \in Grant, HoldRefused(h) PROVE Progress(g)'
  BY <1>6 DEF HoldRefused, IsNext, Settling
<1>7. ASSUME NEW h \in Grant, Remove(h) PROVE Progress(g)'
  BY <1>7 DEF Remove, Removed, IsNext
<1>8. ASSUME NEW h \in Grant, Prune(h) PROVE Progress(g)'
  BY <1>8 DEF Prune, Removed, Orphans
<1>9. CASE Apply
  <2>1. current \in Grant /\ ~items[current].deleting /\ Progress(current)
    BY <1>9 DEF Apply, HandInStep, Settling
  <2>2. Desired(current) /\ items[current].access = app[current].access
    BY <1>9, <2>1 DEF Apply
  <2>3. app[current].access.pair \in Pair /\ app[current].access \in Access
    BY <2>1, <2>2 DEF Access
  <2>4. CASE g # current
    BY <1>9, <2>1, <2>4 DEF Apply
  <2>5. CASE g = current
    <3>1. rule'[g][app[g].access.pair] = rule[g][app[g].access.pair] \union app[g].access.ports
      BY <1>9, <2>1, <2>2, <2>3, <2>5 DEF Apply
    <3> QED BY <1>9, <2>1, <2>2, <2>3, <2>5, <3>1 DEF Apply
  <2> QED BY <2>4, <2>5
<1>10. CASE ApplyRefused
  BY <1>10 DEF ApplyRefused, WantedStill, HandInStep, Settling
<1>11. CASE SetReady
  <2>1. current \in Grant /\ ~items[current].deleting /\ Progress(current)
        /\ current \in wanted
    BY <1>11, ReportedOnly DEF SetReady, HandInStep, Settling
  <2>2. Desired(current) /\ items[current].access = app[current].access
    BY <1>11, <2>1 DEF SetReady
  <2>3. CASE g # current
    BY <1>11, <2>3, ReportedOnly DEF SetReady
  <2>4. CASE g = current
    BY <1>11, <2>1, <2>2, <2>4, ReportedOnly DEF SetReady
  <2> QED BY <2>3, <2>4
<1>12. CASE Release
  BY <1>12 DEF Release, HandInStep
<1> QED
  BY <1>1, <1>2, <1>3, <1>4, <1>5, <1>6, <1>7, <1>8, <1>9, <1>10, <1>11, <1>12 DEF Reconcile

\* When the pass ends, it has seen to every grant.
LEMMA PassEndsSettled ==
    ASSUME BrokerInv, Settling, Next, stage # "idle", stage' = "idle"
    PROVE  Settled'
<1> USE DEF Settling
<1>1. PassEnds
  <2>1. ~\E h \in Grant : HoldRefused(h)
    BY DEF HoldRefused, IsNext, Progress, Composed
  <2> QED
    BY <2>1, OnlyThePass
       DEF Reconcile, ListObjects, ListManaged, Hold, Apply, ApplyRefused, SetReady, Remove,
           Release, ItemsDone, Prune
<1>2. SUFFICES ASSUME NEW g \in Grant
               PROVE  (IF Desired(g) THEN Granted(g) ELSE Withdrawn(g))'
  BY DEF Settled
<1>3. Progress(g) /\ items[g] = None /\ (managed[g] = None \/ g \in wanted) /\ stage = "orphans"
  BY <1>1 DEF PassEnds, Orphans, BrokerInv, TypeOK
<1>4. IF Desired(g) THEN Granted(g) ELSE Withdrawn(g)
  BY <1>3 DEF Progress, Withdrawn
<1> QED BY <1>1, <1>4 DEF PassEnds, Granted, Withdrawn, HasRule, Straddles

\* What is settled, a further pass finds so and leaves so.
LEMMA SettledStays ==
    ASSUME BrokerInv, Settling, Settled, Next
    PROVE  Settled'
<1>0. SUFFICES ASSUME NEW g \in Grant
               PROVE  (IF Desired(g) THEN Granted(g) ELSE Withdrawn(g))'
  BY DEF Settled
<1>1. /\ Progress(g) /\ (IF Desired(g) THEN Granted(g) ELSE Withdrawn(g)) /\ calm
      /\ Reconcile /\ calm' = calm /\ app' = app /\ Desired(g)' = Desired(g)
      /\ TypeOK /\ ListingStillTrue /\ HandInStep
  BY OnlyThePass DEF Settling, Settled, BrokerInv
<1> USE <1>1 DEF TypeOK, Progress, Composed, Granted, Withdrawn, HasRule, Straddles
<1>2. CASE UNCHANGED <<object, rule>>
  BY <1>2
<1>3. ASSUME NEW h \in Grant, Hold(h)
      PROVE  (IF Desired(g) THEN Granted(g) ELSE Withdrawn(g))'
  BY <1>3, HeldOnly DEF Hold
<1>4. ASSUME NEW h \in Grant, Remove(h)
      PROVE  (IF Desired(g) THEN Granted(g) ELSE Withdrawn(g))'
  BY <1>4 DEF Remove, IsNext, Removed, ListingStillTrue
<1>5. ASSUME NEW h \in Grant, Prune(h)
      PROVE  (IF Desired(g) THEN Granted(g) ELSE Withdrawn(g))'
  <2>1. CASE g # h
    BY <1>5, <2>1 DEF Prune, Removed
  <2>2. CASE g = h
    <3>1. ~Desired(g) /\ managed[g] \in Pair
      BY <1>5, <2>2 DEF Prune, Orphans
    <3>2. CASE rule' = rule
      BY <1>5, <3>1, <3>2 DEF Prune
    <3>3. CASE \A p \in Pair : rule'[g][p] = {}
      BY <1>5, <3>1, <3>3 DEF Prune
    <3> QED BY <1>5, <2>2, <3>1, <3>2, <3>3 DEF Prune, Removed
  <2> QED BY <2>1, <2>2
<1>6. CASE Apply
  BY <1>6 DEF Apply, HandInStep
<1>7. CASE SetReady
  <2>1. current \in Grant /\ ~items[current].deleting /\ Progress(current)
    BY <1>7, ReportedOnly DEF SetReady, HandInStep, Settling
  <2>2. Desired(current) /\ items[current].access = app[current].access
    BY <1>7, <2>1 DEF SetReady
  <2>3. CASE g # current
    BY <1>7, <2>3, ReportedOnly DEF SetReady
  <2>4. CASE g = current
    BY <1>7, <2>1, <2>2, <2>4, ReportedOnly DEF SetReady
  <2> QED BY <2>3, <2>4
<1>8. CASE Release
  BY <1>8 DEF Release, HandInStep, ListingStillTrue
<1> QED
  BY <1>2, <1>3, <1>4, <1>5, <1>6, <1>7, <1>8
     DEF Reconcile, ListObjects, ListManaged, HoldRefused, ApplyRefused, ItemsDone, PassEnds

\* A pass that begins when Crossplane has composed everything settles everything,
\* for good.
THEOREM OnePassSettles == Spec => PassSettles
<1> DEFINE OnItsWay == Settling /\ (stage # "idle" \/ Settled)
           There == Settling /\ Settled
<1>1. BrokerInv /\ Underway => OnItsWay
  <2> SUFFICES ASSUME BrokerInv, Underway, NEW g \in Grant PROVE Progress(g)
    BY DEF Underway, Settling
  <2>1. /\ items[g] = None <=> object[g] = None
        /\ object[g] # None => items[g].access = object[g].access
                              /\ items[g].deleting = object[g].deleting
    BY ListedKeeps DEF Underway, BrokerInv, TypeOK
  <2> QED BY <2>1 DEF BrokerInv, TypeOK, Underway, Progress, Composed
<1>2. BrokerInv /\ OnItsWay /\ [Next]_vars => OnItsWay'
  <2> SUFFICES ASSUME BrokerInv, OnItsWay, [Next]_vars PROVE OnItsWay'
    OBVIOUS
  <2>1. CASE Next
    <3>1. Settling'
      BY <2>1, ProgressStays, OnlyThePass DEF Settling
    <3>2. stage' # "idle" \/ Settled'
      BY <2>1, PassEndsSettled, SettledStays
    <3> QED BY <3>1, <3>2
  <2>2. CASE UNCHANGED vars
    BY <2>2 DEF Settling, Settled, Progress, Composed, Granted, Withdrawn, HasRule, Straddles
  <2> QED BY <2>1, <2>2
<1>3. BrokerInv /\ There /\ [Next]_vars => There'
  <2> SUFFICES ASSUME BrokerInv, There, [Next]_vars PROVE There'
    OBVIOUS
  <2>1. CASE Next
    <3>1. Settling'
      BY <2>1, ProgressStays, OnlyThePass DEF Settling
    <3> QED BY <2>1, <3>1, SettledStays
  <2>2. CASE UNCHANGED vars
    BY <2>2 DEF Settling, Settled, Progress, Composed, Granted, Withdrawn, HasRule, Straddles
  <2> QED BY <2>1, <2>2
<1>4. OnItsWay /\ stage = "idle" => There
  OBVIOUS
<1>5. There => Settled
  OBVIOUS
<1> HIDE DEF BrokerInv, OnItsWay, There
<1> QED BY <1>1, <1>2, <1>3, <1>4, <1>5, BrokerInvariant, PTL DEF Spec, PassSettles
===============================================================================
