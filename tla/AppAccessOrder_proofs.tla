------------------------ MODULE AppAccessOrder_proofs ------------------------
(***************************************************************************)
(* What overlapping runs of one grant leave behind, and what a run does    *)
(* that nothing disturbs, for any grants, runs, ports and events.          *)
(***************************************************************************)
EXTENDS AppAccess_proofs

USE DEF request, firewall, policy, ghosts, vars

(***************************************************************************)
(* Runs of one grant that overlap.                                         *)
(***************************************************************************)

Builds      == {"write", "rule", "link", "permit", "record", "advertise", "end"}
Withdrawals == {"unrule", "unwrite", "close", "settle", "unadvertise"}

\* The grant's own object for an item is the one a run would use.
UsesOwn(g, i) == Resolved(g, i) = <<g, i>>

\* The rule was written by a run that read what the grant wants now.
RuleStands(g) ==
    /\ Covers(g) /\ Own(g, rule[g]) \subseteq objects
    /\ \A i \in wants[g] : <<g, i>> \in rule[g] => UsesOwn(g, i)

\* The source of a grant is open for good.
SourceHolds(g) == source[g] \in Declared \/ g \in recorded

\* Another run of the grant is about to record its source.
BeingRecorded(g) == \E q \in Of(g) : run[q].at = "record"

\* A build, at each of its steps.
Building(r) ==
    LET w == run[r]
        g == w.of IN
    w.at \in Builds =>
        /\ ~Withdrawn(g) /\ wants[g] # {}
        /\ {o[2] : o \in w.uses} = wants[g]
        /\ \A i \in wants[g] : <<g, i>> \in w.uses <=> UsesOwn(g, i)
        /\ w.at # "write" => Own(g, w.uses) \subseteq objects
        /\ w.at \notin {"write", "rule"} => RuleStands(g)
        /\ w.at \in {"permit", "record", "advertise", "end"} => g \in linked /\ status[g] = "active"
        /\ w.seen \/ w.at \in {"record", "advertise", "end"} => source[g] \in allowed
        /\ ~w.seen => w.may
        /\ w.may /\ w.at \in {"advertise", "end"} => g \in recorded
        /\ ~w.may => SourceHolds(g) \/ BeingRecorded(g)
        /\ w.adv \ {g} = advertised \ {g}
        /\ w.at = "end" => g \in advertised

\* A withdrawal, at each of its steps.
Withdrawing(r) ==
    LET w == run[r]
        g == w.of IN
    w.at \in Withdrawals =>
        /\ Withdrawn(g)
        /\ w.adv \ {g} = advertised \ {g} /\ (g \in advertised => g \in w.adv)
        /\ IF w.at = "unrule" THEN g \in linked => w.seen ELSE rule[g] = None
        /\ IF w.at \in {"unrule", "unwrite"} THEN Own(g, objects) \subseteq w.uses
           ELSE Own(g, objects) = {}
        /\ w.may /\ w.at \in {"unrule", "unwrite", "close"} => Closes(g)

Refusing(r) == run[r].at = "refuse" => ~Withdrawn(run[r].of) /\ wants[run[r].of] = {}

\* Runs at work are of one grant, and in step with it.
InStep ==
    /\ \A r, q \in Busy : run[r].of = run[q].of
    /\ \A r \in Busy : Refusing(r) /\ Building(r) /\ Withdrawing(r)

\* A withdrawal that will take the advertisement back.
Unadvertises(q) ==
    \/ run[q].at \in {"unwrite", "close"} /\ run[q].removed
    \/ run[q].at \in {"settle", "unadvertise"}

\* What hangs on a grant's rule: nothing is left where a withdrawal would not find it.
Tied(g) ==
    /\ rule[g] # None => g \in linked \/ \E q \in Of(g) : run[q].at = "link"
    /\ g \in advertised => g \in linked \/ \E q \in Of(g) : Unadvertises(q)

NoLooseEnds == \A g \in Grant : Tied(g)

WillClose(h) ==
    h \in due \/ \E q \in Of(h) : run[q].may /\ run[q].at \in {"unrule", "unwrite", "close"}

\* A source that is open by no declaration is some grant's to close.
Accounted ==
    \A s \in allowed \ Declared : \E h \in Grant :
        /\ source[h] = s
        /\ (h \in recorded /\ (~Withdrawn(h) \/ WillClose(h))) \/ BeingRecorded(h)

\* A grant no run is at work on, nor due to be.
Quiet(g) == g \notin due /\ Of(g) = {}

Built(g) ==
    /\ status[g] = "active" /\ Covers(g) /\ Own(g, rule[g]) \subseteq objects
    /\ g \in linked /\ g \in advertised
    /\ SourceHolds(g) /\ source[g] \in allowed

Done(g) ==
    Quiet(g) => IF Withdrawn(g) THEN rule[g] = None /\ Own(g, objects) = {}
                ELSE wants[g] # {} => Built(g)

QuietIsDone == \A g \in Grant : Done(g)

OrderInv ==
    apart /\ steady =>
        /\ InStep /\ NoLooseEnds /\ Accounted /\ QuietIsDone
        /\ \A g \in revoked : Withdrawn(g)

-----------------------------------------------------------------------------
(***************************************************************************)
(* What a step of a run does to the runs.                                  *)
(***************************************************************************)

Places == {"refuse", "write", "rule", "link", "permit", "record", "advertise", "end",
           "unrule", "unwrite", "close", "settle", "unadvertise"}

\* The run goes on from another place with what it read.
GoesOn(r, there) ==
    /\ Busy' = Busy
    /\ \A q \in Busy \ {r} : run'[q] = run[q]
    /\ run'[r].at = there /\ run'[r].of = run[r].of /\ run'[r].uses = run[r].uses
    /\ run'[r].seen = run[r].seen /\ run'[r].may = run[r].may /\ run'[r].adv = run[r].adv

\* The run is over.
IsOver(r) ==
    /\ Busy' = Busy \ {r}
    /\ \A q \in Busy \ {r} : run'[q] = run[q]

\* A step that goes on keeps the other runs, and what its own read.
LEMMA MovesOn ==
    ASSUME TypeOK, NEW r \in Run, run[r] # None, NEW there \in Places, Moves(r, there)
    PROVE  GoesOn(r, there) /\ run'[r].removed = run[r].removed
<1>1. run[r] \in Work
  BY DEF TypeOK
<1>2. [run[r] EXCEPT !.at = there] \in Work
  BY <1>1 DEF Work, Places
<1>3. run' = [run EXCEPT ![r] = [run[r] EXCEPT !.at = there]]
  BY DEF Moves
<1>4. \A q \in Run : run'[q] = IF q = r THEN [run[r] EXCEPT !.at = there] ELSE run[q]
  BY <1>3 DEF TypeOK
<1>5. run'[r] # None
  <2> HIDE DEF Work
  <2> QED BY <1>2, <1>4, AccessAssumption
<1>6. Busy' = Busy
  BY <1>4, <1>5 DEF Busy
<1>7. run'[r] = [run[r] EXCEPT !.at = there]
  BY <1>4
<1>8. /\ run'[r].at = there /\ run'[r].of = run[r].of /\ run'[r].uses = run[r].uses
      /\ run'[r].seen = run[r].seen /\ run'[r].may = run[r].may /\ run'[r].adv = run[r].adv
      /\ run'[r].removed = run[r].removed
  BY <1>1, <1>7 DEF Work
<1> QED BY <1>4, <1>6, <1>8 DEF GoesOn, Busy

\* So does a step of a withdrawal, which counts what it removed.
LEMMA RemovesOn ==
    ASSUME TypeOK, NEW r \in Run, run[r] # None, NEW there \in Places, NEW b \in BOOLEAN,
           Removes(r, b, there)
    PROVE  GoesOn(r, there) /\ run'[r].removed = (run[r].removed \/ b)
<1>1. run[r] \in Work
  BY DEF TypeOK
<1> DEFINE done == run[r].removed \/ b
<1>2. [run[r] EXCEPT !.at = there, !.removed = done] \in Work
  BY <1>1 DEF Work, Places
<1>3. run' = [run EXCEPT ![r] = [run[r] EXCEPT !.at = there, !.removed = done]]
  BY DEF Removes
<1>4. \A q \in Run : run'[q] = IF q = r THEN [run[r] EXCEPT !.at = there, !.removed = done]
                                ELSE run[q]
  BY <1>3 DEF TypeOK
<1>5. run'[r] # None
  <2> HIDE DEF Work
  <2> QED BY <1>2, <1>4, AccessAssumption
<1>6. Busy' = Busy
  BY <1>4, <1>5 DEF Busy
<1>7. run'[r] = [run[r] EXCEPT !.at = there, !.removed = done]
  BY <1>4
<1>8. /\ run'[r].at = there /\ run'[r].of = run[r].of /\ run'[r].uses = run[r].uses
      /\ run'[r].seen = run[r].seen /\ run'[r].may = run[r].may /\ run'[r].adv = run[r].adv
      /\ run'[r].removed = done
  BY <1>1, <1>7 DEF Work
<1> QED BY <1>4, <1>6, <1>8 DEF GoesOn, Busy

\* A run that ends leaves the other runs alone.
LEMMA EndsNow ==
    ASSUME TypeOK, NEW r \in Run, run[r] # None, Ends(r)
    PROVE  IsOver(r)
BY DEF TypeOK, Ends, IsOver, Busy

\* What a step of one grant's run leaves alone.
Elsewhere(g) ==
    /\ UNCHANGED <<wants, source, revoked, apart, steady>>
    /\ due \subseteq due'
    /\ \A h \in Grant \ {g} :
          /\ status'[h] = status[h] /\ rule'[h] = rule[h]
          /\ h \in linked' <=> h \in linked
          /\ h \in recorded' <=> h \in recorded
          /\ h \in advertised' <=> h \in advertised
          /\ h \in due' <=> h \in due
    /\ \A o \in Object : o[1] # g => (o \in objects' <=> o \in objects)

\* No step of a run touches what another grant has, as long as all runs at work are of one:
\* not even the advertisement, which is written from what the run read.
LEMMA StepElsewhere ==
    ASSUME AccessInv, InStep, NEW r \in Run, NEW g \in Grant, run[r] # None, run[r].of = g, Step(r)
    PROVE  Elsewhere(g)
<1> USE DEF AccessInv, TypeOK, Elsewhere, At
<1>0. /\ run[r].uses \subseteq Object
      /\ run[r].at \in Builds \union Withdrawals => run[r].adv \ {g} = advertised \ {g}
      /\ r \in Busy
  BY DEF InStep, Building, Withdrawing, Busy, Builds, Withdrawals, Work
<1>1. CASE Refuse(r)
  BY <1>1 DEF Refuse, SetStatus, Status
<1>2. CASE Write(r)
  BY <1>0, <1>2 DEF Write, Own
<1>3. CASE PutRule(r)
  BY <1>3 DEF PutRule
<1>4. CASE Link(r)
  BY <1>4 DEF Link, SetStatus, Status
<1>5. CASE Permit(r)
  BY <1>5 DEF Permit
<1>6. CASE Record(r)
  BY <1>6 DEF Record
<1>7. CASE Advertise(r)
  <2>1. run[r].adv \ {g} = advertised \ {g} /\ advertised' = run[r].adv \union {g}
    BY <1>0, <1>7 DEF Advertise, Builds
  <2> QED BY <1>7, <2>1 DEF Advertise
<1>8. CASE Prune(r)
  BY <1>8 DEF Prune
<1>9. CASE Unrule(r)
  BY <1>9 DEF Unrule
<1>10. CASE Unwrite(r)
  BY <1>0, <1>10 DEF Unwrite, Cautious
<1>11. CASE Close(r)
  BY <1>11 DEF Close
<1>12. CASE Settle(r)
  BY <1>12 DEF Settle, SetStatus, Status, SettledAs
<1>13. CASE Unadvertise(r)
  <2>1. /\ run[r].adv \ {g} = advertised \ {g}
        /\ advertised' = IF g \in run[r].adv THEN run[r].adv \ {g} ELSE advertised
    BY <1>0, <1>13 DEF Unadvertise, Withdrawals
  <2> QED BY <1>13, <2>1 DEF Unadvertise
<1> QED BY <1>1, <1>2, <1>3, <1>4, <1>5, <1>6, <1>7, <1>8, <1>9, <1>10, <1>11, <1>12, <1>13 DEF Step

-----------------------------------------------------------------------------
(***************************************************************************)
(* What hangs together whatever the step.                                  *)
(***************************************************************************)

\* Of several objects for an item, a run finds one that is there.
LEMMA FindsOne ==
    ASSUME TypeOK, NEW g \in Grant, NEW i \in Item
    PROVE  /\ Resolved(g, i) \in Object /\ Resolved(g, i)[2] = i
           /\ IF Existing(i) = {} THEN Resolved(g, i) = <<g, i>> ELSE Resolved(g, i) \in Existing(i)
<1>1. Existing(i) \subseteq Object /\ \A o \in Existing(i) : o[2] = i
  BY DEF TypeOK, Existing
<1>2. CASE Existing(i) = {}
  BY <1>2 DEF Resolved, Object
<1>3. CASE Existing(i) # {}
  <2>1. Resolved(g, i) \in Existing(i)
    BY <1>3 DEF Resolved
  <2> QED BY <1>1, <1>3, <2>1
<1> QED BY <1>2, <1>3

\* Writing objects the runs use, or removing others, changes nothing about which they use.
LEMMA SameFound ==
    ASSUME TypeOK, TypeOK', NEW g \in Grant, NEW i \in Item,
           \A o \in Object : o[2] = i /\ o # <<g, i>> => (o \in objects' <=> o \in objects),
           UsesOwn(g, i) => (<<g, i>> \in objects => <<g, i>> \in objects'),
           ~UsesOwn(g, i) => (<<g, i>> \in objects' => <<g, i>> \in objects)
    PROVE  UsesOwn(g, i)' <=> UsesOwn(g, i)
<1>1. objects \subseteq Object /\ objects' \subseteq Object
  BY DEF TypeOK
<1>2. CASE UsesOwn(g, i)
  <2>1. CASE Existing(i) = {}
    <3>1. Existing(i)' \subseteq {<<g, i>>}
      BY <1>1, <2>1 DEF Existing
    <3> QED BY <1>2, <3>1, FindsOne DEF UsesOwn, Resolved
  <2>2. CASE Existing(i) # {}
    <3>1. <<g, i>> \in objects
      BY <1>2, <2>2, FindsOne DEF UsesOwn, Existing
    <3>2. Existing(i)' = Existing(i)
      BY <1>1, <1>2, <3>1 DEF Existing
    <3> QED BY <1>2, <3>2 DEF UsesOwn, Resolved
  <2> QED BY <2>1, <2>2
<1>3. CASE ~UsesOwn(g, i)
  <2>1. Existing(i) # {} /\ Resolved(g, i) \in Existing(i) /\ Resolved(g, i) # <<g, i>>
    BY <1>3, FindsOne DEF UsesOwn
  <2>2. Resolved(g, i) \in Existing(i)'
    BY <1>1, <2>1 DEF Existing
  <2>3. CASE <<g, i>> \in objects /\ <<g, i>> \notin objects'
    <3>1. Existing(i)' # {} /\ <<g, i>> \notin Existing(i)'
      BY <2>2, <2>3 DEF Existing
    <3>2. Resolved(g, i)' \in Existing(i)'
      BY <3>1 DEF Resolved
    <3> QED BY <1>3, <3>1, <3>2 DEF UsesOwn
  <2>4. CASE ~(<<g, i>> \in objects /\ <<g, i>> \notin objects')
    <3>1. Existing(i)' = Existing(i)
      BY <1>1, <1>3, <2>4 DEF Existing
    <3> QED BY <1>3, <3>1 DEF UsesOwn, Resolved
  <2> QED BY <2>3, <2>4
<1> QED BY <1>2, <1>3

\* Runs at work at the same time are of one kind.
LEMMA OneKind ==
    ASSUME TypeOK, InStep, NEW r \in Run, NEW g \in Grant, run[r] # None, run[r].of = g
    PROVE  /\ r \in Busy /\ Of(g) = Busy /\ \A q \in Busy : run[q].of = g
           /\ \A h \in Grant \ {g} : Of(h) = {}
           /\ run[r].at \in Builds => \A q \in Busy : run[q].at \in Builds
           /\ run[r].at \in Withdrawals => \A q \in Busy : run[q].at \in Withdrawals
           /\ run[r].at = "refuse" => \A q \in Busy : run[q].at = "refuse"
<1>1. r \in Busy
  BY DEF Busy
<1>2. \A q \in Busy : run[q].of = g /\ run[q] # None /\ run[q] \in Work
  BY <1>1 DEF InStep, TypeOK, Busy
<1>3. Of(g) = Busy /\ \A h \in Grant \ {g} : Of(h) = {}
  BY <1>2 DEF Of, Busy
<1>4. \A q \in Busy : run[q].at \in Builds \union Withdrawals \union {"refuse"}
  BY <1>2 DEF Work, Builds, Withdrawals
<1>5. \A q \in Busy : /\ run[q].at \in Builds => ~Withdrawn(g) /\ wants[g] # {}
                      /\ run[q].at \in Withdrawals => Withdrawn(g)
                      /\ run[q].at = "refuse" => ~Withdrawn(g) /\ wants[g] = {}
  BY <1>2 DEF InStep, Refusing, Building, Withdrawing
<1> QED BY <1>1, <1>2, <1>3, <1>4, <1>5

\* A grant that no step is about is as it was.
LEMMA OthersRest ==
    ASSUME AccessInv, TypeOK', NEW g \in Grant, NEW h \in Grant \ {g}, Elsewhere(g),
           Of(h)' = {}, Of(h) = {},
           ~Withdrawn(h) /\ SourceHolds(h) /\ source[h] \in allowed => source[h] \in allowed',
           NoLooseEnds, QuietIsDone
    PROVE  Tied(h)' /\ Done(h)'
<1>1. /\ status'[h] = status[h] /\ rule'[h] = rule[h] /\ wants'[h] = wants[h]
      /\ source'[h] = source[h]
      /\ h \in linked' <=> h \in linked
      /\ h \in recorded' <=> h \in recorded
      /\ h \in advertised' <=> h \in advertised
      /\ h \in due' <=> h \in due
  BY DEF Elsewhere
<1>2. Withdrawn(h)' <=> Withdrawn(h)
  BY <1>1 DEF Withdrawn
<1>3. (rule[h] # None => h \in linked) /\ (h \in advertised => h \in linked)
  BY DEF NoLooseEnds, Tied
<1>4. ASSUME Quiet(h)'
      PROVE  IF Withdrawn(h) THEN rule[h] = None /\ Own(h, objects)' = {}
             ELSE wants[h] # {} => Built(h)'
  <2>1. Quiet(h)
    BY <1>1, <1>4 DEF Quiet
  <2>2. CASE Withdrawn(h)
    <3>1. rule[h] = None /\ Own(h, objects) = {}
      BY <2>1, <2>2 DEF QuietIsDone, Done
    <3>2. \A o \in objects' : o \in Object /\ (o[1] = h => o \in objects)
      BY DEF Elsewhere, TypeOK
    <3>3. Own(h, objects)' = {}
      BY <3>1, <3>2 DEF Own
    <3> QED BY <2>2, <3>1, <3>3, <1>1
  <2>3. CASE ~Withdrawn(h) /\ wants[h] # {}
    <3>1. Built(h)
      BY <2>1, <2>3 DEF QuietIsDone, Done
    <3>2. rule[h] \subseteq Object
      BY <3>1 DEF Built, Covers, AccessInv, TypeOK
    <3>3. Own(h, rule[h]) \subseteq objects'
      BY <3>1, <3>2 DEF Built, Own, Elsewhere
    <3>4. Covers(h)'
      BY <1>1, <3>1 DEF Built, Covers
    <3>5. source[h] \in allowed' /\ SourceHolds(h)'
      BY <1>1, <2>3, <3>1 DEF Built, SourceHolds
    <3>6. Own(h, rule[h])' \subseteq objects'
      BY <1>1, <3>3 DEF Own
    <3>7. status'[h] = "active" /\ h \in linked' /\ h \in advertised'
      BY <1>1, <3>1 DEF Built
    <3> QED BY <1>1, <2>3, <3>4, <3>5, <3>6, <3>7 DEF Built
  <2> QED BY <2>2, <2>3
<1>5. Tied(h)'
  BY <1>1, <1>3 DEF Tied
<1>6. Done(h)'
  BY <1>1, <1>2, <1>4 DEF Done
<1> QED BY <1>5, <1>6

-----------------------------------------------------------------------------
(***************************************************************************)
(* What a step does to the builds and the withdrawals of its grant.        *)
(***************************************************************************)

\* The run has what it read, wherever it is.
Carries(q) ==
    /\ run'[q].of = run[q].of /\ run'[q].uses = run[q].uses /\ run'[q].seen = run[q].seen
    /\ run'[q].may = run[q].may /\ run'[q].adv = run[q].adv

\* The objects a run of the grant would use as its own are the same, and stay.
SameUse(g) ==
    \A i \in wants[g] :
        /\ UsesOwn(g, i)' <=> UsesOwn(g, i)
        /\ UsesOwn(g, i) => (<<g, i>> \in objects => <<g, i>> \in objects')

\* A step that takes nothing away from what the builds of a grant have done.
BuildsOn(g) ==
    /\ Withdrawn(g)' <=> Withdrawn(g)
    /\ status[g] = "active" => status'[g] = "active"
    /\ g \in linked => g \in linked'
    /\ g \in recorded => g \in recorded'
    /\ g \in advertised => g \in advertised'
    /\ source[g] \in allowed => source[g] \in allowed'
    /\ RuleStands(g) => RuleStands(g)'
    /\ SourceHolds(g) \/ BeingRecorded(g) => SourceHolds(g)' \/ BeingRecorded(g)'
    /\ SameUse(g)

\* A step that gives the withdrawals of a grant nothing more to remove.
WithdrawsOn(g) ==
    /\ Withdrawn(g)' <=> Withdrawn(g)
    /\ g \in linked' => g \in linked
    /\ rule[g] = None => rule'[g] = None
    /\ Own(g, objects)' \subseteq Own(g, objects)
    /\ g \in advertised' => g \in advertised
    /\ Closes(g) => Closes(g)'

\* What the grant owns is, for each item, one object.
LEMMA OwnItems ==
    ASSUME NEW g \in Grant, NEW these \in SUBSET Object, NEW o \in Own(g, these)
    PROVE  o = <<g, o[2]>> /\ o[2] \in Item /\ o \in these /\ o[1] = g
BY DEF Own, Object

\* A rule that stands keeps standing while its objects stay.
LEMMA StandsStill ==
    ASSUME TypeOK, TypeOK', NEW g \in Grant, rule'[g] = rule[g], wants' = wants, SameUse(g),
           RuleStands(g)
    PROVE  RuleStands(g)'
<1>1. Covers(g)'
  BY DEF RuleStands, Covers
<1>2. rule[g] \in SUBSET Object
  BY DEF TypeOK, RuleStands, Covers
<1>3. \A o \in Own(g, rule[g]) : o = <<g, o[2]>> /\ o[2] \in wants[g] /\ o \in rule[g]
  BY <1>2, OwnItems DEF RuleStands, Covers
<1>4. \A o \in Own(g, rule[g]) : o \in objects'
  BY <1>3 DEF RuleStands, SameUse
<1>5. Own(g, rule'[g]) \subseteq objects'
  BY <1>4
<1>6. \A i \in wants'[g] : <<g, i>> \in rule'[g] => UsesOwn(g, i)'
  BY DEF RuleStands, SameUse
<1> QED BY <1>1, <1>5, <1>6 DEF RuleStands

\* A build that goes on has what its next step rests on, when the step before it did what
\* it is for.
LEMMA BuildingKept ==
    ASSUME TypeOK, TypeOK', NEW q \in Run, NEW g \in Grant, run[q].of = g, run[q].at \in Builds,
           Building(q), BuildsOn(g), Elsewhere(g), Carries(q),
           run'[q].at # "write" => Own(g, run[q].uses) \subseteq objects',
           run'[q].at \notin {"write", "rule"} => RuleStands(g)',
           run'[q].at \in {"permit", "record", "advertise", "end"} =>
               g \in linked' /\ status'[g] = "active",
           run'[q].at \in {"record", "advertise", "end"} => source[g] \in allowed',
           run[q].may /\ run'[q].at \in {"advertise", "end"} => g \in recorded',
           run'[q].at = "end" => g \in advertised'
    PROVE  Building(q)'
<1>1. /\ ~Withdrawn(g) /\ wants[g] # {}
      /\ {o[2] : o \in run[q].uses} = wants[g]
      /\ \A i \in wants[g] : <<g, i>> \in run[q].uses <=> UsesOwn(g, i)
      /\ run[q].seen => source[g] \in allowed
      /\ ~run[q].seen => run[q].may
      /\ ~run[q].may => SourceHolds(g) \/ BeingRecorded(g)
      /\ run[q].adv \ {g} = advertised \ {g}
  BY DEF Building
<1>2. /\ wants' = wants /\ source' = source
      /\ run'[q].of = g /\ run'[q].uses = run[q].uses /\ run'[q].seen = run[q].seen
      /\ run'[q].may = run[q].may /\ run'[q].adv = run[q].adv
  BY DEF Elsewhere, Carries
<1>3. advertised' \ {g} = advertised \ {g}
  BY DEF Elsewhere, TypeOK
<1>4. /\ ~Withdrawn(g)' /\ wants'[g] # {}
      /\ {o[2] : o \in run'[q].uses} = wants'[g]
  BY <1>1, <1>2 DEF BuildsOn
<1>5. \A i \in wants'[g] : <<g, i>> \in run'[q].uses <=> UsesOwn(g, i)'
  BY <1>1, <1>2 DEF BuildsOn, SameUse
<1>6. run'[q].at # "write" => Own(g, run'[q].uses) \subseteq objects'
  BY <1>2
<1>7. run'[q].seen \/ run'[q].at \in {"record", "advertise", "end"} => source'[g] \in allowed'
  BY <1>1, <1>2 DEF BuildsOn
<1>8. /\ ~run'[q].seen => run'[q].may
      /\ ~run'[q].may => SourceHolds(g)' \/ BeingRecorded(g)'
      /\ run'[q].adv \ {g} = advertised' \ {g}
      /\ run'[q].may /\ run'[q].at \in {"advertise", "end"} => g \in recorded'
  BY <1>1, <1>2, <1>3 DEF BuildsOn
<1> QED BY <1>2, <1>4, <1>5, <1>6, <1>7, <1>8 DEF Building

\* A build that is not at work in the step keeps what it rests on.
LEMMA BuildingStays ==
    ASSUME TypeOK, TypeOK', NEW q \in Run, NEW g \in Grant, run[q] # None, run[q].of = g,
           run[q].at \in Builds, Building(q), BuildsOn(g), Elsewhere(g), run'[q] = run[q]
    PROVE  Building(q)'
<1>1. run[q].uses \in SUBSET Object
  BY DEF TypeOK, Work
<1>2. ASSUME run[q].at # "write", NEW o \in Own(g, run[q].uses) PROVE o \in objects'
  <2>1. o = <<g, o[2]>> /\ o \in run[q].uses /\ o \in objects
    BY <1>1, <1>2, OwnItems DEF Building
  <2>2. o[2] \in wants[g]
    BY <2>1 DEF Building
  <2>3. UsesOwn(g, o[2])
    BY <2>1, <2>2 DEF Building
  <2> QED BY <2>1, <2>2, <2>3 DEF BuildsOn, SameUse
<1>3. /\ run[q].at # "write" => Own(g, run[q].uses) \subseteq objects'
      /\ run[q].at \notin {"write", "rule"} => RuleStands(g)'
      /\ run[q].at \in {"permit", "record", "advertise", "end"} =>
           g \in linked' /\ status'[g] = "active"
      /\ run[q].at \in {"record", "advertise", "end"} => source[g] \in allowed'
      /\ run[q].may /\ run[q].at \in {"advertise", "end"} => g \in recorded'
      /\ run[q].at = "end" => g \in advertised'
  BY <1>2 DEF Building, BuildsOn
<1>4. Carries(q)
  BY DEF Carries
<1> QED BY <1>3, <1>4, BuildingKept

\* A withdrawal that goes on finds gone what the step before it was to remove.
LEMMA WithdrawingKept ==
    ASSUME TypeOK, TypeOK', NEW q \in Run, NEW g \in Grant, run[q].of = g,
           run[q].at \in Withdrawals, Withdrawing(q), WithdrawsOn(g), Elsewhere(g), Carries(q),
           run'[q].at = "unrule" => run[q].at = "unrule",
           run'[q].at # "unrule" => rule'[g] = None,
           run'[q].at = "unwrite" => run[q].at \in {"unrule", "unwrite"},
           run'[q].at \notin {"unrule", "unwrite"} => Own(g, objects)' = {},
           run'[q].at = "close" => run[q].at \in {"unwrite", "close"}
    PROVE  Withdrawing(q)'
<1>1. /\ Withdrawn(g)
      /\ run[q].adv \ {g} = advertised \ {g} /\ (g \in advertised => g \in run[q].adv)
      /\ run[q].at = "unrule" => (g \in linked => run[q].seen)
      /\ run[q].at \in {"unrule", "unwrite"} => Own(g, objects) \subseteq run[q].uses
      /\ run[q].may /\ run[q].at \in {"unrule", "unwrite", "close"} => Closes(g)
  BY DEF Withdrawing
<1>2. /\ run'[q].of = g /\ run'[q].uses = run[q].uses /\ run'[q].seen = run[q].seen
      /\ run'[q].may = run[q].may /\ run'[q].adv = run[q].adv
  BY DEF Carries
<1>3. advertised' \ {g} = advertised \ {g}
  BY DEF Elsewhere, TypeOK
<1>4. Withdrawn(g)'
  BY <1>1 DEF WithdrawsOn
<1>5. run'[q].adv \ {g} = advertised' \ {g} /\ (g \in advertised' => g \in run'[q].adv)
  BY <1>1, <1>2, <1>3 DEF WithdrawsOn
<1>6. IF run'[q].at = "unrule" THEN g \in linked' => run'[q].seen ELSE rule'[g] = None
  BY <1>1, <1>2 DEF WithdrawsOn
<1>7. IF run'[q].at \in {"unrule", "unwrite"} THEN Own(g, objects)' \subseteq run'[q].uses
      ELSE Own(g, objects)' = {}
  BY <1>1, <1>2 DEF WithdrawsOn
<1>8. run'[q].may /\ run'[q].at \in {"unrule", "unwrite", "close"} => Closes(g)'
  BY <1>1, <1>2 DEF WithdrawsOn
<1> QED BY <1>2, <1>4, <1>5, <1>6, <1>7, <1>8 DEF Withdrawing

\* So does a withdrawal that is not at work in the step.
LEMMA WithdrawingStays ==
    ASSUME TypeOK, TypeOK', NEW q \in Run, NEW g \in Grant, run[q].of = g,
           run[q].at \in Withdrawals, Withdrawing(q), WithdrawsOn(g), Elsewhere(g), run'[q] = run[q]
    PROVE  Withdrawing(q)'
<1>1. Carries(q)
  BY DEF Carries
<1>2. /\ run[q].at # "unrule" => rule'[g] = None
      /\ run[q].at \notin {"unrule", "unwrite"} => Own(g, objects)' = {}
  BY DEF Withdrawing, WithdrawsOn
<1> QED BY <1>1, <1>2, WithdrawingKept

\* Every source that is open stays some grant's to close.
LEMMA AccountedKept ==
    ASSUME AccessInv, InStep, Accounted, NEW r \in Run, NEW g \in Grant, run[r] # None,
           run[r].of = g, Elsewhere(g),
           recorded \subseteq recorded', Withdrawn(g)' <=> Withdrawn(g),
           Busy' \subseteq Busy, Busy \ {r} \subseteq Busy', \A q \in Busy \ {r} : run'[q] = run[q],
           \A s \in allowed' \ allowed : s = source[g] /\ BeingRecorded(g)',
           run[r].at = "record" => g \in recorded' /\ ~Withdrawn(g),
           run[r].may /\ run[r].at \in {"unrule", "unwrite"} =>
               /\ r \in Busy' /\ run'[r].of = g /\ run'[r].may
               /\ run'[r].at \in {"unwrite", "close"},
           run[r].may /\ run[r].at = "close" => source[g] \notin allowed'
    PROVE  Accounted'
<1>1. \A h \in Grant : Withdrawn(h)' <=> Withdrawn(h)
  BY DEF Elsewhere, Withdrawn
<1>2. source' = source /\ due \subseteq due'
  BY DEF Elsewhere
<1>3. ASSUME NEW s \in allowed' \ Declared
      PROVE  \E h \in Grant :
                /\ source'[h] = s
                /\ \/ h \in recorded' /\ (~Withdrawn(h)' \/ WillClose(h)')
                   \/ BeingRecorded(h)'
  <2>1. CASE s \notin allowed
    BY <1>2, <2>1
  <2>2. CASE s \in allowed
    <3>1. PICK h \in Grant : /\ source[h] = s
                             /\ \/ h \in recorded /\ (~Withdrawn(h) \/ WillClose(h))
                                \/ BeingRecorded(h)
      BY <2>2 DEF Accounted
    <3>2. CASE h \in recorded /\ ~Withdrawn(h)
      BY <1>1, <1>2, <3>1, <3>2
    <3>3. CASE h \in recorded /\ h \in due
      <4>1. WillClose(h)'
        BY <1>2, <3>3 DEF WillClose
      <4> QED BY <1>2, <3>1, <3>3, <4>1
    <3>4. ASSUME h \in recorded, NEW q \in Of(h), run[q].may,
                 run[q].at \in {"unrule", "unwrite", "close"}
          PROVE  WillClose(h)'
      <4>1. CASE q # r
        <5>1. q \in Of(h)' /\ run'[q] = run[q]
          BY <4>1 DEF Of, Busy
        <5> QED BY <3>4, <5>1 DEF WillClose
      <4>2. CASE q = r
        <5>1. h = g
          BY <4>2 DEF Of
        <5>2. run[r].at # "close"
          BY <1>3, <3>1, <3>4, <4>2, <5>1
        <5>3. /\ r \in Busy' /\ run'[r].of = g /\ run'[r].may
              /\ run'[r].at \in {"unwrite", "close"}
          BY <3>4, <4>2, <5>2
        <5>4. r \in Of(h)'
          BY <5>1, <5>3 DEF Of, Busy
        <5> QED BY <5>3, <5>4 DEF WillClose
      <4> QED BY <4>1, <4>2
    <3>5. ASSUME NEW q \in Of(h), run[q].at = "record"
          PROVE  BeingRecorded(h)' \/ (h \in recorded' /\ ~Withdrawn(h)')
      <4>1. CASE q # r
        <5>1. q \in Of(h)' /\ run'[q] = run[q]
          BY <4>1 DEF Of, Busy
        <5> QED BY <3>5, <5>1 DEF BeingRecorded
      <4>2. CASE q = r
        <5>1. h = g
          BY <4>2 DEF Of
        <5> QED BY <1>1, <3>5, <4>2, <5>1
      <4> QED BY <4>1, <4>2
    <3>6. CASE h \in recorded /\ WillClose(h)
      <4>1. WillClose(h)'
        BY <3>3, <3>4, <3>6, <1>2 DEF WillClose
      <4> QED BY <1>2, <3>1, <3>6, <4>1
    <3>7. CASE BeingRecorded(h)
      BY <1>2, <3>1, <3>5, <3>7 DEF BeingRecorded
    <3> QED BY <3>1, <3>2, <3>6, <3>7
  <2> QED BY <2>1, <2>2
<1> QED BY <1>3 DEF Accounted

\* Runs that overlap are in order, after a step of one of them that is right for its grant.
LEMMA StepLeaves ==
    ASSUME AccessInv, TypeOK', OrderInv, apart, steady, NEW r \in Run, NEW g \in Grant,
           run[r] # None, run[r].of = g, Step(r),
           Withdrawn(g)' <=> Withdrawn(g),
           Busy' \subseteq Busy, \A q \in Busy' : run'[q].of = run[q].of,
           \A h \in Grant \ {g} :
               ~Withdrawn(h) /\ SourceHolds(h) /\ source[h] \in allowed => source[h] \in allowed',
           \A q \in Busy' : Refusing(q)' /\ Building(q)' /\ Withdrawing(q)',
           Accounted', Tied(g)', Done(g)'
    PROVE  OrderInv'
<1>1. InStep /\ NoLooseEnds /\ QuietIsDone /\ \A h \in revoked : Withdrawn(h)
  BY DEF OrderInv
<1>2. Elsewhere(g)
  BY <1>1, StepElsewhere
<1>3. InStep'
  BY <1>1 DEF InStep
<1>4. ASSUME NEW h \in Grant \ {g} PROVE Tied(h)' /\ Done(h)'
  <2>1. Of(h) = {} /\ \A q \in Busy : run[q].of = g
    BY <1>1, OneKind DEF AccessInv
  <2>2. Of(h)' = {}
    BY <2>1 DEF Of, Busy
  <2> QED BY <1>1, <1>2, <2>1, <2>2, OthersRest
<1>5. NoLooseEnds' /\ QuietIsDone'
  BY <1>4 DEF NoLooseEnds, QuietIsDone
<1>6. \A h \in revoked' : Withdrawn(h)'
  <2>1. \A h \in Grant : Withdrawn(h)' <=> Withdrawn(h)
    BY <1>2 DEF Elsewhere, Withdrawn
  <2>2. revoked' = revoked /\ revoked \subseteq Grant
    BY <1>2 DEF Elsewhere, AccessInv, TypeOK
  <2> QED BY <1>1, <2>1, <2>2
<1> QED BY <1>3, <1>5, <1>6 DEF OrderInv

\* A build that does what it is for leaves the runs that overlap with it in order.
LEMMA BuildLeaves ==
    ASSUME AccessInv, TypeOK', OrderInv, apart, steady, NEW r \in Run, NEW g \in Grant,
           run[r] # None, run[r].of = g, Step(r), run[r].at \in Builds,
           status'[g] = status[g] \/ status'[g] = "active",
           linked \subseteq linked', recorded \subseteq recorded', allowed \subseteq allowed',
           g \in advertised => g \in advertised',
           g \in advertised' => g \in advertised \/ g \in linked',
           SameUse(g),
           rule'[g] = rule[g] \/ (RuleStands(g)' /\ r \in Busy' /\ run'[r].at = "link"),
           run[r].at = "record" => g \in recorded',
           run[r].at = "link" => g \in linked',
           \A s \in allowed' \ allowed : s = source[g] /\ r \in Busy' /\ run'[r].at = "record",
           \/ IsOver(r) /\ run[r].at = "end"
           \/ /\ GoesOn(r, run'[r].at) /\ run'[r].at \in Builds
              /\ run'[r].at # "write" => Own(g, run[r].uses) \subseteq objects'
              /\ run'[r].at \notin {"write", "rule"} => RuleStands(g)'
              /\ run'[r].at \in {"permit", "record", "advertise", "end"} =>
                   g \in linked' /\ status'[g] = "active"
              /\ run'[r].at \in {"record", "advertise", "end"} => source[g] \in allowed'
              /\ run[r].may /\ run'[r].at \in {"advertise", "end"} => g \in recorded'
              /\ run'[r].at = "end" => g \in advertised'
    PROVE  OrderInv'
<1> USE DEF AccessInv
<1>1. InStep /\ NoLooseEnds /\ Accounted /\ QuietIsDone
  BY DEF OrderInv
<1>2. /\ r \in Busy /\ Of(g) = Busy /\ \A q \in Busy : run[q].of = g
      /\ \A q \in Busy : run[q].at \in Builds /\ Building(q) /\ run[q] # None
  BY <1>1, OneKind DEF InStep, Busy
<1>3. Elsewhere(g)
  BY <1>1, StepElsewhere
<1>4. /\ Busy' \subseteq Busy /\ Busy \ {r} \subseteq Busy'
      /\ \A q \in Busy \ {r} : run'[q] = run[q]
      /\ \A q \in Busy' : run'[q].of = g
  BY <1>2 DEF IsOver, GoesOn
<1>5. ~Withdrawn(g) /\ ~Withdrawn(g)'
  BY <1>2 DEF Building, Withdrawn
<1>6. RuleStands(g) => RuleStands(g)'
  BY <1>3, StandsStill DEF Elsewhere
<1>7. SourceHolds(g) => SourceHolds(g)'
  BY <1>3 DEF SourceHolds, Elsewhere
<1>8. BeingRecorded(g) => SourceHolds(g)' \/ BeingRecorded(g)'
  <2> SUFFICES ASSUME NEW q \in Of(g), run[q].at = "record"
               PROVE  SourceHolds(g)' \/ BeingRecorded(g)'
    BY DEF BeingRecorded
  <2>1. CASE q = r
    BY <2>1 DEF SourceHolds
  <2>2. CASE q # r
    <3>1. q \in Busy' /\ run'[q] = run[q]
      BY <1>2, <1>4, <2>2
    <3>2. q \in Of(g)'
      BY <1>2, <3>1 DEF Of, Busy
    <3> QED BY <3>1, <3>2 DEF BeingRecorded
  <2> QED BY <2>1, <2>2
<1>9. BuildsOn(g)
  BY <1>5, <1>6, <1>7, <1>8 DEF BuildsOn
<1>10. ASSUME NEW q \in Busy' PROVE Building(q)' /\ run'[q].at \in Builds
  <2>1. CASE q # r
    <3>1. q \in Busy /\ run'[q] = run[q] /\ q \in Run
      BY <1>4, <2>1 DEF Busy
    <3> QED BY <1>2, <1>3, <1>9, <3>1, BuildingStays
  <2>2. CASE q = r
    <3>1. r \in Busy'
      BY <2>2
    <3>2. ~IsOver(r)
      BY <3>1 DEF IsOver
    <3>3. Carries(r)
      BY <3>2 DEF GoesOn, Carries
    <3> QED BY <1>2, <1>3, <1>9, <2>2, <3>2, <3>3, BuildingKept
  <2> QED BY <2>1, <2>2
<1>11. \A q \in Busy' : Refusing(q)' /\ Building(q)' /\ Withdrawing(q)'
  BY <1>10 DEF Refusing, Withdrawing, Builds, Withdrawals
<1>12. Accounted'
  <2>1. \A s \in allowed' \ allowed : s = source[g] /\ BeingRecorded(g)'
    BY <1>2, <1>4 DEF BeingRecorded, Of, Busy
  <2>2. run[r].at \notin {"unrule", "unwrite", "close"}
    BY <1>2 DEF Builds
  <2> QED BY <1>1, <1>3, <1>4, <1>5, <2>1, <2>2, AccountedKept
<1>13. Tied(g)'
  <2>1. \A q \in Of(g) : ~Unadvertises(q)
    BY <1>2 DEF Unadvertises, Builds
  <2>2. g \in advertised => g \in linked
    BY <1>1, <2>1 DEF NoLooseEnds, Tied
  <2>3. ASSUME rule'[g] # None PROVE g \in linked' \/ \E q \in Of(g)' : run'[q].at = "link"
    <3>1. CASE r \in Busy' /\ run'[r].at = "link"
      BY <1>4, <3>1 DEF Of, Busy
    <3>2. CASE rule'[g] = rule[g]
      <4>1. g \in linked \/ \E q \in Of(g) : run[q].at = "link"
        BY <1>1, <2>3, <3>2 DEF NoLooseEnds, Tied
      <4>2. ASSUME NEW q \in Of(g), run[q].at = "link", q # r PROVE q \in Of(g)' /\ run'[q] = run[q]
        BY <1>2, <1>4, <4>2 DEF Of, Busy
      <4> QED BY <4>1, <4>2
    <3> QED BY <3>1, <3>2
  <2> QED BY <2>2, <2>3 DEF Tied
<1>14. Done(g)'
  <2> SUFFICES ASSUME Quiet(g)' PROVE Built(g)'
    BY <1>5 DEF Done
  <2>1. Of(g)' = {}
    BY DEF Quiet
  <2>2. Busy' = {}
    BY <1>4, <2>1 DEF Of, Busy
  <2>3. run[r].at = "end" /\ Busy = {r}
    BY <1>2, <1>4, <2>2 DEF GoesOn
  <2>4. ~BeingRecorded(g)
    BY <1>2, <2>3 DEF BeingRecorded
  <2>5. /\ RuleStands(g) /\ g \in linked /\ status[g] = "active" /\ source[g] \in allowed
        /\ g \in advertised /\ SourceHolds(g)
    BY <1>2, <2>3, <2>4 DEF Building, SourceHolds
  <2>6. RuleStands(g)' /\ SourceHolds(g)'
    BY <1>6, <1>7, <2>5
  <2>7. source' = source
    BY <1>3 DEF Elsewhere
  <2> QED BY <2>5, <2>6, <2>7 DEF Built, RuleStands
<1>15. \A h \in Grant \ {g} :
          ~Withdrawn(h) /\ SourceHolds(h) /\ source[h] \in allowed => source[h] \in allowed'
  OBVIOUS
<1>16. \A q \in Busy' : run'[q].of = run[q].of
  BY <1>2, <1>4
<1> QED BY <1>4, <1>5, <1>11, <1>12, <1>13, <1>14, <1>15, <1>16, StepLeaves

\* A withdrawal that does what it is for does too.
LEMMA WithdrawalLeaves ==
    ASSUME AccessInv, TypeOK', OrderInv, apart, steady, NEW r \in Run, NEW g \in Grant,
           run[r] # None, run[r].of = g, Step(r), run[r].at \in Withdrawals,
           status'[g] = status[g] \/ status'[g] = "decommissioned",
           recorded' = recorded, objects' \subseteq objects,
           rule'[g] # None => rule[g] # None /\ (g \in linked => g \in linked'),
           g \in linked' => g \in linked,
           g \in linked \ linked' => r \in Busy' /\ Unadvertises(r)',
           g \in advertised' => g \in advertised,
           Unadvertises(r) => g \notin advertised' \/ (r \in Busy' /\ Unadvertises(r)'),
           allowed' = IF run[r].may /\ run[r].at = "close" THEN allowed \ {source[g]} ELSE allowed,
           \/ IsOver(r) /\ run[r].at \in {"close", "unadvertise"}
           \/ /\ GoesOn(r, run'[r].at) /\ run'[r].at \in Withdrawals \ {"unrule"}
              /\ run[r].at = "unrule" => run'[r].at = "unwrite"
              /\ run[r].at = "unwrite" => run'[r].at = "close"
              /\ run'[r].at = "unwrite" => run[r].at = "unrule"
              /\ run'[r].at = "close" => run[r].at = "unwrite"
              /\ rule'[g] = None
              /\ run'[r].at # "unwrite" => Own(g, objects)' = {}
    PROVE  OrderInv'
<1> USE DEF AccessInv
<1>1. InStep /\ NoLooseEnds /\ Accounted /\ QuietIsDone
  BY DEF OrderInv
<1>2. /\ r \in Busy /\ Of(g) = Busy /\ \A q \in Busy : run[q].of = g
      /\ \A q \in Busy : run[q].at \in Withdrawals /\ Withdrawing(q) /\ run[q] # None
  BY <1>1, OneKind DEF InStep, Busy
<1>3. Elsewhere(g)
  BY <1>1, StepElsewhere
<1>4. /\ Busy' \subseteq Busy /\ Busy \ {r} \subseteq Busy'
      /\ \A q \in Busy \ {r} : run'[q] = run[q]
      /\ \A q \in Busy' : run'[q].of = g
  BY <1>2 DEF IsOver, GoesOn
<1>5. Withdrawn(g) /\ Withdrawn(g)'
  BY <1>2 DEF Withdrawing, Withdrawn
<1>6. \A h \in Grant : Withdrawn(h)' <=> Withdrawn(h)
  BY <1>3, <1>5 DEF Elsewhere, Withdrawn
<1>7. Closes(g) => Closes(g)'
  <2>1. Others(g)' = Others(g) /\ Others(g) \subseteq Grant
    BY <1>3 DEF Others, Elsewhere, TypeOK
  <2> QED BY <1>6, <2>1 DEF Closes
<1>8. WithdrawsOn(g)
  BY <1>5, <1>7 DEF WithdrawsOn, Own
<1>9. ASSUME NEW q \in Busy' PROVE Withdrawing(q)' /\ run'[q].at \in Withdrawals
  <2>1. CASE q # r
    <3>1. q \in Busy /\ run'[q] = run[q] /\ q \in Run
      BY <1>4, <2>1 DEF Busy
    <3> QED BY <1>2, <1>3, <1>8, <3>1, WithdrawingStays
  <2>2. CASE q = r
    <3>1. r \in Busy'
      BY <2>2
    <3>2. ~IsOver(r)
      BY <3>1 DEF IsOver
    <3>3. Carries(r)
      BY <3>2 DEF GoesOn, Carries
    <3> QED BY <1>2, <1>3, <1>8, <2>2, <3>2, <3>3, WithdrawingKept
  <2> QED BY <2>1, <2>2
<1>10. \A q \in Busy' : Refusing(q)' /\ Building(q)' /\ Withdrawing(q)'
  BY <1>9 DEF Refusing, Building, Builds, Withdrawals
<1>11. Accounted'
  <2>1. allowed' \subseteq allowed
    OBVIOUS
  <2>2. run[r].at # "record"
    BY DEF Withdrawals
  <2>3. run[r].may /\ run[r].at \in {"unrule", "unwrite"} =>
               /\ r \in Busy' /\ run'[r].of = g /\ run'[r].may
               /\ run'[r].at \in {"unwrite", "close"}
    BY <1>2, <1>4 DEF IsOver, GoesOn
  <2> QED BY <1>1, <1>3, <1>4, <1>5, <2>1, <2>2, <2>3, AccountedKept
<1>12. Tied(g)'
  <2>1. \A q \in Of(g) : run[q].at # "link"
    BY <1>2 DEF Withdrawals
  <2>2. rule'[g] # None => g \in linked'
    BY <1>1, <2>1 DEF NoLooseEnds, Tied
  <2>3. ASSUME g \in advertised', g \notin linked'
        PROVE  \E q \in Of(g)' : Unadvertises(q)'
    <3>1. CASE r \in Busy' /\ Unadvertises(r)'
      BY <1>4, <3>1 DEF Of, Busy
    <3>2. CASE ~(r \in Busy' /\ Unadvertises(r)')
      <4>1. g \in advertised /\ g \notin linked /\ ~Unadvertises(r)
        BY <2>3, <3>2
      <4>2. PICK q \in Of(g) : Unadvertises(q)
        BY <1>1, <4>1 DEF NoLooseEnds, Tied
      <4>3. q # r /\ q \in Busy' /\ run'[q] = run[q]
        BY <1>2, <1>4, <4>1, <4>2
      <4>4. q \in Of(g)' /\ Unadvertises(q)'
        BY <1>4, <4>2, <4>3 DEF Of, Busy, Unadvertises
      <4> QED BY <4>4
    <3> QED BY <3>1, <3>2
  <2> QED BY <2>2, <2>3 DEF Tied
<1>13. Done(g)'
  <2> SUFFICES ASSUME Quiet(g)' PROVE rule'[g] = None /\ Own(g, objects)' = {}
    BY <1>5 DEF Done
  <2>1. Of(g)' = {}
    BY DEF Quiet
  <2>2. Busy' = {}
    BY <1>4, <2>1 DEF Of, Busy
  <2>3. run[r].at \in {"close", "unadvertise"}
    BY <1>2, <2>2 DEF GoesOn
  <2>4. rule[g] = None /\ Own(g, objects) = {}
    BY <1>2, <2>3 DEF Withdrawing, Withdrawals
  <2> QED BY <1>8, <2>4 DEF WithdrawsOn
<1>14. ASSUME NEW h \in Grant \ {g}, ~Withdrawn(h), SourceHolds(h), source[h] \in allowed
       PROVE  source[h] \in allowed'
  <2>1. CASE run[r].may /\ run[r].at = "close" /\ source[h] = source[g]
    <3>1. Closes(g)
      BY <1>2, <2>1 DEF Withdrawing, Withdrawals
    <3>2. source[g] \notin Declared
      BY <3>1 DEF Closes, HandWrittenKept
    <3>3. h \in Others(g)
      BY <1>14, <2>1, <3>2 DEF SourceHolds, Others
    <3> QED BY <1>14, <3>1, <3>3 DEF Closes
  <2> QED BY <1>14, <2>1
<1>15. \A q \in Busy' : run'[q].of = run[q].of
  BY <1>2, <1>4
<1> QED BY <1>4, <1>5, <1>10, <1>11, <1>12, <1>13, <1>14, <1>15, StepLeaves

-----------------------------------------------------------------------------
(***************************************************************************)
(* The steps, one at a time.                                               *)
(***************************************************************************)

\* What every step of a build starts from.
LEMMA FromABuild ==
    ASSUME AccessInv, OrderInv, apart, steady, NEW r \in Run, NEW g \in Grant,
           run[r] # None, run[r].of = g, run[r].at \in Builds
    PROVE  /\ ~Withdrawn(g) /\ wants[g] # {} /\ wants[g] \subseteq Item
           /\ {o[2] : o \in run[r].uses} = wants[g]
           /\ \A i \in wants[g] : <<g, i>> \in run[r].uses <=> UsesOwn(g, i)
           /\ run[r].at # "write" => Own(g, run[r].uses) \subseteq objects
           /\ run[r].at \notin {"write", "rule"} => RuleStands(g)
           /\ run[r].at \in {"permit", "record", "advertise", "end"} =>
                g \in linked /\ status[g] = "active"
           /\ run[r].seen \/ run[r].at \in {"record", "advertise", "end"} => source[g] \in allowed
           /\ ~run[r].seen => run[r].may
           /\ run[r].may /\ run[r].at \in {"advertise", "end"} => g \in recorded
           /\ run[r].adv \ {g} = advertised \ {g}
           /\ run[r].at = "end" => g \in advertised
           /\ run[r].uses \in SUBSET Object
           /\ r \in Busy
<1>1. r \in Busy
  BY DEF Busy
<1>2. Building(r)
  BY <1>1 DEF OrderInv, InStep
<1>3. run[r].uses \in SUBSET Object /\ wants[g] \subseteq Item
  BY DEF AccessInv, TypeOK, Work
<1> QED BY <1>1, <1>2, <1>3 DEF Building

\* Nothing changes about the objects a run would use where none comes or goes.
LEMMA SameObjects ==
    ASSUME NEW g \in Grant, objects' = objects
    PROVE  SameUse(g)
<1>1. \A i : UsesOwn(g, i)' <=> UsesOwn(g, i)
  BY DEF UsesOwn, Resolved, Existing
<1> QED BY <1>1 DEF SameUse

\* A run that refuses leaves what there is.
LEMMA RefuseInOrder ==
    ASSUME AccessInv, TypeOK', OrderInv, apart, steady, NEW r \in Run, NEW g \in Grant,
           run[r] # None, run[r].of = g, Refuse(r)
    PROVE  OrderInv'
<1> USE DEF AccessInv
<1>1. InStep /\ NoLooseEnds /\ Accounted /\ QuietIsDone
  BY DEF OrderInv
<1>2. run[r].at = "refuse" /\ r \in Busy
  BY DEF Refuse, At, Busy
<1>3. Of(g) = Busy /\ \A q \in Busy : run[q].of = g /\ run[q].at = "refuse"
  BY <1>1, <1>2, OneKind
<1>4. ~Withdrawn(g) /\ wants[g] = {}
  BY <1>1, <1>2 DEF InStep, Refusing
<1>5. Step(r)
  BY DEF Step
<1>6. Elsewhere(g)
  BY <1>1, <1>5, StepElsewhere
<1>7. IsOver(r)
  BY EndsNow DEF Refuse
<1>8. Busy' = Busy \ {r} /\ \A q \in Busy' : run'[q] = run[q] /\ run'[q].of = g
  BY <1>3, <1>7 DEF IsOver
<1>9. status'[g] = "error" /\ ~Withdrawn(g)'
  BY DEF Refuse, SetStatus, Withdrawn, TypeOK
<1>10. \A q \in Busy' : Refusing(q)' /\ Building(q)' /\ Withdrawing(q)'
  BY <1>3, <1>4, <1>6, <1>8, <1>9 DEF Refusing, Building, Withdrawing, Builds, Withdrawals, Elsewhere
<1>11. Accounted'
  BY <1>1, <1>2, <1>4, <1>6, <1>8, <1>9, AccountedKept DEF Refuse
<1>12. Tied(g)'
  BY <1>1, <1>3 DEF NoLooseEnds, Tied, Unadvertises, Refuse
<1>13. Done(g)'
  BY <1>4, <1>6, <1>9 DEF Done, Elsewhere
<1>14. allowed' = allowed
  BY DEF Refuse
<1> QED BY <1>3, <1>4, <1>5, <1>8, <1>9, <1>10, <1>11, <1>12, <1>13, <1>14, StepLeaves

\* A run that writes its objects writes what every run of the grant uses.
LEMMA WriteInOrder ==
    ASSUME AccessInv, TypeOK', OrderInv, apart, steady, NEW r \in Run, NEW g \in Grant,
           run[r] # None, run[r].of = g, Write(r)
    PROVE  OrderInv'
<1>1. run[r].at = "write" /\ run[r].at \in Builds
  BY DEF Write, At, Builds
<1>2. /\ \A i \in wants[g] : <<g, i>> \in run[r].uses <=> UsesOwn(g, i)
      /\ {o[2] : o \in run[r].uses} = wants[g] /\ wants[g] \subseteq Item
      /\ run[r].uses \in SUBSET Object
  BY <1>1, FromABuild
<1>3. objects' = objects \union Own(g, run[r].uses)
  BY DEF Write
<1>4. \A o \in Own(g, run[r].uses) : o = <<g, o[2]>> /\ o \in run[r].uses /\ o[2] \in wants[g]
  BY <1>2, OwnItems
<1>5. SameUse(g)
  <2> SUFFICES ASSUME NEW i \in wants[g] PROVE UsesOwn(g, i)' <=> UsesOwn(g, i)
    BY <1>3 DEF SameUse
  <2>1. i \in Item
    BY <1>2
  <2>2. \A o \in Object : o[2] = i /\ o # <<g, i>> => (o \in objects' <=> o \in objects)
    BY <1>3, <1>4
  <2>3. /\ UsesOwn(g, i) => (<<g, i>> \in objects => <<g, i>> \in objects')
        /\ ~UsesOwn(g, i) => (<<g, i>> \in objects' => <<g, i>> \in objects)
    BY <1>2, <1>3, <1>4
  <2> QED BY <2>1, <2>2, <2>3, SameFound DEF AccessInv
<1>6. GoesOn(r, "rule")
  BY MovesOn DEF Write, AccessInv, Places
<1>7. Step(r)
  BY DEF Step
<1>8. run'[r].at = "rule" /\ GoesOn(r, run'[r].at)
  BY <1>6 DEF GoesOn
<1>9. UNCHANGED <<status, linked, recorded, allowed, advertised, rule>>
  BY DEF Write
<1>10. Own(g, run[r].uses) \subseteq objects' /\ run'[r].at \in Builds
  BY <1>3, <1>8 DEF Builds
<1> QED BY <1>1, <1>5, <1>7, <1>8, <1>9, <1>10, BuildLeaves

\* A run that writes the rule writes one that stands, whichever of them is first.
LEMMA PutRuleInOrder ==
    ASSUME AccessInv, TypeOK', OrderInv, apart, steady, NEW r \in Run, NEW g \in Grant,
           run[r] # None, run[r].of = g, PutRule(r)
    PROVE  OrderInv'
<1>1. run[r].at = "rule" /\ run[r].at \in Builds
  BY DEF PutRule, At, Builds
<1>2. /\ \A i \in wants[g] : <<g, i>> \in run[r].uses <=> UsesOwn(g, i)
      /\ {o[2] : o \in run[r].uses} = wants[g]
      /\ Own(g, run[r].uses) \subseteq objects
      /\ run[r].uses \in SUBSET Object /\ r \in Busy
  BY <1>1, FromABuild
<1>3. UNCHANGED <<status, linked, recorded, allowed, advertised, objects, wants>>
  BY DEF PutRule
<1>4. SameUse(g)
  BY <1>3, SameObjects
<1>5. GoesOn(r, "link")
  BY MovesOn DEF PutRule, AccessInv, Places
<1>6. run'[r].at = "link" /\ GoesOn(r, run'[r].at) /\ r \in Busy' /\ run'[r].at \in Builds
  BY <1>2, <1>5 DEF GoesOn, Builds
<1>7. rule'[g] = run[r].uses
  BY DEF PutRule, AccessInv, TypeOK
<1>8. run[r].uses # None
  BY <1>2, AccessAssumption
<1>9. RuleStands(g)'
  <2>1. Covers(g)'
    BY <1>2, <1>3, <1>7, <1>8 DEF Covers
  <2>2. Own(g, rule'[g]) \subseteq objects'
    BY <1>2, <1>3, <1>7
  <2>3. \A i \in wants'[g] : <<g, i>> \in rule'[g] => UsesOwn(g, i)'
    BY <1>2, <1>3, <1>4, <1>7 DEF SameUse
  <2> QED BY <2>1, <2>2, <2>3 DEF RuleStands
<1>10. Step(r)
  BY DEF Step
<1> QED BY <1>1, <1>2, <1>3, <1>4, <1>6, <1>9, <1>10, BuildLeaves

\* A run that links finds the rule it wrote: as long as no withdrawal overlaps with it,
\* _link_granted_rules does not fail.
LEMMA LinkInOrder ==
    ASSUME AccessInv, TypeOK', OrderInv, apart, steady, NEW r \in Run, NEW g \in Grant,
           run[r] # None, run[r].of = g, Link(r)
    PROVE  OrderInv'
<1>1. run[r].at = "link" /\ run[r].at \in Builds
  BY DEF Link, At, Builds
<1>2. RuleStands(g) /\ Own(g, run[r].uses) \subseteq objects
  BY <1>1, FromABuild
<1>3. rule[g] # None
  BY <1>2 DEF RuleStands, Covers
<1>4. Moves(r, "permit") /\ linked' = linked \union {g} /\ SetStatus(g, "active")
  BY <1>3 DEF Link
<1>5. UNCHANGED <<wants, recorded, allowed, advertised, objects, rule>>
  BY DEF Link
<1>6. SameUse(g)
  BY <1>5, SameObjects
<1>7. GoesOn(r, "permit")
  BY <1>4, MovesOn DEF AccessInv, Places
<1>8. run'[r].at = "permit" /\ GoesOn(r, run'[r].at) /\ run'[r].at \in Builds
  BY <1>7 DEF GoesOn, Builds
<1>9. status'[g] = "active" /\ g \in linked'
  BY <1>4 DEF SetStatus, AccessInv, TypeOK
<1>10. RuleStands(g)'
  BY <1>2, <1>5, <1>6, StandsStill DEF AccessInv
<1>11. Step(r)
  BY DEF Step
<1> QED BY <1>1, <1>2, <1>4, <1>5, <1>6, <1>8, <1>9, <1>10, <1>11, BuildLeaves

\* A run that permits its source means to record it, unless somebody is to close it already.
LEMMA PermitInOrder ==
    ASSUME AccessInv, TypeOK', OrderInv, apart, steady, NEW r \in Run, NEW g \in Grant,
           run[r] # None, run[r].of = g, Permit(r)
    PROVE  OrderInv'
<1>1. run[r].at = "permit" /\ run[r].at \in Builds
  BY DEF Permit, At, Builds
<1>2. /\ RuleStands(g) /\ Own(g, run[r].uses) \subseteq objects
      /\ g \in linked /\ status[g] = "active"
      /\ run[r].seen => source[g] \in allowed
      /\ ~run[r].seen => run[r].may
      /\ r \in Busy
  BY <1>1, FromABuild
<1>3. UNCHANGED <<status, wants, source, linked, recorded, advertised, objects, rule>>
  BY DEF Permit
<1>4. allowed' = IF run[r].seen THEN allowed ELSE allowed \union {source[g]}
  BY DEF Permit
<1>5. SameUse(g)
  BY <1>3, SameObjects
<1>6. GoesOn(r, IF run[r].may THEN "record" ELSE "advertise")
  <2>1. Moves(r, IF run[r].may THEN "record" ELSE "advertise")
    BY DEF Permit
  <2>2. (IF run[r].may THEN "record" ELSE "advertise") \in Places
    BY DEF Places
  <2> QED BY <2>1, <2>2, MovesOn DEF AccessInv
<1>7. run'[r].at = (IF run[r].may THEN "record" ELSE "advertise") /\ GoesOn(r, run'[r].at)
      /\ r \in Busy'
  BY <1>2, <1>6 DEF GoesOn
<1>8. run'[r].at \in Builds
  BY <1>7 DEF Builds
<1>9. RuleStands(g)'
  BY <1>2, <1>3, <1>5, StandsStill DEF AccessInv
<1>10. source[g] \in allowed'
  BY <1>2, <1>4
<1>11. Step(r)
  BY DEF Step
<1>12. \A s \in allowed' \ allowed : s = source[g] /\ r \in Busy' /\ run'[r].at = "record"
  BY <1>2, <1>4, <1>7
<1>13. run'[r].at = "advertise" => ~run[r].may
  BY <1>7
<1>14. run'[r].at \notin {"write", "rule", "end"}
  BY <1>7
<1> QED BY <1>1, <1>2, <1>3, <1>4, <1>5, <1>7, <1>8, <1>9, <1>10, <1>11, <1>12, <1>13, <1>14,
           BuildLeaves

\* A run that records its source keeps for every other what it opened.
LEMMA RecordInOrder ==
    ASSUME AccessInv, TypeOK', OrderInv, apart, steady, NEW r \in Run, NEW g \in Grant,
           run[r] # None, run[r].of = g, Record(r)
    PROVE  OrderInv'
<1>1. run[r].at = "record" /\ run[r].at \in Builds
  BY DEF Record, At, Builds
<1>2. /\ RuleStands(g) /\ Own(g, run[r].uses) \subseteq objects
      /\ g \in linked /\ status[g] = "active" /\ source[g] \in allowed
  BY <1>1, FromABuild
<1>3. UNCHANGED <<status, wants, source, linked, allowed, advertised, objects, rule>>
  BY DEF Record
<1>4. recorded' = recorded \union {g}
  BY DEF Record
<1>5. SameUse(g)
  BY <1>3, SameObjects
<1>6. GoesOn(r, "advertise")
  BY MovesOn DEF Record, AccessInv, Places
<1>7. run'[r].at = "advertise" /\ GoesOn(r, run'[r].at) /\ run'[r].at \in Builds
  BY <1>6 DEF GoesOn, Builds
<1>8. RuleStands(g)'
  BY <1>2, <1>3, <1>5, StandsStill DEF AccessInv
<1>9. Step(r)
  BY DEF Step
<1> QED BY <1>1, <1>2, <1>3, <1>4, <1>5, <1>7, <1>8, <1>9, BuildLeaves

\* A run that writes the hostvars adds its grant to what the others have too.
LEMMA AdvertiseInOrder ==
    ASSUME AccessInv, TypeOK', OrderInv, apart, steady, NEW r \in Run, NEW g \in Grant,
           run[r] # None, run[r].of = g, Advertise(r)
    PROVE  OrderInv'
<1>1. run[r].at = "advertise" /\ run[r].at \in Builds
  BY DEF Advertise, At, Builds
<1>2. /\ RuleStands(g) /\ Own(g, run[r].uses) \subseteq objects
      /\ g \in linked /\ status[g] = "active" /\ source[g] \in allowed
      /\ run[r].may => g \in recorded
  BY <1>1, FromABuild
<1>3. UNCHANGED <<status, wants, source, linked, recorded, allowed, objects, rule>>
  BY DEF Advertise
<1>4. g \in advertised'
  BY DEF Advertise
<1>5. SameUse(g)
  BY <1>3, SameObjects
<1>6. GoesOn(r, "end")
  BY MovesOn DEF Advertise, AccessInv, Places
<1>7. run'[r].at = "end" /\ GoesOn(r, run'[r].at) /\ run'[r].at \in Builds
  BY <1>6 DEF GoesOn, Builds
<1>8. RuleStands(g)'
  BY <1>2, <1>3, <1>5, StandsStill DEF AccessInv
<1>9. Step(r)
  BY DEF Step
<1> QED BY <1>1, <1>2, <1>3, <1>4, <1>5, <1>7, <1>8, <1>9, BuildLeaves

\* A run prunes nothing that another run of its grant uses: they resolved the same objects.
LEMMA PruneInOrder ==
    ASSUME AccessInv, TypeOK', OrderInv, apart, steady, NEW r \in Run, NEW g \in Grant,
           run[r] # None, run[r].of = g, Prune(r)
    PROVE  OrderInv'
<1>1. run[r].at = "end" /\ run[r].at \in Builds
  BY DEF Prune, At, Builds
<1>2. /\ \A i \in wants[g] : <<g, i>> \in run[r].uses <=> UsesOwn(g, i)
      /\ wants[g] \subseteq Item
  BY <1>1, FromABuild
<1>3. UNCHANGED <<status, wants, source, linked, recorded, allowed, advertised, rule>>
  BY DEF Prune
<1>4. objects' = objects \ (group[g] \ Touched(run[r]))
  BY DEF Prune
<1>5. \A o \in group[g] : o[1] = g /\ o \in Object
  BY DEF AccessInv, TypeOK
<1>6. \A i \in wants[g] : UsesOwn(g, i) => <<g, i>> \in Touched(run[r])
  BY <1>2 DEF Touched, Own
<1>7. SameUse(g)
  <2> SUFFICES ASSUME NEW i \in wants[g]
               PROVE  /\ UsesOwn(g, i)' <=> UsesOwn(g, i)
                      /\ UsesOwn(g, i) => (<<g, i>> \in objects => <<g, i>> \in objects')
    BY DEF SameUse
  <2>1. i \in Item
    BY <1>2
  <2>2. \A o \in group[g] : o[2] = i => o = <<g, i>>
    BY <1>5 DEF Object
  <2>3. \A o \in Object : o[2] = i /\ o # <<g, i>> => (o \in objects' <=> o \in objects)
    BY <1>4, <2>2
  <2>4. UsesOwn(g, i) => (<<g, i>> \in objects => <<g, i>> \in objects')
    BY <1>4, <1>6
  <2>5. UsesOwn(g, i)' <=> UsesOwn(g, i)
    BY <1>4, <2>1, <2>3, <2>4, SameFound DEF AccessInv
  <2> QED BY <2>4, <2>5
<1>8. IsOver(r)
  BY EndsNow DEF Prune, AccessInv
<1>9. Step(r)
  BY DEF Step
<1> QED BY <1>1, <1>3, <1>7, <1>8, <1>9, BuildLeaves

\* What every step of a withdrawal starts from.
LEMMA FromAWithdrawal ==
    ASSUME AccessInv, OrderInv, apart, steady, NEW r \in Run, NEW g \in Grant,
           run[r] # None, run[r].of = g, run[r].at \in Withdrawals
    PROVE  /\ r \in Busy /\ Withdrawn(g) /\ (g \in advertised => g \in run[r].adv)
           /\ run[r].at = "unrule" => (rule[g] # None => g \in linked) /\ (g \in linked => run[r].seen)
           /\ run[r].at # "unrule" => rule[g] = None
           /\ run[r].at \in {"unrule", "unwrite"} => Own(g, objects) \subseteq run[r].uses
           /\ run[r].at \notin {"unrule", "unwrite"} => Own(g, objects) = {}
           /\ linked \subseteq {h \in Grant : rule[h] # None}
<1>1. r \in Busy
  BY DEF Busy
<1>2. Withdrawing(r)
  BY <1>1 DEF OrderInv, InStep
<1>3. \A q \in Of(g) : run[q].at # "link"
  BY OneKind DEF OrderInv, AccessInv, Withdrawals
<1>4. rule[g] # None => g \in linked
  BY <1>3 DEF OrderInv, NoLooseEnds, Tied
<1>5. linked \subseteq {h \in Grant : rule[h] # None}
  BY DEF AccessInv, TypeOK
<1> QED BY <1>1, <1>2, <1>4, <1>5 DEF Withdrawing

\* The run that removes the rule takes the advertisement back in the end.
LEMMA UnruleInOrder ==
    ASSUME AccessInv, TypeOK', OrderInv, apart, steady, NEW r \in Run, NEW g \in Grant,
           run[r] # None, run[r].of = g, Unrule(r)
    PROVE  OrderInv'
<1>1. run[r].at = "unrule" /\ run[r].at \in Withdrawals
  BY DEF Unrule, At, Withdrawals
<1>2. /\ r \in Busy /\ (rule[g] # None => g \in linked) /\ (g \in linked => run[r].seen)
      /\ g \in linked => rule[g] # None
  BY <1>1, FromAWithdrawal
<1>3. UNCHANGED <<status, source, recorded, allowed, advertised, objects>>
  BY DEF Unrule
<1> DEFINE there == run[r].seen /\ rule[g] # None
<1>4. /\ rule' = IF there THEN [rule EXCEPT ![g] = None] ELSE rule
      /\ linked' = IF there THEN linked \ {g} ELSE linked
      /\ Removes(r, there, "unwrite")
  BY DEF Unrule
<1>5. there \in BOOLEAN
  BY DEF AccessInv, TypeOK, Work
<1>6. GoesOn(r, "unwrite") /\ run'[r].removed = (run[r].removed \/ there)
  <2>1. TypeOK /\ "unwrite" \in Places
    BY DEF AccessInv, Places
  <2> HIDE DEF there
  <2> QED BY <1>4, <1>5, <2>1, RemovesOn
<1>7. run'[r].at = "unwrite" /\ GoesOn(r, run'[r].at) /\ r \in Busy'
  BY <1>2, <1>6 DEF GoesOn
<1>8. rule'[g] = None
  BY <1>2, <1>4 DEF AccessInv, TypeOK
<1>9. g \in linked \ linked' => Unadvertises(r)'
  BY <1>4, <1>6, <1>7 DEF Unadvertises
<1>10. g \in linked' => g \in linked
  BY <1>4
<1>11. ~Unadvertises(r)
  BY <1>1 DEF Unadvertises
<1>12. Step(r)
  BY DEF Step
<1>13. run'[r].at \in Withdrawals \ {"unrule"}
  BY <1>7 DEF Withdrawals
<1> QED BY <1>1, <1>3, <1>7, <1>8, <1>9, <1>10, <1>11, <1>12, <1>13, WithdrawalLeaves

\* The run that removes the objects leaves none of the grant's.
LEMMA UnwriteInOrder ==
    ASSUME AccessInv, TypeOK', OrderInv, apart, steady, NEW r \in Run, NEW g \in Grant,
           run[r] # None, run[r].of = g, Unwrite(r)
    PROVE  OrderInv'
<1>1. run[r].at = "unwrite" /\ run[r].at \in Withdrawals
  BY DEF Unwrite, At, Withdrawals
<1>2. r \in Busy /\ rule[g] = None /\ Own(g, objects) \subseteq run[r].uses
  BY <1>1, FromAWithdrawal
<1>3. UNCHANGED <<status, source, recorded, allowed, advertised, rule, linked>>
  BY DEF Unwrite
<1>4. objects' = objects \ run[r].uses
  BY DEF Unwrite
<1>5. GoesOn(r, "close") /\ run'[r].removed = (run[r].removed \/ run[r].uses \intersect objects # {})
  <2>1. Removes(r, run[r].uses \intersect objects # {}, "close")
    BY DEF Unwrite
  <2> QED BY <2>1, RemovesOn DEF AccessInv, Places
<1>6. run'[r].at = "close" /\ GoesOn(r, run'[r].at) /\ r \in Busy'
  BY <1>2, <1>5 DEF GoesOn
<1>7. Own(g, objects)' = {}
  BY <1>2, <1>4 DEF Own
<1>8. Unadvertises(r) => Unadvertises(r)'
  BY <1>1, <1>5, <1>6 DEF Unadvertises
<1>9. Step(r)
  BY DEF Step
<1>10. run'[r].at \in Withdrawals \ {"unrule"}
  BY <1>6 DEF Withdrawals
<1>11. rule'[g] = None /\ objects' \subseteq objects
  BY <1>2, <1>3, <1>4
<1> QED BY <1>1, <1>3, <1>6, <1>7, <1>8, <1>9, <1>10, <1>11, WithdrawalLeaves

\* The run that closes the source closes it to nobody who records it, and one that removed
\* nothing has nothing to take back.
LEMMA CloseInOrder ==
    ASSUME AccessInv, TypeOK', OrderInv, apart, steady, NEW r \in Run, NEW g \in Grant,
           run[r] # None, run[r].of = g, Close(r)
    PROVE  OrderInv'
<1>1. run[r].at = "close" /\ run[r].at \in Withdrawals
  BY DEF Close, At, Withdrawals
<1>2. r \in Busy /\ rule[g] = None /\ Own(g, objects) = {}
  BY <1>1, FromAWithdrawal
<1>3. UNCHANGED <<status, source, recorded, objects, advertised, rule, linked>>
  BY DEF Close
<1>4. allowed' = IF run[r].may THEN allowed \ {source[g]} ELSE allowed
  BY DEF Close
<1>5. Step(r)
  BY DEF Step
<1>6. Own(g, objects)' = {}
  BY <1>2, <1>3 DEF Own
<1>7. CASE run[r].removed \/ run[r].may
  <2>1. GoesOn(r, "settle")
    BY <1>7, MovesOn DEF Close, AccessInv, Places
  <2>2. run'[r].at = "settle" /\ GoesOn(r, run'[r].at) /\ r \in Busy'
    BY <1>2, <2>1 DEF GoesOn
  <2>3. Unadvertises(r)'
    BY <2>2 DEF Unadvertises
  <2>4. run'[r].at \in Withdrawals \ {"unrule"}
    BY <2>2 DEF Withdrawals
  <2> QED BY <1>1, <1>2, <1>3, <1>4, <1>5, <1>6, <2>2, <2>3, <2>4, WithdrawalLeaves
<1>8. CASE ~(run[r].removed \/ run[r].may)
  <2>1. IsOver(r)
    BY <1>8, EndsNow DEF Close, AccessInv
  <2>2. ~Unadvertises(r)
    BY <1>1, <1>8 DEF Unadvertises
  <2> QED BY <1>1, <1>2, <1>3, <1>4, <1>5, <2>1, <2>2, WithdrawalLeaves
<1> QED BY <1>7, <1>8

\* The run that settles a withdrawn grant leaves it withdrawn.
LEMMA SettleInOrder ==
    ASSUME AccessInv, TypeOK', OrderInv, apart, steady, NEW r \in Run, NEW g \in Grant,
           run[r] # None, run[r].of = g, Settle(r)
    PROVE  OrderInv'
<1>1. run[r].at = "settle" /\ run[r].at \in Withdrawals
  BY DEF Settle, At, Withdrawals
<1>2. r \in Busy /\ rule[g] = None /\ Own(g, objects) = {}
  BY <1>1, FromAWithdrawal
<1>3. UNCHANGED <<source, recorded, allowed, objects, advertised, rule, linked>>
  BY DEF Settle
<1>4. status'[g] = "decommissioned"
  BY DEF Settle, SetStatus, SettledAs, AccessInv, TypeOK
<1>5. GoesOn(r, "unadvertise")
  BY MovesOn DEF Settle, AccessInv, Places
<1>6. run'[r].at = "unadvertise" /\ GoesOn(r, run'[r].at) /\ r \in Busy'
  BY <1>2, <1>5 DEF GoesOn
<1>7. Own(g, objects)' = {}
  BY <1>2, <1>3 DEF Own
<1>8. Unadvertises(r)'
  BY <1>6 DEF Unadvertises
<1>9. Step(r)
  BY DEF Step
<1>10. run'[r].at \in Withdrawals \ {"unrule"}
  BY <1>6 DEF Withdrawals
<1> QED BY <1>1, <1>2, <1>3, <1>4, <1>6, <1>7, <1>8, <1>9, <1>10, WithdrawalLeaves

\* The run that takes the advertisement back finds it in what it read when it is there.
LEMMA UnadvertiseInOrder ==
    ASSUME AccessInv, TypeOK', OrderInv, apart, steady, NEW r \in Run, NEW g \in Grant,
           run[r] # None, run[r].of = g, Unadvertise(r)
    PROVE  OrderInv'
<1>1. run[r].at = "unadvertise" /\ run[r].at \in Withdrawals
  BY DEF Unadvertise, At, Withdrawals
<1>2. g \in advertised => g \in run[r].adv
  BY <1>1, FromAWithdrawal
<1>3. UNCHANGED <<status, source, recorded, allowed, objects, rule, linked>>
  BY DEF Unadvertise
<1>4. g \notin advertised'
  BY <1>2 DEF Unadvertise
<1>5. IsOver(r)
  BY EndsNow DEF Unadvertise, AccessInv
<1>6. Step(r)
  BY DEF Step
<1> QED BY <1>1, <1>3, <1>4, <1>5, <1>6, WithdrawalLeaves

-----------------------------------------------------------------------------
(***************************************************************************)
(* Events, and the invariant.                                              *)
(***************************************************************************)

\* What a grant has is the same while its policy and its firewall are.
LEMMA SameGrant ==
    ASSUME NEW g \in Grant, status'[g] = status[g], wants'[g] = wants[g],
           UNCHANGED <<source, objects, rule, linked, allowed, recorded, advertised>>
    PROVE  /\ Withdrawn(g)' <=> Withdrawn(g)
           /\ RuleStands(g)' <=> RuleStands(g)
           /\ SourceHolds(g)' <=> SourceHolds(g)
           /\ Own(g, objects)' = Own(g, objects)
           /\ Built(g)' <=> Built(g)
           /\ \A i : UsesOwn(g, i)' <=> UsesOwn(g, i)
<1>1. \A i : UsesOwn(g, i)' <=> UsesOwn(g, i)
  BY DEF UsesOwn, Resolved, Existing
<1>2. Covers(g)' <=> Covers(g)
  BY DEF Covers
<1>3. Own(g, rule'[g]) = Own(g, rule[g])
  BY DEF Own
<1>4. RuleStands(g)' <=> RuleStands(g)
  BY <1>1, <1>2, <1>3 DEF RuleStands
<1>5. SourceHolds(g)' <=> SourceHolds(g)
  BY DEF SourceHolds
<1>6. Built(g)' <=> Built(g)
  BY <1>2, <1>3, <1>5 DEF Built
<1> QED BY <1>1, <1>4, <1>5, <1>6 DEF Withdrawn, Own

\* A run at work is in step while what its grant has is the same.
LEMMA SameStep ==
    ASSUME NEW q \in Run, NEW g \in Grant, run[q].of = g, run'[q] = run[q],
           status'[g] = status[g], wants'[g] = wants[g],
           UNCHANGED <<source, objects, rule, linked, allowed, recorded, advertised>>,
           BeingRecorded(g) => BeingRecorded(g)', Closes(g) => Closes(g)',
           Refusing(q), Building(q), Withdrawing(q)
    PROVE  Refusing(q)' /\ Building(q)' /\ Withdrawing(q)'
<1>1. /\ Withdrawn(g)' <=> Withdrawn(g)
      /\ RuleStands(g)' <=> RuleStands(g)
      /\ SourceHolds(g)' <=> SourceHolds(g)
      /\ Own(g, objects)' = Own(g, objects)
      /\ \A i : UsesOwn(g, i)' <=> UsesOwn(g, i)
  BY SameGrant
<1>2. Refusing(q)'
  BY <1>1 DEF Refusing
<1>3. Building(q)'
  BY <1>1 DEF Building, Own
<1>4. Withdrawing(q)'
  BY <1>1 DEF Withdrawing
<1> QED BY <1>2, <1>3, <1>4

\* A request that meets no run of its grant leaves the runs of another in step.
LEMMA EditInOrder ==
    ASSUME AccessInv, OrderInv, NEW g \in Grant, Edit(g)
    PROVE  OrderInv'
<1> SUFFICES ASSUME apart', steady'
             PROVE  /\ InStep' /\ NoLooseEnds' /\ Accounted' /\ QuietIsDone'
                    /\ \A h \in revoked' : Withdrawn(h)'
  BY DEF OrderInv
<1> USE DEF AccessInv
<1>1. apart /\ steady /\ Of(g) = {}
  BY DEF Edit
<1>2. InStep /\ NoLooseEnds /\ Accounted /\ QuietIsDone /\ \A h \in revoked : Withdrawn(h)
  BY <1>1 DEF OrderInv
<1>3. /\ UNCHANGED <<source, objects, rule, linked, group, allowed, recorded, advertised, run>>
      /\ due' = due \union {g}
  BY DEF Edit
<1>4. /\ \A h \in Grant \ {g} : status'[h] = status[h] /\ wants'[h] = wants[h]
      /\ \/ UNCHANGED <<status, revoked>>
         \/ status'[g] = "decommissioning" /\ revoked' = revoked \union {g}
  BY DEF Edit, TypeOK
<1>5. /\ \A h \in Grant : Withdrawn(h) => Withdrawn(h)'
      /\ \A h \in Grant \ {g} : Withdrawn(h)' <=> Withdrawn(h)
  BY <1>4 DEF Withdrawn
<1>6. Busy' = Busy /\ \A h : Of(h)' = Of(h)
  BY <1>3 DEF Busy, Of
<1>7. \A h : BeingRecorded(h)' <=> BeingRecorded(h)
  BY <1>3, <1>6 DEF BeingRecorded
<1>8. ASSUME NEW h \in Grant PROVE Closes(h) => Closes(h)'
  <2>1. Others(h)' = Others(h) /\ Others(h) \subseteq Grant
    BY <1>3 DEF Others, TypeOK
  <2> QED BY <1>3, <1>5, <2>1 DEF Closes
<1>9. InStep'
  <2>1. ASSUME NEW q \in Busy PROVE Refusing(q)' /\ Building(q)' /\ Withdrawing(q)'
    <3>1. q \in Run /\ run[q].of \in Grant \ {g} /\ run'[q] = run[q]
      BY <1>1, <1>3 DEF Busy, Of, TypeOK, Work
    <3>2. Refusing(q) /\ Building(q) /\ Withdrawing(q)
      BY <1>2 DEF InStep
    <3> QED BY <1>3, <1>4, <1>7, <1>8, <3>1, <3>2, SameStep
  <2> QED BY <1>2, <1>3, <1>6, <2>1 DEF InStep
<1>10. NoLooseEnds'
  BY <1>2, <1>3, <1>6 DEF NoLooseEnds, Tied, Unadvertises
<1>11. Accounted'
  <2>1. \A h \in Grant : WillClose(h) => WillClose(h)'
    BY <1>3, <1>6 DEF WillClose
  <2>2. \A h \in Grant : ~Withdrawn(h) => ~Withdrawn(h)' \/ WillClose(h)'
    BY <1>3, <1>5 DEF WillClose
  <2> QED BY <1>2, <1>3, <1>7, <2>1, <2>2 DEF Accounted
<1>12. QuietIsDone'
  <2> SUFFICES ASSUME NEW h \in Grant, Quiet(h)' PROVE Done(h)'
    BY DEF QuietIsDone, Done
  <2>1. h # g /\ Quiet(h)
    BY <1>3, <1>6 DEF Quiet
  <2>2. Done(h)
    BY <1>2 DEF QuietIsDone
  <2>3. status'[h] = status[h] /\ wants'[h] = wants[h]
    BY <1>4, <2>1
  <2>4. Own(h, objects)' = Own(h, objects) /\ (Built(h)' <=> Built(h))
    BY <1>3, <2>3, SameGrant
  <2> QED BY <1>3, <1>5, <2>1, <2>2, <2>3, <2>4 DEF Done
<1>13. \A h \in revoked' : Withdrawn(h)'
  BY <1>2, <1>4, <1>5 DEF Withdrawn, TypeOK
<1> QED BY <1>9, <1>10, <1>11, <1>12, <1>13

\* A run that starts reads what the runs at work of its grant will not take away.
LEMMA BeginsInStep ==
    ASSUME AccessInv, Accounted, NEW r \in Run, NEW g \in Grant, run[r] = None, Busy \subseteq Of(g),
           run'[r] = Begins(g), \A q \in Run \ {r} : run'[q] = run[q],
           UNCHANGED <<status, wants, source, objects, rule, linked, allowed, recorded, advertised>>
    PROVE  Refusing(r)' /\ Building(r)' /\ Withdrawing(r)'
<1> USE DEF AccessInv
<1>1. /\ Begins(g).of = g
      /\ Begins(g).at = IF Withdrawn(g) THEN "unrule" ELSE IF wants[g] = {} THEN "refuse" ELSE "write"
      /\ Begins(g).uses = IF Withdrawn(g) THEN Named(g) ELSE {Resolved(g, i) : i \in wants[g]}
      /\ Begins(g).seen = IF Withdrawn(g) THEN g \in linked ELSE source[g] \in allowed
      /\ Begins(g).may = IF Withdrawn(g) THEN Closes(g) ELSE MayRecord(g)
      /\ Begins(g).adv = advertised
  BY DEF Begins
<1>2. /\ Withdrawn(g)' <=> Withdrawn(g)
      /\ SourceHolds(g)' <=> SourceHolds(g)
      /\ Own(g, objects)' = Own(g, objects)
      /\ \A i : UsesOwn(g, i)' <=> UsesOwn(g, i)
  BY SameGrant
<1>3. Refusing(r)'
  BY <1>1, <1>2 DEF Refusing
<1>4. Withdrawing(r)'
  <2> SUFFICES ASSUME Withdrawn(g) PROVE Withdrawing(r)'
    BY <1>1 DEF Withdrawing, Withdrawals
  <2>1. Closes(g)' <=> Closes(g)
    BY DEF Closes, Others, Withdrawn
  <2> QED BY <1>1, <1>2, <2>1 DEF Withdrawing, Named
<1>5. Building(r)'
  <2> SUFFICES ASSUME ~Withdrawn(g), wants[g] # {} PROVE Building(r)'
    BY <1>1 DEF Building, Builds
  <2>1. wants[g] \subseteq Item
    BY DEF TypeOK
  <2>2. \A i \in wants[g] : Resolved(g, i)[2] = i
    BY <2>1, FindsOne
  <2>3. {o[2] : o \in Begins(g).uses} = wants[g]
    BY <1>1, <2>2
  <2>4. \A i \in wants[g] : <<g, i>> \in Begins(g).uses <=> UsesOwn(g, i)
    BY <1>1, <2>2 DEF UsesOwn
  <2>5. ~Begins(g).seen => Begins(g).may
    BY <1>1 DEF MayRecord
  <2>6. ASSUME ~Begins(g).may PROVE SourceHolds(g) \/ BeingRecorded(g)'
    <3>1. source[g] \in allowed /\ Others(g) = {}
      BY <1>1, <2>6 DEF MayRecord
    <3>2. CASE source[g] \in Declared
      BY <3>2 DEF SourceHolds
    <3>3. CASE source[g] \notin Declared
      <4>1. PICK h \in Grant : source[h] = source[g] /\ (h \in recorded \/ BeingRecorded(h))
        BY <3>1, <3>3 DEF Accounted
      <4>2. CASE h \in recorded
        <5>1. h = g
          BY <3>1, <4>1, <4>2 DEF Others
        <5> QED BY <4>2, <5>1 DEF SourceHolds
      <4>3. CASE BeingRecorded(h)
        <5>1. PICK q \in Of(h) : run[q].at = "record"
          BY <4>3 DEF BeingRecorded
        <5>2. run[q].of = g /\ q # r /\ q \in Run /\ run[q] # None
          BY <5>1 DEF Of, Busy
        <5>3. q \in Of(g)' /\ run'[q].at = "record"
          BY <5>1, <5>2 DEF Of
        <5> QED BY <5>3 DEF BeingRecorded
      <4> QED BY <4>1, <4>2, <4>3
    <3> QED BY <3>2, <3>3
  <2> QED BY <1>1, <1>2, <2>3, <2>4, <2>5, <2>6 DEF Building
<1> QED BY <1>3, <1>4, <1>5

\* So a run that starts leaves them in order.
LEMMA StartInOrder ==
    ASSUME AccessInv, OrderInv, NEW r \in Run, NEW g \in Grant, Start(r, g)
    PROVE  OrderInv'
<1> SUFFICES ASSUME apart', steady'
             PROVE  /\ InStep' /\ NoLooseEnds' /\ Accounted' /\ QuietIsDone'
                    /\ \A h \in revoked' : Withdrawn(h)'
  BY DEF OrderInv
<1> USE DEF AccessInv
<1>1. apart /\ steady /\ Busy \subseteq Of(g)
  BY DEF Start
<1>2. InStep /\ NoLooseEnds /\ Accounted /\ QuietIsDone /\ \A h \in revoked : Withdrawn(h)
  BY <1>1 DEF OrderInv
<1>3. /\ UNCHANGED <<status, wants, source, objects, rule, linked, group, allowed, recorded,
                     advertised, revoked>>
      /\ due' = due \ {g} /\ run[r] = None
  BY DEF Start
<1>4. run'[r] = Begins(g) /\ \A q \in Run \ {r} : run'[q] = run[q]
  BY DEF Start, TypeOK
<1>5. Begins(g) # None /\ Begins(g).of = g
  BY WorkBegun, AccessAssumption
<1>6. /\ Busy' = Busy \union {r} /\ r \notin Busy
      /\ \A q \in Busy : run[q].of = g /\ run'[q] = run[q] /\ q \in Run
      /\ Of(g)' = Busy \union {r}
  BY <1>1, <1>3, <1>4, <1>5 DEF Busy, Of
<1>7. \A h \in Grant \ {g} : Of(h)' = Of(h)
  BY <1>3, <1>4, <1>5 DEF Of
<1>8. \A h \in Grant : \A q \in Of(h) : q \in Of(h)' /\ run'[q] = run[q]
  BY <1>3, <1>4 DEF Of
<1>9. \A h \in Grant : Withdrawn(h)' <=> Withdrawn(h)
  BY <1>3 DEF Withdrawn
<1>10. \A h \in Grant : BeingRecorded(h) => BeingRecorded(h)'
  BY <1>8 DEF BeingRecorded
<1>11. Closes(g)' <=> Closes(g)
  BY <1>3 DEF Closes, Others, Withdrawn
<1>12. InStep'
  <2>1. Refusing(r)' /\ Building(r)' /\ Withdrawing(r)'
    BY <1>1, <1>2, <1>3, <1>4, BeginsInStep
  <2>2. ASSUME NEW q \in Busy PROVE Refusing(q)' /\ Building(q)' /\ Withdrawing(q)'
    BY <1>2, <1>3, <1>6, <1>10, <1>11, SameStep DEF InStep
  <2>3. \A q \in Busy' : run'[q].of = g
    BY <1>4, <1>5, <1>6
  <2> QED BY <1>6, <2>1, <2>2, <2>3 DEF InStep
<1>13. NoLooseEnds'
  <2> SUFFICES ASSUME NEW h \in Grant PROVE Tied(h)'
    BY DEF NoLooseEnds
  <2>1. Tied(h)
    BY <1>2 DEF NoLooseEnds
  <2>2. \A q \in Of(h) : Unadvertises(q) => Unadvertises(q)'
    BY <1>8 DEF Unadvertises
  <2> QED BY <1>3, <1>8, <2>1, <2>2 DEF Tied
<1>14. Accounted'
  <2> SUFFICES ASSUME NEW s \in allowed' \ Declared
               PROVE  \E h \in Grant :
                         /\ source'[h] = s
                         /\ \/ h \in recorded' /\ (~Withdrawn(h)' \/ WillClose(h)')
                            \/ BeingRecorded(h)'
    BY DEF Accounted
  <2>1. PICK h \in Grant : /\ source[h] = s
                           /\ \/ h \in recorded /\ (~Withdrawn(h) \/ WillClose(h))
                              \/ BeingRecorded(h)
    BY <1>2, <1>3 DEF Accounted
  <2>2. CASE BeingRecorded(h) \/ (h \in recorded /\ ~Withdrawn(h))
    BY <1>3, <1>9, <1>10, <2>1, <2>2
  <2>3. CASE h \in recorded /\ \E q \in Of(h) : run[q].may /\ run[q].at \in {"unrule", "unwrite", "close"}
    <3>1. WillClose(h)'
      BY <1>8, <2>3 DEF WillClose
    <3> QED BY <1>3, <2>1, <2>3, <3>1
  <2>4. CASE h \in recorded /\ h \in due /\ h # g
    <3>1. WillClose(h)'
      BY <1>3, <2>4 DEF WillClose
    <3> QED BY <1>3, <2>1, <2>4, <3>1
  <2>5. CASE g \in recorded /\ h = g /\ Withdrawn(g)
    <3>1. CASE Closes(g)
      <4>1. r \in Of(g)' /\ run'[r].may /\ run'[r].at = "unrule"
        BY <1>4, <1>6, <2>5, <3>1 DEF Begins
      <4>2. WillClose(g)'
        BY <4>1 DEF WillClose
      <4> QED BY <1>3, <2>1, <2>5, <4>2
    <3>2. CASE ~Closes(g)
      <4>1. PICK k \in Others(g) : ~Withdrawn(k)
        BY <2>5, <3>2 DEF Closes
      <4>2. k \in Grant /\ k \in recorded /\ source[k] = s
        BY <2>1, <2>5, <4>1 DEF Others, TypeOK
      <4> QED BY <1>3, <1>9, <4>1, <4>2
    <3> QED BY <3>1, <3>2
  <2> QED BY <2>1, <2>2, <2>3, <2>4, <2>5 DEF WillClose
<1>15. QuietIsDone'
  <2> SUFFICES ASSUME NEW h \in Grant, Quiet(h)' PROVE Done(h)'
    BY DEF QuietIsDone, Done
  <2>1. h # g
    BY <1>6 DEF Quiet
  <2>2. Quiet(h)
    BY <1>3, <1>7, <2>1 DEF Quiet
  <2>3. Done(h)
    BY <1>2 DEF QuietIsDone
  <2>4. Own(h, objects)' = Own(h, objects) /\ (Built(h)' <=> Built(h))
    BY <1>3, SameGrant
  <2> QED BY <1>3, <1>9, <2>2, <2>3, <2>4 DEF Done
<1>16. \A h \in revoked' : Withdrawn(h)'
  BY <1>2, <1>3, <1>9 DEF TypeOK
<1> QED BY <1>12, <1>13, <1>14, <1>15, <1>16

\* A branch begins with what was merged built, and nothing at work.
LEMMA OrderAtFirst ==
    ASSUME Init
    PROVE  OrderInv
<1>1. Busy = {} /\ \A g \in Grant : Of(g) = {}
  BY DEF Init, Busy, Of
<1>2. /\ due = Grant \ Merged /\ linked = Merged /\ advertised = Merged /\ revoked = {}
      /\ wants = Asked /\ source \in [Grant -> Prefix]
      /\ recorded = {g \in Merged : source[g] \notin Declared}
      /\ allowed = Declared \union {source[g] : g \in Merged}
  BY AccessAssumption DEF Init
<1>3. ASSUME NEW g \in Merged
      PROVE  /\ g \in Grant /\ status[g] = "active"
             /\ rule[g] = group[g] \union ({Baseline} \X (Asked[g] \intersect Predefined))
             /\ group[g] = {g} \X (Asked[g] \ Predefined)
             /\ group[g] \subseteq objects
  BY AccessAssumption DEF Init
<1>4. \A g \in Grant \ Merged : rule[g] = None
  BY DEF Init
<1>5. InStep
  BY <1>1 DEF InStep
<1>6. NoLooseEnds
  BY <1>2, <1>4 DEF NoLooseEnds, Tied
<1>7. Accounted
  <2> SUFFICES ASSUME NEW s \in allowed \ Declared
               PROVE  \E h \in Grant : source[h] = s /\ h \in recorded /\ ~Withdrawn(h)
    BY DEF Accounted
  <2>1. PICK h \in Merged : source[h] = s
    BY <1>2
  <2> QED BY <1>2, <1>3, <2>1 DEF Withdrawn
<1>8. QuietIsDone
  <2> SUFFICES ASSUME NEW g \in Grant, Quiet(g) PROVE ~Withdrawn(g) /\ Built(g)
    BY DEF QuietIsDone, Done
  <2>1. g \in Merged
    BY <1>2 DEF Quiet
  <2>2. Asked[g] \subseteq Item
    BY AccessAssumption
  <2>3. rule[g] \subseteq Object
    BY <1>3, <2>1, <2>2 DEF Object
  <2>4. rule[g] # None
    BY <2>3, AccessAssumption
  <2>5. {o[2] : o \in rule[g]} = Asked[g]
    <3>1. \A o \in rule[g] : o[2] \in Asked[g]
      BY <1>3, <2>1
    <3>2. \A i \in Asked[g] : <<g, i>> \in rule[g] \/ <<Baseline, i>> \in rule[g]
      BY <1>3, <2>1
    <3>3. \A i \in Asked[g] : \E o \in rule[g] : o[2] = i
      BY <3>2
    <3> QED BY <3>1, <3>3
  <2>6. Own(g, rule[g]) \subseteq objects
    BY <1>3, <2>1, AccessAssumption DEF Own
  <2>7. SourceHolds(g) /\ source[g] \in allowed
    BY <1>2, <2>1 DEF SourceHolds
  <2> QED BY <1>2, <1>3, <2>1, <2>4, <2>5, <2>6, <2>7 DEF Built, Covers, Withdrawn
<1> QED BY <1>2, <1>5, <1>6, <1>7, <1>8 DEF OrderInv

\* Every step of a run, whatever the run is at.
LEMMA StepInOrder ==
    ASSUME AccessInv, TypeOK', OrderInv, NEW r \in Run, Step(r)
    PROVE  OrderInv'
<1>1. run[r] # None /\ UNCHANGED <<apart, steady>>
  BY DEF Step, Refuse, Write, PutRule, Link, Permit, Record, Advertise, Prune, Unrule, Unwrite,
         Close, Settle, Unadvertise, At
<1>2. CASE ~(apart /\ steady)
  BY <1>1, <1>2 DEF OrderInv
<1>3. CASE apart /\ steady
  <2>1. PICK g \in Grant : run[r].of = g
    BY <1>1 DEF AccessInv, TypeOK, Work
  <2>2. CASE Refuse(r)
    BY <1>1, <1>3, <2>1, <2>2, RefuseInOrder
  <2>3. CASE Write(r)
    BY <1>1, <1>3, <2>1, <2>3, WriteInOrder
  <2>4. CASE PutRule(r)
    BY <1>1, <1>3, <2>1, <2>4, PutRuleInOrder
  <2>5. CASE Link(r)
    BY <1>1, <1>3, <2>1, <2>5, LinkInOrder
  <2>6. CASE Permit(r)
    BY <1>1, <1>3, <2>1, <2>6, PermitInOrder
  <2>7. CASE Record(r)
    BY <1>1, <1>3, <2>1, <2>7, RecordInOrder
  <2>8. CASE Advertise(r)
    BY <1>1, <1>3, <2>1, <2>8, AdvertiseInOrder
  <2>9. CASE Prune(r)
    BY <1>1, <1>3, <2>1, <2>9, PruneInOrder
  <2>10. CASE Unrule(r)
    BY <1>1, <1>3, <2>1, <2>10, UnruleInOrder
  <2>11. CASE Unwrite(r)
    BY <1>1, <1>3, <2>1, <2>11, UnwriteInOrder
  <2>12. CASE Close(r)
    BY <1>1, <1>3, <2>1, <2>12, CloseInOrder
  <2>13. CASE Settle(r)
    BY <1>1, <1>3, <2>1, <2>13, SettleInOrder
  <2>14. CASE Unadvertise(r)
    BY <1>1, <1>3, <2>1, <2>14, UnadvertiseInOrder
  <2> QED BY <2>2, <2>3, <2>4, <2>5, <2>6, <2>7, <2>8, <2>9, <2>10, <2>11, <2>12, <2>13, <2>14
          DEF Step
<1> QED BY <1>2, <1>3

\* A step that changes nothing changes nothing of the order.
LEMMA OrderStutters ==
    ASSUME OrderInv, UNCHANGED vars
    PROVE  OrderInv'
<1> USE DEF Withdrawn
<1>1. Busy' = Busy /\ \A h : Of(h)' = Of(h)
  BY DEF Busy, Of
<1>2. \A h : BeingRecorded(h)' <=> BeingRecorded(h)
  BY <1>1 DEF BeingRecorded
<1>3. \A h : Closes(h)' <=> Closes(h)
  BY DEF Closes, Others
<1>4. \A h : WillClose(h)' <=> WillClose(h)
  BY <1>1 DEF WillClose
<1>5. \A h : Tied(h)' <=> Tied(h)
  BY <1>1 DEF Tied, Unadvertises
<1>6. \A i, h : UsesOwn(h, i)' <=> UsesOwn(h, i)
  BY DEF UsesOwn, Resolved, Existing
<1>7. \A h : Covers(h)' <=> Covers(h)
  BY DEF Covers
<1>8. \A h : SourceHolds(h)' <=> SourceHolds(h)
  BY DEF SourceHolds
<1>9. \A h : RuleStands(h)' <=> RuleStands(h)
  BY <1>6, <1>7 DEF RuleStands, Own
<1>10. \A h : Done(h)' <=> Done(h)
  BY <1>1, <1>7, <1>8 DEF Done, Quiet, Built, Own
<1>11. \A q : Building(q)' <=> Building(q)
  BY <1>2, <1>6, <1>8, <1>9 DEF Building, Own
<1>12. \A q : Withdrawing(q)' <=> Withdrawing(q)
  BY <1>3 DEF Withdrawing, Own
<1>13. InStep' <=> InStep
  BY <1>1, <1>11, <1>12 DEF InStep, Refusing
<1>14. (NoLooseEnds' <=> NoLooseEnds) /\ (QuietIsDone' <=> QuietIsDone)
  BY <1>5, <1>10 DEF NoLooseEnds, QuietIsDone
<1>15. Accounted' <=> Accounted
  BY <1>2, <1>4 DEF Accounted
<1> QED BY <1>13, <1>14, <1>15 DEF OrderInv

\* Runs of one grant that overlap never undo one another: what each has written the next
\* finds, whichever of them is ahead, and the last of them leaves the grant built or gone.
THEOREM OrderInvariant == Spec => [](AccessInv /\ OrderInv)
<1>1. Init => OrderInv
  BY OrderAtFirst
<1>2. AccessInv /\ AccessInv' /\ OrderInv /\ [Next]_vars => OrderInv'
  <2> SUFFICES ASSUME AccessInv, AccessInv', OrderInv, [Next]_vars PROVE OrderInv'
    OBVIOUS
  <2>1. TypeOK'
    BY DEF AccessInv
  <2>2. ASSUME NEW g \in Grant, Edit(g) PROVE OrderInv'
    BY <2>2, EditInOrder
  <2>3. ASSUME NEW r \in Run, Step(r) PROVE OrderInv'
    BY <2>1, <2>3, StepInOrder
  <2>4. ASSUME NEW r \in Run, Stops(r) PROVE OrderInv'
    BY <2>4 DEF Stops, OrderInv
  <2>5. ASSUME NEW r \in Run, NEW g \in Grant, Start(r, g) PROVE OrderInv'
    BY <2>5, StartInOrder
  <2>6. CASE UNCHANGED vars
    BY <2>6, OrderStutters
  <2> QED BY <2>2, <2>3, <2>4, <2>5, <2>6 DEF Next
<1> QED BY <1>1, <1>2, AccessInvariant, PTL DEF Spec

-----------------------------------------------------------------------------
(***************************************************************************)
(* What a grant at rest has.                                               *)
(***************************************************************************)

\* A run goes on or is over: no step makes it another grant's, or has it read again.
LEMMA GoesOnOrIsOver ==
    ASSUME AccessInv, NEW r \in Run, Step(r)
    PROVE  /\ r \in Busy
           /\ \/ IsOver(r) /\ lone' = lone \ {r}
              \/ GoesOn(r, run'[r].at) /\ lone' = lone
<1> USE DEF AccessInv
<1>1. run[r] # None /\ r \in Busy /\ run[r] \in Work
  BY DEF TypeOK, Busy, Step, Refuse, Write, PutRule, Link, Permit, Record, Advertise, Prune, Unrule,
         Unwrite, Close, Settle, Unadvertise, At
<1>2. ASSUME Ends(r) PROVE IsOver(r) /\ lone' = lone \ {r}
  BY <1>1, <1>2, EndsNow DEF Ends
<1>3. ASSUME NEW there \in Places, Moves(r, there) PROVE GoesOn(r, run'[r].at) /\ lone' = lone
  <2>1. GoesOn(r, there)
    BY <1>1, <1>3, MovesOn
  <2> QED BY <1>3, <2>1 DEF GoesOn, Moves
<1>4. ASSUME NEW there \in Places, NEW b \in BOOLEAN, Removes(r, b, there)
      PROVE  GoesOn(r, run'[r].at) /\ lone' = lone
  <2>1. GoesOn(r, there)
    BY <1>1, <1>4, RemovesOn
  <2> QED BY <1>4, <2>1 DEF GoesOn, Removes
<1>5. CASE Refuse(r) \/ Prune(r) \/ Unadvertise(r)
  BY <1>1, <1>2, <1>5 DEF Refuse, Prune, Unadvertise
<1>6. CASE Write(r) \/ PutRule(r) \/ Record(r) \/ Advertise(r) \/ Settle(r)
  BY <1>1, <1>3, <1>6 DEF Write, PutRule, Record, Advertise, Settle, Places
<1>7. CASE Link(r)
  BY <1>1, <1>2, <1>3, <1>7 DEF Link, Places
<1>8. CASE Permit(r)
  <2>1. Moves(r, IF run[r].may THEN "record" ELSE "advertise")
    BY <1>8 DEF Permit
  <2>2. (IF run[r].may THEN "record" ELSE "advertise") \in Places
    BY DEF Places
  <2> QED BY <1>1, <1>3, <2>1, <2>2
<1>9. CASE Close(r)
  BY <1>1, <1>2, <1>3, <1>9 DEF Close, Places
<1>10. CASE Unrule(r)
  <2>1. PICK b \in BOOLEAN : Removes(r, b, "unwrite")
    BY <1>1, <1>10 DEF Unrule, Work
  <2> QED BY <1>1, <1>4, <2>1 DEF Places
<1>11. CASE Unwrite(r)
  <2>1. PICK b \in BOOLEAN : Removes(r, b, "close")
    BY <1>11 DEF Unwrite
  <2> QED BY <1>1, <1>4, <2>1 DEF Places
<1> QED BY <1>5, <1>6, <1>7, <1>8, <1>9, <1>10, <1>11 DEF Step

\* Nobody takes anything for hand-written that is not.
HandWrittenOnly ==
    /\ \A o \in objects : o[1] = Baseline => o[2] \in Predefined
    /\ \A g \in Grant : rule[g] # None => \A o \in rule[g] : o[1] = Baseline => o[2] \in Predefined
    /\ \A r \in Busy : \A o \in run[r].uses : o[1] = Baseline => o[2] \in Predefined

\* Rules and runs reference, of what nobody generated, only what is there by hand: a run
\* resolves an item to an object it found or to one of its own.
THEOREM HandWrittenOnlyInvariant == Spec => []HandWrittenOnly
<1>1. Init => HandWrittenOnly
  <2> SUFFICES ASSUME Init PROVE HandWrittenOnly
    OBVIOUS
  <2>1. Busy = {}
    BY DEF Init, Busy
  <2>2. \A g \in Merged : group[g] = {g} \X (Asked[g] \ Predefined)
    BY AccessAssumption DEF Init
  <2>3. \A g \in Merged : \A o \in group[g] : o[1] # Baseline
    BY <2>2, AccessAssumption
  <2>4. \A o \in objects : o[1] = Baseline => o[2] \in Predefined
    BY <2>3 DEF Init
  <2>5. ASSUME NEW g \in Grant, rule[g] # None, NEW o \in rule[g], o[1] = Baseline
        PROVE  o[2] \in Predefined
    <3>1. g \in Merged
      BY <2>5 DEF Init
    <3>2. rule[g] = group[g] \union ({Baseline} \X (Asked[g] \intersect Predefined))
      BY <3>1, AccessAssumption DEF Init
    <3> QED BY <2>3, <2>5, <3>1, <3>2
  <2> QED BY <2>1, <2>4, <2>5 DEF HandWrittenOnly
<1>2. AccessInv /\ HandWrittenOnly /\ [Next]_vars => HandWrittenOnly'
  <2> SUFFICES ASSUME AccessInv, HandWrittenOnly, [Next]_vars PROVE HandWrittenOnly'
    OBVIOUS
  <2> USE DEF AccessInv
  <2>1. ASSUME NEW r \in Run, Step(r) PROVE HandWrittenOnly'
    <3>1. r \in Busy /\ (IsOver(r) \/ GoesOn(r, run'[r].at))
      BY <2>1, GoesOnOrIsOver
    <3>2. \A q \in Busy' : q \in Busy /\ run'[q].uses = run[q].uses
      BY <3>1 DEF IsOver, GoesOn
    <3>3. run[r].of \in Grant /\ run[r].of # Baseline /\ r \in Run
      BY <3>1, AccessAssumption DEF TypeOK, Work, Busy
    <3>4. \A o \in objects' : o \in objects \/ o[1] = run[r].of
      BY <2>1 DEF Step, Refuse, Write, PutRule, Link, Permit, Record, Advertise, Prune, Unrule,
                  Unwrite, Close, Settle, Unadvertise, Own
    <3>5. \A g \in Grant : \/ rule'[g] = rule[g] \/ rule'[g] = None
                           \/ rule'[g] = run[r].uses
      <4>1. \/ rule' = rule \/ rule' = [rule EXCEPT ![run[r].of] = None]
            \/ rule' = [rule EXCEPT ![run[r].of] = run[r].uses]
        BY <2>1 DEF Step, Refuse, Write, PutRule, Link, Permit, Record, Advertise, Prune, Unrule,
                    Unwrite, Close, Settle, Unadvertise
      <4> QED BY <4>1 DEF TypeOK
    <3> QED BY <3>1, <3>2, <3>3, <3>4, <3>5 DEF HandWrittenOnly
  <2>2. ASSUME NEW r \in Run, NEW g \in Grant, Start(r, g) PROVE HandWrittenOnly'
    <3>1. UNCHANGED <<objects, rule>>
      BY <2>2 DEF Start
    <3>2. run'[r] = Begins(g) /\ \A q \in Run \ {r} : run'[q] = run[q]
      BY <2>2 DEF Start, TypeOK
    <3>3. wants[g] \subseteq Item /\ g # Baseline
      BY AccessAssumption DEF TypeOK
    <3>4. \A i \in wants[g] : Resolved(g, i) = <<g, i>> \/ Resolved(g, i) \in objects
      BY <3>3, FindsOne DEF Existing
    <3>5. \A o \in Begins(g).uses : o[1] = g \/ o \in objects
      BY <3>4 DEF Begins, Named, Own
    <3>6. \A o \in Begins(g).uses : o[1] = Baseline => o[2] \in Predefined
      BY <3>3, <3>5 DEF HandWrittenOnly
    <3>7. \A q \in Busy' : q = r \/ (q \in Busy /\ run'[q] = run[q])
      BY <3>2 DEF Busy
    <3> QED BY <3>1, <3>2, <3>6, <3>7 DEF HandWrittenOnly
  <2>3. ASSUME NEW r \in Run, Stops(r) PROVE HandWrittenOnly'
    <3>1. IsOver(r)
      BY <2>3, EndsNow DEF Stops
    <3> QED BY <2>3, <3>1 DEF HandWrittenOnly, IsOver, Stops
  <2>4. ASSUME NEW g \in Grant, Edit(g) PROVE HandWrittenOnly'
    BY <2>4 DEF HandWrittenOnly, Edit, Busy
  <2>5. CASE UNCHANGED vars
    BY <2>5 DEF HandWrittenOnly, Busy
  <2> QED BY <2>1, <2>2, <2>3, <2>4, <2>5 DEF Next
<1> QED BY <1>1, <1>2, AccessInvariant, PTL DEF Spec

\* However many runs of a grant overlap, in whatever order they write, the last of them
\* leaves a grant that is live with its complete rule, its route and its source.
THEOREM LiveGrantsBuilt == Spec => []LiveIsBuilt
<1>1. AccessInv /\ OrderInv /\ HandWrittenOnly => LiveIsBuilt
  <2> SUFFICES ASSUME AccessInv, OrderInv, HandWrittenOnly, NEW g \in Grant,
                      Settled, ~Withdrawn(g), wants[g] # {}
               PROVE  /\ status[g] = "active" /\ Covers(g) /\ g \in linked
                      /\ \A o \in rule[g] : o[1] \in {g, Baseline} => o \in objects
                      /\ source[g] \in allowed /\ g \in advertised
    BY DEF LiveIsBuilt
  <2>1. apart /\ steady /\ Quiet(g)
    BY DEF Settled, AtRest, Quiet, Of, Busy
  <2>2. Built(g)
    BY <2>1 DEF OrderInv, QuietIsDone, Done
  <2>3. rule[g] # None /\ rule[g] \subseteq Object
    BY <2>2 DEF Built, Covers, AccessInv, TypeOK
  <2>4. ASSUME NEW o \in rule[g], o[1] = g PROVE o \in objects
    BY <2>2, <2>4 DEF Built, Own
  <2>5. ASSUME NEW o \in rule[g], o[1] = Baseline PROVE o \in objects
    <3>1. o = <<Baseline, o[2]>>
      BY <2>3, <2>5 DEF Object
    <3>2. o[2] \in Predefined
      BY <2>3, <2>5 DEF HandWrittenOnly
    <3>3. \A i \in Predefined : <<Baseline, i>> \in objects
      BY DEF AccessInv, HandWrittenKept
    <3> QED BY <3>1, <3>2, <3>3
  <2> QED BY <2>2, <2>4, <2>5 DEF Built
<1> QED BY <1>1, OrderInvariant, HandWrittenOnlyInvariant, PTL

\* However many withdrawals of a grant overlap, of which only the first finds each thing to
\* remove, they leave nothing of it but a source that is somebody else's too.
THEOREM WithdrawnGone == Spec => []WithdrawnIsGone
<1>1. AccessInv /\ OrderInv => WithdrawnIsGone
  <2> SUFFICES ASSUME AccessInv, OrderInv, NEW g \in Grant, Settled, g \in revoked
               PROVE  /\ Withdrawn(g) /\ rule[g] = None /\ Own(g, objects) = {}
                      /\ g \notin advertised
                      /\ source[g] \in allowed =>
                            source[g] \in Declared \/ \E h \in Others(g) : ~Withdrawn(h)
    BY DEF WithdrawnIsGone
  <2>1. apart /\ steady /\ due = {} /\ \A h : Of(h) = {}
    BY DEF Settled, AtRest, Of, Busy
  <2>2. Withdrawn(g)
    BY <2>1 DEF OrderInv
  <2>3. rule[g] = None /\ Own(g, objects) = {}
    BY <2>1, <2>2 DEF OrderInv, QuietIsDone, Done, Quiet
  <2>4. g \notin linked
    BY <2>3 DEF AccessInv, TypeOK
  <2>5. g \notin advertised
    BY <2>1, <2>4 DEF OrderInv, NoLooseEnds, Tied
  <2>6. ASSUME source[g] \in allowed, source[g] \notin Declared
        PROVE  \E h \in Others(g) : ~Withdrawn(h)
    <3>1. PICK h \in Grant : source[h] = source[g] /\ h \in recorded /\ ~Withdrawn(h)
      BY <2>1, <2>6 DEF OrderInv, Accounted, WillClose, BeingRecorded
    <3> QED BY <2>2, <3>1 DEF Others
  <2> QED BY <2>2, <2>3, <2>5, <2>6
<1> QED BY <1>1, OrderInvariant, PTL

-----------------------------------------------------------------------------
(***************************************************************************)
(* A run that is alone from its start on.                                  *)
(***************************************************************************)

\* A build that nothing disturbs, at each of its steps.
BuildingAlone(r) ==
    LET w == run[r]
        g == w.of IN
    w.at \in Builds =>
        /\ ~Withdrawn(g) /\ wants[g] # {}
        /\ {o[2] : o \in w.uses} = wants[g]
        /\ \A o \in w.uses : o \in objects \/ (o[1] = g /\ w.at = "write")
        /\ w.at \notin {"write", "rule"} => rule[g] = w.uses
        /\ w.at \in {"permit", "record", "advertise", "end"} => g \in linked /\ status[g] = "active"
        /\ w.seen \/ w.at \in {"record", "advertise", "end"} => source[g] \in allowed
        /\ ~w.seen => w.may
        /\ w.at = "end" => g \in advertised

\* A withdrawal that nothing disturbs, at each of its steps.
WithdrawingAlone(r) ==
    LET w == run[r]
        g == w.of IN
    w.at \in Withdrawals =>
        /\ Withdrawn(g)
        /\ g \in linked => w.at = "unrule" /\ w.seen
        /\ IF w.at \in {"unrule", "unwrite"} THEN Own(g, objects) \subseteq w.uses
           ELSE Own(g, objects) = {}
        /\ Closes(g) => IF w.at \in {"unrule", "unwrite", "close"} THEN w.may
                        ELSE source[g] \notin allowed

AloneInv == \A r \in lone : Busy = {r} /\ Refusing(r) /\ BuildingAlone(r) /\ WithdrawingAlone(r)

\* What a run that nothing disturbs is at decides what it has done, whatever was there
\* when it started.
LEMMA BeginsAlone ==
    ASSUME AccessInv, NEW r \in Run, NEW g \in Grant, run'[r] = Begins(g),
           UNCHANGED <<status, wants, source, objects, rule, linked, allowed, recorded, advertised>>
    PROVE  Refusing(r)' /\ BuildingAlone(r)' /\ WithdrawingAlone(r)'
<1>1. /\ Begins(g).of = g
      /\ Begins(g).at = IF Withdrawn(g) THEN "unrule" ELSE IF wants[g] = {} THEN "refuse" ELSE "write"
      /\ Begins(g).uses = IF Withdrawn(g) THEN Named(g) ELSE {Resolved(g, i) : i \in wants[g]}
      /\ Begins(g).seen = IF Withdrawn(g) THEN g \in linked ELSE source[g] \in allowed
      /\ Begins(g).may = IF Withdrawn(g) THEN Closes(g) ELSE MayRecord(g)
  BY DEF Begins
<1>2. (Withdrawn(g)' <=> Withdrawn(g)) /\ Own(g, objects)' = Own(g, objects)
  BY DEF Withdrawn, Own
<1>3. Closes(g)' <=> Closes(g)
  BY DEF Closes, Others, Withdrawn
<1>4. Refusing(r)'
  BY <1>1, <1>2 DEF Refusing
<1>5. WithdrawingAlone(r)'
  BY <1>1, <1>2, <1>3 DEF WithdrawingAlone, Withdrawals, Named
<1>6. BuildingAlone(r)'
  <2> SUFFICES ASSUME ~Withdrawn(g), wants[g] # {} PROVE BuildingAlone(r)'
    BY <1>1 DEF BuildingAlone, Builds
  <2>1. wants[g] \subseteq Item
    BY DEF AccessInv, TypeOK
  <2>2. \A i \in wants[g] : /\ Resolved(g, i)[2] = i
                            /\ Resolved(g, i) = <<g, i>> \/ Resolved(g, i) \in objects
    BY <2>1, FindsOne DEF AccessInv, Existing
  <2>3. {o[2] : o \in Begins(g).uses} = wants[g]
    BY <1>1, <2>2
  <2>4. \A o \in Begins(g).uses : o \in objects \/ o[1] = g
    BY <1>1, <2>2
  <2>5. ~Begins(g).seen => Begins(g).may
    BY <1>1 DEF MayRecord
  <2> QED BY <1>1, <1>2, <2>3, <2>4, <2>5 DEF BuildingAlone
<1> QED BY <1>4, <1>5, <1>6

\* A build that nothing disturbs goes on to the next thing it is for, and ends when its
\* grant has everything.
LEMMA BuildsAlone ==
    ASSUME AccessInv, NEW r \in Run, NEW g \in Grant, run[r].of = g, Step(r),
           run[r].at \in Builds, BuildingAlone(r)
    PROVE  \/ GoesOn(r, run'[r].at) /\ run'[r].at \in Builds /\ BuildingAlone(r)'
           \/ IsOver(r) /\ RightFor(g)'
<1> USE DEF AccessInv
<1>1. r \in Busy /\ (IsOver(r) \/ GoesOn(r, run'[r].at)) /\ run[r] \in Work
  BY GoesOnOrIsOver DEF Busy, TypeOK
<1>2. /\ ~Withdrawn(g) /\ wants[g] # {}
      /\ {o[2] : o \in run[r].uses} = wants[g]
      /\ \A o \in run[r].uses : o \in objects \/ (o[1] = g /\ run[r].at = "write")
      /\ run[r].at \notin {"write", "rule"} => rule[g] = run[r].uses
      /\ run[r].at \in {"permit", "record", "advertise", "end"} =>
           g \in linked /\ status[g] = "active"
      /\ run[r].seen \/ run[r].at \in {"record", "advertise", "end"} => source[g] \in allowed
      /\ ~run[r].seen => run[r].may
      /\ run[r].at = "end" => g \in advertised
  BY DEF BuildingAlone
<1>3. run[r].uses # None /\ run[r].uses \in SUBSET Object
  BY <1>1, AccessAssumption DEF Work
<1>4. UNCHANGED <<wants, source>>
  BY DEF Step, Refuse, Write, PutRule, Link, Permit, Record, Advertise, Prune, Unrule, Unwrite,
         Close, Settle, Unadvertise
<1>5. CASE Prune(r)
  <2>1. IsOver(r)
    BY <1>1, <1>5, EndsNow DEF Prune, Busy
  <2>2. run[r].at = "end"
    BY <1>5 DEF Prune, At
  <2>3. UNCHANGED <<status, rule, linked, allowed, recorded, advertised>>
    BY <1>5 DEF Prune
  <2>4. objects' = objects \ (group[g] \ Touched(run[r])) /\ \A o \in group[g] : o[1] = g
    BY <1>5 DEF Prune, TypeOK
  <2>5. rule'[g] \subseteq objects'
    BY <1>2, <2>2, <2>3, <2>4 DEF Touched, Own
  <2>6. ~Withdrawn(g)' /\ Covers(g)'
    BY <1>2, <1>3, <1>4, <2>2, <2>3 DEF Withdrawn, Covers
  <2> QED BY <1>2, <1>4, <2>1, <2>2, <2>3, <2>5, <2>6 DEF RightFor
<1>6. ASSUME GoesOn(r, run'[r].at)
      PROVE  /\ run'[r].of = g /\ run'[r].uses = run[r].uses /\ run'[r].seen = run[r].seen
             /\ run'[r].may = run[r].may
  BY <1>6 DEF GoesOn
<1>7. CASE Write(r)
  <2>1. run[r].at = "write" /\ objects' = objects \union Own(g, run[r].uses) /\ GoesOn(r, "rule")
    BY <1>1, <1>7, MovesOn DEF Write, At, Places, Busy
  <2>2. UNCHANGED <<status, rule, linked, allowed, recorded, advertised>>
    BY <1>7 DEF Write
  <2>3. run'[r].at = "rule"
    BY <2>1 DEF GoesOn
  <2>4. \A o \in run[r].uses : o \in objects'
    BY <1>2, <2>1 DEF Own
  <2> QED BY <1>2, <1>4, <1>6, <2>1, <2>2, <2>3, <2>4 DEF BuildingAlone, Builds, Withdrawn
<1>8. CASE PutRule(r)
  <2>1. run[r].at = "rule" /\ GoesOn(r, "link")
    BY <1>1, <1>8, MovesOn DEF PutRule, At, Places, Busy
  <2>2. UNCHANGED <<status, objects, linked, allowed, recorded, advertised>>
    BY <1>8 DEF PutRule
  <2>3. run'[r].at = "link" /\ rule'[g] = run[r].uses
    BY <1>8, <2>1 DEF GoesOn, PutRule, TypeOK
  <2> QED BY <1>2, <1>4, <1>6, <2>1, <2>2, <2>3 DEF BuildingAlone, Builds, Withdrawn
<1>9. CASE Link(r)
  <2>1. run[r].at = "link" /\ rule[g] = run[r].uses
    BY <1>2, <1>9 DEF Link, At
  <2>2. Moves(r, "permit") /\ linked' = linked \union {g} /\ SetStatus(g, "active")
    BY <1>3, <1>9, <2>1 DEF Link
  <2>3. UNCHANGED <<objects, rule, allowed, recorded, advertised>>
    BY <1>9 DEF Link
  <2>4. GoesOn(r, "permit")
    BY <1>1, <2>2, MovesOn DEF Places, Busy
  <2>5. run'[r].at = "permit" /\ status'[g] = "active"
    BY <2>2, <2>4 DEF GoesOn, SetStatus, TypeOK
  <2> QED BY <1>2, <1>4, <1>6, <2>1, <2>2, <2>3, <2>4, <2>5 DEF BuildingAlone, Builds, Withdrawn
<1>10. CASE Permit(r)
  <2>1. Moves(r, IF run[r].may THEN "record" ELSE "advertise") /\ run[r].at = "permit"
    BY <1>10 DEF Permit, At
  <2>2. (IF run[r].may THEN "record" ELSE "advertise") \in Places
    BY DEF Places
  <2>3. GoesOn(r, IF run[r].may THEN "record" ELSE "advertise")
    <3>1. run[r] # None
      BY <1>1 DEF Busy
    <3> QED BY <2>1, <2>2, <3>1, MovesOn
  <2>4. run'[r].at \in {"record", "advertise"} /\ GoesOn(r, run'[r].at)
    BY <2>3 DEF GoesOn
  <2>5. UNCHANGED <<status, objects, rule, linked, recorded, advertised>>
    BY <1>10 DEF Permit
  <2>6. source[g] \in allowed'
    BY <1>2, <1>10 DEF Permit
  <2> QED BY <1>2, <1>4, <1>6, <2>1, <2>4, <2>5, <2>6 DEF BuildingAlone, Builds, Withdrawn
<1>11. CASE Record(r)
  <2>1. run[r].at = "record" /\ GoesOn(r, "advertise")
    BY <1>1, <1>11, MovesOn DEF Record, At, Places, Busy
  <2>2. UNCHANGED <<status, objects, rule, linked, allowed, advertised>>
    BY <1>11 DEF Record
  <2>3. run'[r].at = "advertise"
    BY <2>1 DEF GoesOn
  <2> QED BY <1>2, <1>4, <1>6, <2>1, <2>2, <2>3 DEF BuildingAlone, Builds, Withdrawn
<1>12. CASE Advertise(r)
  <2>1. run[r].at = "advertise" /\ GoesOn(r, "end")
    BY <1>1, <1>12, MovesOn DEF Advertise, At, Places, Busy
  <2>2. UNCHANGED <<status, objects, rule, linked, allowed, recorded>> /\ g \in advertised'
    BY <1>12 DEF Advertise
  <2>3. run'[r].at = "end"
    BY <2>1 DEF GoesOn
  <2> QED BY <1>2, <1>4, <1>6, <2>1, <2>2, <2>3 DEF BuildingAlone, Builds, Withdrawn
<1>13. run[r].at \notin Withdrawals \union {"refuse"}
  BY DEF Builds, Withdrawals
<1> QED BY <1>5, <1>7, <1>8, <1>9, <1>10, <1>11, <1>12, <1>13
        DEF Step, Refuse, Unrule, Unwrite, Close, Settle, Unadvertise, At, Withdrawals

\* So does a withdrawal, until nothing of the grant is left that it can remove.
LEMMA WithdrawsAlone ==
    ASSUME AccessInv, NEW r \in Run, NEW g \in Grant, run[r].of = g, Step(r),
           run[r].at \in Withdrawals, WithdrawingAlone(r)
    PROVE  \/ GoesOn(r, run'[r].at) /\ run'[r].at \in Withdrawals /\ WithdrawingAlone(r)'
           \/ IsOver(r) /\ RightFor(g)'
<1> USE DEF AccessInv
<1>1. r \in Busy /\ (IsOver(r) \/ GoesOn(r, run'[r].at)) /\ run[r] \in Work
  BY GoesOnOrIsOver DEF Busy, TypeOK
<1>2. /\ Withdrawn(g)
      /\ g \in linked => run[r].at = "unrule" /\ run[r].seen
      /\ IF run[r].at \in {"unrule", "unwrite"} THEN Own(g, objects) \subseteq run[r].uses
         ELSE Own(g, objects) = {}
      /\ Closes(g) => IF run[r].at \in {"unrule", "unwrite", "close"} THEN run[r].may
                      ELSE source[g] \notin allowed
  BY DEF WithdrawingAlone
<1>3. ASSUME GoesOn(r, run'[r].at)
      PROVE  /\ run'[r].of = g /\ run'[r].uses = run[r].uses /\ run'[r].seen = run[r].seen
             /\ run'[r].may = run[r].may
  BY <1>3 DEF GoesOn
<1>4. run[r].at \notin Builds \union {"refuse"}
  BY DEF Builds, Withdrawals
<1>5. UNCHANGED <<source, recorded>>
  BY <1>4 DEF Step, Refuse, Write, PutRule, Link, Permit, Record, Advertise, Prune, Unrule, Unwrite,
              Close, Settle, Unadvertise, At, Builds
<1>6. ASSUME \A h \in Grant : Withdrawn(h)' <=> Withdrawn(h) PROVE Closes(g)' <=> Closes(g)
  <2>1. Others(g)' = Others(g) /\ Others(g) \subseteq Grant
    BY <1>5 DEF Others, TypeOK
  <2> QED BY <1>5, <1>6, <2>1 DEF Closes
<1>7. status' = status => (Withdrawn(g)' /\ (Closes(g)' <=> Closes(g)))
  BY <1>2, <1>6 DEF Withdrawn
<1>8. CASE Unrule(r)
  <2>1. PICK b \in BOOLEAN : Removes(r, b, "unwrite")
    BY <1>1, <1>8 DEF Unrule, Work
  <2>2. GoesOn(r, "unwrite")
    BY <1>1, <2>1, RemovesOn DEF Places, Busy
  <2>3. run[r].at = "unrule" /\ run'[r].at = "unwrite"
    BY <1>8, <2>2 DEF GoesOn, Unrule, At
  <2>4. UNCHANGED <<status, objects, allowed>>
    BY <1>8 DEF Unrule
  <2>5. g \in linked => rule[g] # None
    BY DEF TypeOK
  <2>6. g \notin linked'
    BY <1>2, <1>8, <2>5 DEF Unrule
  <2>7. Own(g, objects)' = Own(g, objects)
    BY <2>4 DEF Own
  <2> QED BY <1>2, <1>3, <1>7, <2>2, <2>3, <2>4, <2>6, <2>7 DEF WithdrawingAlone, Withdrawals
<1>9. CASE Unwrite(r)
  <2>1. PICK b \in BOOLEAN : Removes(r, b, "close")
    BY <1>9 DEF Unwrite
  <2>2. GoesOn(r, "close")
    BY <1>1, <2>1, RemovesOn DEF Places, Busy
  <2>3. run[r].at = "unwrite" /\ run'[r].at = "close"
    BY <1>9, <2>2 DEF GoesOn, Unwrite, At
  <2>4. UNCHANGED <<status, linked, allowed>> /\ objects' = objects \ run[r].uses
    BY <1>9 DEF Unwrite
  <2>5. Own(g, objects)' = {}
    BY <1>2, <2>3, <2>4 DEF Own
  <2> QED BY <1>2, <1>3, <1>7, <2>2, <2>3, <2>4, <2>5 DEF WithdrawingAlone, Withdrawals
<1>10. CASE Close(r)
  <2>1. run[r].at = "close"
    BY <1>10 DEF Close, At
  <2>2. UNCHANGED <<status, linked, objects>>
    BY <1>10 DEF Close
  <2>3. Own(g, objects)' = {}
    BY <1>2, <2>1, <2>2 DEF Own
  <2>4. Closes(g)' => source[g] \notin allowed'
    BY <1>2, <1>7, <1>10, <2>1, <2>2 DEF Close
  <2>5. CASE run[r].removed \/ run[r].may
    <3>1. GoesOn(r, "settle")
      BY <1>1, <1>10, <2>5, MovesOn DEF Close, Places, Busy
    <3>2. run'[r].at = "settle"
      BY <3>1 DEF GoesOn
    <3> QED BY <1>2, <1>3, <1>5, <1>7, <2>1, <2>2, <2>3, <2>4, <3>1, <3>2 DEF WithdrawingAlone, Withdrawals
  <2>6. CASE ~(run[r].removed \/ run[r].may)
    <3>1. IsOver(r)
      BY <1>1, <1>10, <2>6, EndsNow DEF Close, Busy
    <3> QED BY <1>2, <1>5, <1>7, <2>1, <2>2, <2>3, <2>4, <3>1 DEF RightFor, Closes
  <2> QED BY <2>5, <2>6
<1>11. CASE Settle(r)
  <2>1. run[r].at = "settle" /\ GoesOn(r, "unadvertise")
    BY <1>1, <1>11, MovesOn DEF Settle, At, Places, Busy
  <2>2. UNCHANGED <<linked, objects, allowed>>
    BY <1>11 DEF Settle
  <2>3. run'[r].at = "unadvertise"
    BY <2>1 DEF GoesOn
  <2>4. status'[g] = "decommissioned" /\ \A h \in Grant \ {g} : status'[h] = status[h]
    BY <1>11 DEF Settle, SetStatus, SettledAs, TypeOK
  <2>5. \A h \in Grant : Withdrawn(h)' <=> Withdrawn(h)
    BY <1>2, <2>4 DEF Withdrawn
  <2>6. Own(g, objects)' = {}
    BY <1>2, <2>1, <2>2 DEF Own
  <2> QED BY <1>2, <1>3, <1>5, <1>6, <2>1, <2>2, <2>3, <2>5, <2>6 DEF WithdrawingAlone, Withdrawals
<1>12. CASE Unadvertise(r)
  <2>1. run[r].at = "unadvertise" /\ IsOver(r)
    BY <1>1, <1>12, EndsNow DEF Unadvertise, At, Busy
  <2>2. UNCHANGED <<status, linked, objects, allowed>>
    BY <1>12 DEF Unadvertise
  <2>3. Own(g, objects)' = {}
    BY <1>2, <2>1, <2>2 DEF Own
  <2> QED BY <1>2, <1>5, <1>7, <2>1, <2>2, <2>3 DEF RightFor, Closes
<1> QED BY <1>4, <1>8, <1>9, <1>10, <1>11, <1>12
        DEF Step, Refuse, Write, PutRule, Link, Permit, Record, Advertise, Prune, At, Builds

\* The invariant of a run that nothing disturbs, and what it leaves.
LEMMA AloneStep ==
    ASSUME AccessInv, AloneInv, NEW r \in Run, NEW g \in Grant, run[r].of = g, r \in lone, Step(r)
    PROVE  AloneInv' /\ (run'[r] = None => RightFor(g)')
<1>1. Busy = {r} /\ Refusing(r) /\ BuildingAlone(r) /\ WithdrawingAlone(r)
  BY DEF AloneInv
<1>2. lone \subseteq {r}
  BY <1>1 DEF AloneInv
<1>3. lone' \subseteq lone
  BY DEF Step, Refuse, Write, PutRule, Link, Permit, Record, Advertise, Prune, Unrule, Unwrite,
         Close, Settle, Unadvertise, Moves, Removes, Ends
<1>4. ASSUME IsOver(r) PROVE AloneInv'
  <2>1. r \notin lone'
    BY <1>1, <1>4, GoesOnOrIsOver DEF IsOver, GoesOn
  <2> QED BY <1>2, <1>3, <2>1 DEF AloneInv
<1>5. ASSUME GoesOn(r, run'[r].at) PROVE run'[r] # None /\ Busy' = {r}
  BY <1>1, <1>5 DEF GoesOn, Busy
<1>6. run[r].at \in Builds \union Withdrawals \union {"refuse"}
  BY <1>1 DEF Busy, AccessInv, TypeOK, Work, Builds, Withdrawals
<1>7. CASE run[r].at \in Builds
  <2>1. CASE GoesOn(r, run'[r].at) /\ run'[r].at \in Builds /\ BuildingAlone(r)'
    <3>1. Refusing(r)' /\ WithdrawingAlone(r)'
      BY <2>1 DEF Refusing, WithdrawingAlone, Builds, Withdrawals
    <3> QED BY <1>2, <1>3, <1>5, <2>1, <3>1 DEF AloneInv
  <2> QED BY <1>1, <1>4, <1>7, <2>1, BuildsAlone
<1>8. CASE run[r].at \in Withdrawals
  <2>1. CASE GoesOn(r, run'[r].at) /\ run'[r].at \in Withdrawals /\ WithdrawingAlone(r)'
    <3>1. Refusing(r)' /\ BuildingAlone(r)'
      BY <2>1 DEF Refusing, BuildingAlone, Builds, Withdrawals
    <3> QED BY <1>2, <1>3, <1>5, <2>1, <3>1 DEF AloneInv
  <2> QED BY <1>1, <1>4, <1>8, <2>1, WithdrawsAlone
<1>9. CASE run[r].at = "refuse"
  <2>1. Refuse(r)
    BY <1>9 DEF Step, Write, PutRule, Link, Permit, Record, Advertise, Prune, Unrule, Unwrite,
                Close, Settle, Unadvertise, At
  <2>2. IsOver(r)
    BY <2>1, <1>1, EndsNow DEF Refuse, AccessInv, Busy
  <2>3. status'[g] = "error" /\ wants'[g] = {}
    BY <1>1, <1>9, <2>1 DEF Refusing, Refuse, SetStatus, AccessInv, TypeOK
  <2> QED BY <1>4, <2>2, <2>3 DEF RightFor, Withdrawn
<1> QED BY <1>6, <1>7, <1>8, <1>9

\* What a run that nothing disturbs relies on.
THEOREM AloneInvariant == Spec => []AloneInv
<1>1. Init => AloneInv
  BY DEF Init, AloneInv
<1>2. AccessInv /\ AloneInv /\ [Next]_vars => AloneInv'
  <2> SUFFICES ASSUME AccessInv, AloneInv, [Next]_vars PROVE AloneInv'
    OBVIOUS
  <2>1. ASSUME NEW r \in Run, Step(r) PROVE AloneInv'
    <3>1. r \in Busy /\ run[r].of \in Grant
      BY <2>1, GoesOnOrIsOver DEF AccessInv, TypeOK, Work, Busy
    <3>2. CASE r \in lone
      BY <2>1, <3>1, <3>2, AloneStep
    <3>3. CASE r \notin lone
      <4>1. lone = {}
        BY <3>1, <3>3 DEF AloneInv
      <4>2. lone' = {}
        BY <2>1, <4>1 DEF Step, Refuse, Write, PutRule, Link, Permit, Record, Advertise, Prune,
               Unrule, Unwrite, Close, Settle, Unadvertise, Moves, Removes, Ends
      <4> QED BY <4>2 DEF AloneInv
    <3> QED BY <3>2, <3>3
  <2>2. ASSUME NEW r \in Run, NEW g \in Grant, Start(r, g) PROVE AloneInv'
    <3>1. CASE Busy = {}
      <4>1. lone' = {r} /\ run'[r] = Begins(g) /\ \A q \in Run \ {r} : run'[q] = run[q]
        BY <2>2, <3>1 DEF Start, AccessInv, TypeOK
      <4>2. Begins(g) # None
        BY WorkBegun, AccessAssumption
      <4>3. Busy' = {r}
        BY <3>1, <4>1, <4>2 DEF Busy
      <4>4. UNCHANGED <<status, wants, source, objects, rule, linked, allowed, recorded, advertised>>
        BY <2>2 DEF Start
      <4> QED BY <4>1, <4>3, <4>4, BeginsAlone DEF AloneInv
    <3>2. CASE Busy # {}
      BY <2>2, <3>2 DEF Start, AloneInv
    <3> QED BY <3>1, <3>2
  <2>3. ASSUME NEW r \in Run, Stops(r) PROVE AloneInv'
    <3>1. lone' = lone \ {r} /\ r \in Busy
      BY <2>3 DEF Stops, Ends, Busy
    <3>2. lone' = {}
      BY <3>1 DEF AloneInv
    <3> QED BY <3>2 DEF AloneInv
  <2>4. ASSUME NEW g \in Grant, Edit(g) PROVE AloneInv'
    BY <2>4 DEF Edit, AloneInv
  <2>5. CASE UNCHANGED vars
    BY <2>5 DEF AloneInv, Busy, Refusing, BuildingAlone, WithdrawingAlone, Withdrawn, Own, Closes,
                Others
  <2> QED BY <2>1, <2>2, <2>3, <2>4, <2>5 DEF Next
<1> QED BY <1>1, <1>2, AccessInvariant, PTL DEF Spec

\* A run that nothing disturbs leaves its grant built, refused or gone as it was asked,
\* whatever the runs before it left half done.
THEOREM LoneRunsAreRight == Spec => LoneRunIsRight
<1>1. AccessInv /\ AloneInv /\ [Next]_vars =>
        [\A g \in Grant : \A r \in Of(g) :
            r \in lone /\ run'[r] = None /\ events' = events => RightFor(g)']_vars
  <2> SUFFICES ASSUME AccessInv, AloneInv, Next, NEW g \in Grant, NEW r \in Of(g), r \in lone,
                      run'[r] = None, events' = events
               PROVE  RightFor(g)'
    OBVIOUS
  <2>1. Busy = {r} /\ r \in Run /\ run[r].of = g /\ run[r] # None
    BY DEF AloneInv, Of
  <2>2. events \in Nat
    BY DEF AccessInv, TypeOK
  <2>3. \A h \in Grant : ~Edit(h)
    BY <2>2 DEF Edit, Happens
  <2>4. \A q \in Run : ~Stops(q)
    BY <2>2 DEF Stops, Happens
  <2>5. ASSUME NEW q \in Run, NEW h \in Grant, Start(q, h) PROVE FALSE
    <3>1. run'[r] = run[r] \/ (q = r /\ run[r] = None)
      BY <2>1, <2>5 DEF Start, AccessInv, TypeOK
    <3> QED BY <2>1, <3>1
  <2>6. PICK q \in Run : Step(q)
    BY <2>3, <2>4, <2>5 DEF Next
  <2>7. q = r
    BY <2>1, <2>6, GoesOnOrIsOver
  <2> QED BY <2>1, <2>6, <2>7, AloneStep
<1> QED BY <1>1, AccessInvariant, AloneInvariant, PTL DEF Spec, LoneRunIsRight

===============================================================================
