------------------------------ MODULE AppAccess ------------------------------
(***************************************************************************)
(* The generator of access grants (generators/generate_app_access.py): its *)
(* runs, started by events on one branch, build or withdraw the firewall   *)
(* objects of each grant on one application, name the grant's source in    *)
(* the application's policy and its VIP in the border leaf's hostvars.     *)
(* Runs overlap, of the same grant routinely, and any of them may stop.    *)
(*                                                                         *)
(* A rule references one object for each Item: the address-book entry of   *)
(* the application's VIP, and one service for each port.                   *)
(***************************************************************************)
EXTENDS Naturals, FiniteSets

CONSTANTS
    Grant,
    Run,             \* as many runs as are at work at once
    Item, Vip,       \* the VIP and the ports of the application
    Prefix,          \* the sources
    Baseline,        \* who owns what nobody generated
    Predefined,      \* the items that have a hand-written object
    Declared,        \* the sources declared on the application by hand
    Merged,          \* the grants that were built and merged before the branch was cut
    Asked, Sources,  \* what the grants first ask for, and from where
    Changes,         \* what a request may change it to
    MaxEvents,       \* bound on requests, faults and runs started by hand
    None

Object == (Grant \union {Baseline}) \X Item

VARIABLES
    status, wants, source,   \* what each grant asks for
    objects,                 \* address-book entries and services
    rule,                    \* what each grant's rule was written to reference
    linked,                  \* the grants whose rule is in their granted_rules
    group,                   \* what each grant's last run owned, of objects
    allowed,                 \* the application's allowed_source_prefixes
    recorded,                \* the grants that recorded their source
    advertised,              \* the grants whose sequence is in the leaf's hostvars
    due,                     \* the grants an event asked a run of
    run,                     \* the runs at work
    events,                  \* requests, faults and runs started by hand so far
    revoked,                 \* ghost: the grants somebody withdrew
    apart, steady,           \* ghosts: no run met one of another grant or stopped; no
                             \* request met a run of its grant
    lone                     \* ghost: the run that was alone from its start on

request  == <<wants, source>>
firewall == <<objects, rule, linked, group>>
policy   == <<allowed, recorded>>
ghosts   == <<revoked, apart, steady>>
vars     == <<status, request, firewall, policy, advertised, due, run, events, ghosts, lone>>

Status == {"provisioning", "active", "error", "decommissioning", "decommissioned"}

\* is_withdrawn
Withdrawn(g) == status[g] \in {"decommissioning", "decommissioned"}

\* What a run read before it writes anything, and how far it is.
Work == [of : Grant,
         at : {"refuse", "write", "rule", "link", "permit", "record", "advertise", "end",
               "unrule", "unwrite", "close", "settle", "unadvertise"},
         uses : SUBSET Object,      \* the objects its rule references, or it removes
         seen : BOOLEAN,            \* the rule is linked, the application allows the source
         may : BOOLEAN,             \* the source may be recorded, or closed
         adv : SUBSET Grant,
         removed : BOOLEAN]

ASSUME AccessAssumption ==
    /\ Vip \in Item /\ Predefined \subseteq Item /\ Declared \subseteq Prefix
    /\ Baseline \notin Grant
    /\ Asked \in [Grant -> SUBSET Item] /\ Changes \subseteq SUBSET Item
    /\ Sources \subseteq [Grant -> Prefix] /\ Merged \subseteq Grant
    /\ MaxEvents \in Nat
    /\ None \notin Work /\ \A these \in SUBSET Object : these # None

TypeOK ==
    /\ status \in [Grant -> Status]
    /\ wants \in [Grant -> SUBSET Item] /\ source \in [Grant -> Prefix]
    /\ objects \subseteq Object
    /\ rule \in [Grant -> (SUBSET Object) \union {None}]
    /\ linked \subseteq Grant /\ recorded \subseteq Grant /\ advertised \subseteq Grant
    /\ group \in [Grant -> SUBSET Object]
    /\ allowed \subseteq Prefix
    /\ due \subseteq Grant
    /\ run \in [Run -> Work \union {None}]
    /\ events \in 0 .. MaxEvents
    /\ revoked \subseteq Grant /\ apart \in BOOLEAN /\ steady \in BOOLEAN /\ lone \subseteq Run
    /\ linked \subseteq {g \in Grant : rule[g] # None}
    /\ \A g \in Grant : group[g] \subseteq {o \in objects : o[1] = g}

\* The grants of the branch the checks and the events are on: those merged before, and
\* those created on it, whose creation fires their first run.
Init ==
    /\ status = [g \in Grant |-> IF g \in Merged THEN "active" ELSE "provisioning"]
    /\ wants = Asked /\ source \in Sources
    /\ group = [g \in Grant |-> IF g \in Merged THEN {g} \X (Asked[g] \ Predefined) ELSE {}]
    /\ objects = ({Baseline} \X Predefined) \union UNION {group[g] : g \in Merged}
    /\ rule = [g \in Grant |-> IF g \in Merged
                               THEN group[g] \union ({Baseline} \X (Asked[g] \intersect Predefined))
                               ELSE None]
    /\ linked = Merged
    /\ recorded = {g \in Merged : source[g] \notin Declared}
    /\ allowed = Declared \union {source[g] : g \in Merged}
    /\ advertised = Merged
    /\ due = Grant \ Merged
    /\ run = [r \in Run |-> None]
    /\ events = 0
    /\ revoked = {} /\ apart = TRUE /\ steady = TRUE /\ lone = {}

Of(g) == {r \in Run : run[r] # None /\ run[r].of = g}
Busy == {r \in Run : run[r] # None}

-----------------------------------------------------------------------------
(* Events.                                                                  *)

Happens == events < MaxEvents /\ events' = events + 1

\* A request changes a grant: withdrawn, or other ports, or none that are valid.
\* The fields the event rules watch; one run is due however many of them changed.
Edit(g) ==
    /\ Happens
    /\ \/ /\ status' = [status EXCEPT ![g] = "decommissioning"]
          /\ revoked' = revoked \union {g}
          /\ UNCHANGED wants
       \/ \E p \in Changes : wants' = [wants EXCEPT ![g] = p] /\ UNCHANGED <<status, revoked>>
    /\ due' = due \union {g}
    /\ steady' = (steady /\ Of(g) = {}) /\ lone' = {}
    /\ UNCHANGED <<source, firewall, policy, advertised, run, apart>>

-----------------------------------------------------------------------------
(* A run reads everything, then writes.                                     *)

\* index_address_book, index_tcp_services: of several objects for one item, the last
\* that is listed.
Existing(i) == {o \in objects : o[2] = i}
Resolved(g, i) == IF Existing(i) = {} THEN <<g, i>> ELSE CHOOSE o \in Existing(i) : TRUE

Own(g, these) == {o \in these : o[1] = g}

\* Mutant: what the grant made is what its last run owned.
NamedByGroup(g) == group[g]

\* What a withdrawal deletes: by the generated name.
Named(g) == Own(g, objects)

\* prefixes_other_grants_record
Others(g) == {h \in recorded \ {g} : source[h] = source[g]}

\* Mutant: whatever the application allows is recorded as the grant's.
MayRecordAll(g) == TRUE

\* Only what this run adds or another grant recorded is a grant's.
MayRecord(g) == source[g] \notin allowed \/ Others(g) # {}

\* Mutant: a source is closed whoever else needs it.
ClosesAnyway(g) == g \in recorded

Closes(g) == g \in recorded /\ \A h \in Others(g) : Withdrawn(h)

Begins(g) ==
    [of |-> g,
     at |-> IF Withdrawn(g) THEN "unrule" ELSE IF wants[g] = {} THEN "refuse" ELSE "write",
     uses |-> IF Withdrawn(g) THEN Named(g) ELSE {Resolved(g, i) : i \in wants[g]},
     seen |-> IF Withdrawn(g) THEN g \in linked ELSE source[g] \in allowed,
     may |-> IF Withdrawn(g) THEN Closes(g) ELSE MayRecord(g),
     adv |-> advertised,
     removed |-> FALSE]

\* By an event, or by hand, by the portal or by the checks of the proposed change.
Start(r, g) ==
    /\ run[r] = None
    /\ IF g \in due THEN UNCHANGED events ELSE Happens
    /\ run' = [run EXCEPT ![r] = Begins(g)]
    /\ due' = due \ {g}
    /\ apart' = (apart /\ Busy \subseteq Of(g))
    /\ lone' = IF Busy = {} THEN {r} ELSE {}
    /\ UNCHANGED <<status, request, firewall, policy, advertised, revoked, steady>>

At(r, here) == run[r] # None /\ run[r].at = here
Moves(r, there) == run' = [run EXCEPT ![r].at = there] /\ UNCHANGED lone
Ends(r) == run' = [run EXCEPT ![r] = None] /\ lone' = lone \ {r}

\* Mutant: the status is saved whether or not it changes.
SetStatusAlways(g, s) ==
    /\ status' = [status EXCEPT ![g] = s]
    /\ due' = due \union {g}

\* _set_status: a change of status is an event.
SetStatus(g, s) ==
    /\ status' = [status EXCEPT ![g] = s]
    /\ due' = IF status[g] = s THEN due ELSE due \union {g}

\* validate_model refuses, and the run fails.
Refuse(r) ==
    /\ At(r, "refuse")
    /\ SetStatus(run[r].of, "error")
    /\ Ends(r)
    /\ UNCHANGED <<request, firewall, policy, advertised, events, ghosts>>

\* _upsert_vip_entry, _upsert_services: what is the grant's own is written every time.
Write(r) ==
    /\ At(r, "write")
    /\ objects' = objects \union Own(run[r].of, run[r].uses)
    /\ Moves(r, "rule")
    /\ UNCHANGED <<status, request, rule, linked, group, policy, advertised, due, events, ghosts>>

PutRule(r) ==
    /\ At(r, "rule")
    /\ rule' = [rule EXCEPT ![run[r].of] = run[r].uses]
    /\ Moves(r, "link")
    /\ UNCHANGED <<status, request, objects, linked, group, policy, advertised, due, events, ghosts>>

\* _link_granted_rules, _set_status.  A rule that was removed meanwhile cannot be
\* linked: the run fails.
Link(r) ==
    LET g == run[r].of IN
    /\ At(r, "link")
    /\ IF rule[g] = None
       THEN Ends(r) /\ UNCHANGED <<status, due, linked>>
       ELSE Moves(r, "permit") /\ linked' = linked \union {g} /\ SetStatus(g, "active")
    /\ UNCHANGED <<request, objects, rule, group, policy, advertised, events, ghosts>>

\* _permit_source
Permit(r) ==
    LET w == run[r] IN
    /\ At(r, "permit")
    /\ allowed' = IF w.seen THEN allowed ELSE allowed \union {source[w.of]}
    /\ Moves(r, IF w.may THEN "record" ELSE "advertise")
    /\ UNCHANGED <<status, request, firewall, recorded, advertised, due, events, ghosts>>

Record(r) ==
    /\ At(r, "record")
    /\ recorded' = recorded \union {run[r].of}
    /\ Moves(r, "advertise")
    /\ UNCHANGED <<status, request, firewall, allowed, advertised, due, events, ghosts>>

\* _write_hostvars replaces all of them by what this run read, changed.
Advertise(r) ==
    /\ At(r, "advertise")
    /\ advertised' = run[r].adv \union {run[r].of}
    /\ Moves(r, "end")
    /\ UNCHANGED <<status, request, firewall, policy, due, events, ghosts>>

\* Mutant: an object that is referenced joins the group.
TouchedReferenced(w) == w.uses

\* Mutant: an object that is there already is only referenced.
TouchedNew(w) == Own(w.of, w.uses) \ group[w.of]

Touched(w) == Own(w.of, w.uses)

\* What the last run owned and this one did not write is deleted.
Prune(r) ==
    LET g == run[r].of IN
    /\ At(r, "end")
    /\ objects' = objects \ (group[g] \ Touched(run[r]))
    /\ group' = [group EXCEPT ![g] = Touched(run[r]) \intersect objects]
    /\ Ends(r)
    /\ UNCHANGED <<status, request, rule, linked, policy, advertised, due, events, ghosts>>

-----------------------------------------------------------------------------
(* _withdraw.                                                               *)

Removes(r, something, there) ==
    /\ run' = [run EXCEPT ![r].at = there, ![r].removed = @ \/ something]
    /\ UNCHANGED lone

\* _delete_if_present: nothing to count when a concurrent run was first.
Unrule(r) ==
    LET g == run[r].of
        there == run[r].seen /\ rule[g] # None IN
    /\ At(r, "unrule")
    /\ rule' = IF there THEN [rule EXCEPT ![g] = None] ELSE rule
    /\ linked' = IF there THEN linked \ {g} ELSE linked
    /\ Removes(r, there, "unwrite")
    /\ UNCHANGED <<status, request, objects, group, policy, advertised, due, events, ghosts>>

Unwrite(r) ==
    LET w == run[r] IN
    /\ At(r, "unwrite")
    /\ objects' = objects \ w.uses
    /\ group' = [group EXCEPT ![w.of] = @ \ w.uses]
    /\ Removes(r, w.uses \intersect objects # {}, "close")
    /\ UNCHANGED <<status, request, rule, linked, policy, advertised, due, events, ghosts>>

\* _revoke_source, and nothing more when there was nothing to remove.
Close(r) ==
    LET w == run[r] IN
    /\ At(r, "close")
    /\ allowed' = IF w.may THEN allowed \ {source[w.of]} ELSE allowed
    /\ IF w.removed \/ w.may THEN Moves(r, "settle") ELSE Ends(r)
    /\ UNCHANGED <<status, request, firewall, recorded, advertised, due, events, ghosts>>

\* Mutant: what is withdrawn is ready to be ordered again.
SettledAsOrdered == "provisioning"

SettledAs == "decommissioned"

Settle(r) ==
    /\ At(r, "settle")
    /\ SetStatus(run[r].of, SettledAs)
    /\ Moves(r, "unadvertise")
    /\ UNCHANGED <<request, firewall, policy, advertised, events, ghosts>>

Unadvertise(r) ==
    LET w == run[r] IN
    /\ At(r, "unadvertise")
    /\ advertised' = IF w.of \in w.adv THEN w.adv \ {w.of} ELSE advertised
    /\ Ends(r)
    /\ UNCHANGED <<status, request, firewall, policy, due, events, ghosts>>

-----------------------------------------------------------------------------
\* An exception or a killed task: the group of the grant is left as it was.
Stops(r) ==
    /\ Happens /\ run[r] # None
    /\ Ends(r) /\ apart' = FALSE
    /\ UNCHANGED <<status, request, firewall, policy, advertised, due, revoked, steady>>

Step(r) ==
    \/ Refuse(r) \/ Write(r) \/ PutRule(r) \/ Link(r) \/ Permit(r)
    \/ Record(r) \/ Advertise(r) \/ Prune(r)
    \/ Unrule(r) \/ Unwrite(r) \/ Close(r) \/ Settle(r) \/ Unadvertise(r)

Next ==
    \/ \E g \in Grant : Edit(g)
    \/ \E r \in Run : Step(r) \/ Stops(r) \/ \E g \in Grant : Start(r, g)

Spec == Init /\ [][Next]_vars

\* The task workers take up what is due and run it to its end.
FairSpec ==
    /\ Spec
    /\ \A r \in Run : WF_vars(Step(r))
    /\ WF_vars(\E r \in Run, g \in Grant : Start(r, g))

-----------------------------------------------------------------------------
\* What was written by hand is kept: no object, and no source of the application,
\* that a grant only uses is ever taken for its own and removed with it.
HandWrittenKept ==
    /\ {Baseline} \X Predefined \subseteq objects
    /\ Declared \subseteq allowed
    /\ \A g \in recorded : source[g] \notin Declared

Covers(g) == rule[g] # None /\ {o[2] : o \in rule[g]} = wants[g]

\* A run that nothing disturbs puts its grant right, whatever overlapped or stopped
\* before it.
RightFor(g) ==
    IF Withdrawn(g)
    THEN /\ Own(g, objects) = {} /\ g \notin linked
         /\ g \in recorded /\ (\A h \in Others(g) : Withdrawn(h)) => source[g] \notin allowed
    ELSE IF wants[g] = {} THEN status[g] = "error"
    ELSE /\ status[g] = "active"
         /\ Covers(g) /\ rule[g] \subseteq objects /\ g \in linked
         /\ source[g] \in allowed /\ g \in advertised

LoneRunIsRight ==
    [][\A g \in Grant : \A r \in Of(g) : r \in lone /\ run'[r] = None /\ events' = events => RightFor(g)']_vars

\* Runs at work on a grant at the same time, as long as none stops, no request comes
\* between them and no other grant's run is at work too, leave it as one would.
AtRest == Busy = {} /\ due = {}
Settled == apart /\ steady /\ AtRest

\* A grant that is live has its complete rule, its route and its source; what may be
\* missing is an object its rule shares with another grant that was since withdrawn.
LiveIsBuilt ==
    \A g \in Grant : Settled /\ ~Withdrawn(g) /\ wants[g] # {} =>
        /\ status[g] = "active" /\ Covers(g) /\ g \in linked
        /\ \A o \in rule[g] : o[1] \in {g, Baseline} => o \in objects
        /\ source[g] \in allowed /\ g \in advertised

\* A grant that somebody withdrew stays so and leaves nothing behind but a source somebody else needs.
WithdrawnIsGone ==
    \A g \in Grant : Settled /\ g \in revoked =>
        /\ Withdrawn(g) /\ rule[g] = None /\ Own(g, objects) = {} /\ g \notin advertised
        /\ source[g] \in allowed =>
              source[g] \in Declared \/ \E h \in Others(g) : ~Withdrawn(h)

\* The runs that runs themselves fire come to an end, unless a grant was changed while
\* it was being built or withdrawn.
ComesToRest == []<>AtRest \/ <>~steady
===============================================================================
