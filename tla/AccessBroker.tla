---------------------------- MODULE AccessBroker ----------------------------
(***************************************************************************)
(* The lab's access broker.  The portal writes AppAccess objects           *)
(* (lab/k8s/access/portal/portal.py); Crossplane composes a FirewallAccess *)
(* from each approved one (lab/crossplane/access); and the controller      *)
(* (lab/k8s/access/fw-controller/controller.py) polls those objects and    *)
(* keeps one security policy per object on the firewall, one pass at a     *)
(* time: list the objects, list the policies, then each object, then the   *)
(* policies nobody wants.  A pass works on what it listed when it began.   *)
(*                                                                         *)
(* A policy needs the address and the applications of its grant, which are *)
(* created and deleted in the same commits and are not variables: what     *)
(* counts is that a commit deleting them is refused while a policy of      *)
(* another pair of zones still uses them.                                  *)
(***************************************************************************)
EXTENDS Naturals

CONSTANTS
    Grant,           \* the catalogue's entries, in the order the API lists them
    Pair, Port,      \* pairs of zones, TCP ports
    DefaultPair,     \* branch -> k8s-prod, assumed when no policy is recorded
    Catalogue,       \* what may be asked for under each name
    NeedsApproval,   \* requiresApproval
    Rejected,        \* what Junos never accepts
    None

Access == [pair : Pair, ports : SUBSET Port \ {{}}]

Object == [access : Access, finalizer : BOOLEAN, deleting : BOOLEAN,
           ready : {"unknown", "true", "false"},
           policyRef : Pair \union {None}, observed : Access \union {None}]

ASSUME BrokerAssumption ==
    /\ Grant \subseteq Nat
    /\ DefaultPair \in Pair
    /\ Catalogue \in [Grant -> SUBSET Access]
    /\ None \notin Grant \union Pair
    /\ None \notin Object

VARIABLES
    app,         \* AppAccess: what is asked for, and whether it is approved
    object,      \* FirewallAccess
    rule,        \* the ports each policy permits, by grant and pair of zones
    calm,        \* nobody asks, edits or fails any more
    stage,       \* "idle", "listed", "items" or "orphans"
    items,       \* the listed objects still to be seen to
    wanted,      \* those that are to have a policy
    managed,     \* the policies found on the firewall
    current,     \* the object in hand
    step,        \* what was done to it: "held", "applied", "refused", "removed"
    approved,    \* ghost: the names ever approved
    leaked       \* ghost: released with a policy left

world == <<app, calm, approved>>
inHand == <<current, step>>
pass  == <<stage, items, wanted, managed, inHand>>
vars  == <<world, object, rule, pass, leaked>>

Nothing == [g \in Grant |-> None]

TypeOK ==
    /\ app \in [Grant -> [access : Access, approved : BOOLEAN] \union {None}]
    /\ object \in [Grant -> Object \union {None}]
    /\ rule \in [Grant -> [Pair -> SUBSET Port]]
    /\ calm \in BOOLEAN
    /\ stage \in {"idle", "listed", "items", "orphans"}
    /\ items \in [Grant -> Object \union {None}]
    /\ wanted \subseteq Grant
    /\ managed \in [Grant -> Pair \union {None}]
    /\ current \in Grant \union {None}
    /\ step \in {"none", "held", "applied", "refused", "removed"}
    /\ approved \subseteq Grant
    /\ leaked \subseteq Grant
    /\ current = None <=> step = "none"
    /\ current # None => stage = "items" /\ items[current] # None
    /\ stage \in {"idle", "orphans"} => items = Nothing
    /\ stage \in {"idle", "listed"} => wanted = {} /\ managed = Nothing

Init ==
    /\ app = Nothing /\ object = Nothing
    /\ rule = [g \in Grant |-> [p \in Pair |-> {}]]
    /\ calm = FALSE
    /\ stage = "idle" /\ items = Nothing /\ wanted = {} /\ managed = Nothing
    /\ current = None /\ step = "none"
    /\ approved = {} /\ leaked = {}

-----------------------------------------------------------------------------
(* The portal's three buttons, and an AppAccess edited in place.            *)

Written(g, access, ok) ==
    /\ ~calm
    /\ app' = [app EXCEPT ![g] = [access |-> access, approved |-> ok]]
    /\ approved' = IF ok THEN approved \union {g} ELSE approved
    /\ UNCHANGED <<calm, object, rule, pass, leaked>>

\* /request: an entry that needs no approval skips the gate.
Request(g) ==
    /\ app[g] = None
    /\ \E access \in Catalogue[g] : Written(g, access, g \notin NeedsApproval)

Approve(g) == app[g] # None /\ Written(g, app[g].access, TRUE)

Edit(g) ==
    /\ app[g] # None
    /\ \E access \in Catalogue[g] \ {app[g].access} : Written(g, access, app[g].approved)

Revoke(g) ==
    /\ ~calm /\ app[g] # None
    /\ app' = [app EXCEPT ![g] = None]
    /\ UNCHANGED <<calm, approved, object, rule, pass, leaked>>

-----------------------------------------------------------------------------
(* Crossplane and the Kubernetes API.                                       *)

\* Mutant: the composition leaves out its gate.
DesiredUnapproved(g) == app[g] # None

\* The composition emits a FirewallAccess only for an approved request.
Desired(g) == app[g] # None /\ app[g].approved

Fresh(access) ==
    [access |-> access, finalizer |-> FALSE, deleting |-> FALSE,
     ready |-> "unknown", policyRef |-> None, observed |-> None]

Created(g) ==
    /\ Desired(g) /\ object[g] = None
    /\ object' = [object EXCEPT ![g] = Fresh(app[g].access)]

Updated(g) ==
    /\ Desired(g) /\ object[g] # None
    /\ object[g].access # app[g].access
    /\ object' = [object EXCEPT ![g].access = app[g].access]

\* A finalizer keeps a deleted object until it is taken off.
Deleted(g) ==
    /\ ~Desired(g) /\ object[g] # None
    /\ ~object[g].deleting
    /\ object' = [object EXCEPT ![g] = IF @.finalizer THEN [@ EXCEPT !.deleting = TRUE] ELSE None]

Compose(g) ==
    /\ Created(g) \/ Updated(g) \/ Deleted(g)
    /\ UNCHANGED <<world, rule, pass, leaked>>

-----------------------------------------------------------------------------
(* One pass of the controller.                                              *)

\* Mutant: the object in hand outlives the pass.
PassOverInHand ==
    /\ stage' = "idle" /\ items' = Nothing /\ wanted' = {} /\ managed' = Nothing
    /\ UNCHANGED inHand

PassOver ==
    /\ stage' = "idle" /\ items' = Nothing /\ wanted' = {} /\ managed' = Nothing
    /\ current' = None /\ step' = "none"

\* Any request fails, or the process is killed: the pass ends where it is.
PassFails ==
    /\ ~calm /\ stage # "idle"
    /\ PassOver
    /\ UNCHANGED <<world, object, rule, leaked>>

\* What a pass uses of an object it listed.
Listed(o) == IF o = None THEN None ELSE [o EXCEPT !.ready = "unknown", !.observed = None]

ListObjects ==
    /\ stage = "idle"
    /\ stage' = "listed"
    /\ items' = [g \in Grant |-> Listed(object[g])]
    /\ UNCHANGED <<world, object, rule, wanted, managed, inHand, leaked>>

\* list_managed is keyed by name: of a grant's policies in two pairs, one is seen.
\* A listing cut short by the read limit is taken for the whole.
ListManaged ==
    /\ stage = "listed"
    /\ stage' = "items"
    /\ managed' \in {m \in [Grant -> Pair \union {None}] : \A g \in Grant :
          IF m[g] = None THEN ~calm \/ \A p \in Pair : rule[g][p] = {} ELSE rule[g][m[g]] # {}}
    /\ UNCHANGED <<world, object, rule, items, wanted, inHand, leaked>>

IsNext(g) ==
    /\ stage = "items" /\ current = None /\ items[g] # None
    /\ \A h \in Grant : h < g => items[h] = None

HasRule(g) == \E p \in Pair : rule[g][p] # {}

\* Mutant: the policy goes on before the object is held.
HoldLater(g) == UNCHANGED object

\* The finalizer is added before anything reaches the firewall.
HoldIt(g) == object' = [object EXCEPT ![g].finalizer = TRUE]

Hold(g) ==
    /\ IsNext(g) /\ ~items[g].deleting
    /\ IF items[g].finalizer THEN UNCHANGED object ELSE object[g] # None /\ HoldIt(g)
    /\ current' = g /\ step' = "held"
    /\ UNCHANGED <<world, rule, stage, items, wanted, managed, leaked>>

\* The object went since it was listed: the patch is refused, and the pass ends.
HoldRefused(g) ==
    /\ IsNext(g) /\ ~items[g].deleting /\ ~items[g].finalizer
    /\ object[g] = None
    /\ PassOver
    /\ UNCHANGED <<world, object, rule, leaked>>

\* Mutant: only what was applied is wanted.
WantedNoMore(g) == wanted

\* A refused object is wanted all the same: the sweep leaves its policy.
WantedStill(g) == wanted \union {g}

\* apply sets what the object asks for and deletes nothing: ports and pairs it
\* asked for before stay.
Apply ==
    LET access == items[current].access IN
    /\ current # None /\ step = "held"
    /\ access \notin Rejected
    /\ rule' = [rule EXCEPT ![current][access.pair] = @ \union access.ports]
    /\ step' = "applied" \/ (~calm /\ step' = "refused")  \* no answer within the limit
    /\ wanted' = wanted \union {current}
    /\ leaked' = leaked \ {current}
    /\ UNCHANGED <<world, object, stage, items, managed, current>>

ApplyRefused ==
    /\ current # None /\ step = "held"
    /\ ~calm \/ items[current].access \in Rejected
    /\ step' = "refused"
    /\ wanted' = WantedStill(current)
    /\ UNCHANGED <<world, object, rule, stage, items, managed, current, leaked>>

\* set_ready: what is reported is what was listed, not what the object says now.
SetReady ==
    /\ current # None /\ step \in {"applied", "refused"}
    /\ IF object[current] = None THEN UNCHANGED object
       ELSE \/ object' = [object EXCEPT ![current].ready = IF step = "applied" THEN "true" ELSE "false",
                                        ![current].policyRef = items[current].access.pair,
                                        ![current].observed = items[current].access]
            \/ ~calm /\ UNCHANGED object
    /\ items' = [items EXCEPT ![current] = None]
    /\ current' = None /\ step' = "none"
    /\ UNCHANGED <<world, rule, stage, wanted, managed, leaked>>

\* A commit that deletes the address is refused while another policy uses it,
\* and remove never looks at the answer.
Removed(g, pair) ==
    \/ /\ \A p \in Pair \ {pair} : rule[g][p] = {}
       /\ rule' = [rule EXCEPT ![g][pair] = {}]
    \/ /\ ~calm \/ \E p \in Pair \ {pair} : rule[g][p] # {}
       /\ UNCHANGED rule

\* The pair is the recorded one, or the default.
RecordedPair(o) == IF o.policyRef = None THEN DefaultPair ELSE o.policyRef

Remove(g) ==
    /\ IsNext(g) /\ items[g].deleting
    /\ Removed(g, RecordedPair(items[g]))
    /\ current' = g /\ step' = "removed"
    /\ UNCHANGED <<world, object, stage, items, wanted, managed, leaked>>

Release ==
    /\ current # None /\ step = "removed"
    /\ object' = [object EXCEPT ![current] = None]
    /\ leaked' = IF HasRule(current) THEN leaked \union {current} ELSE leaked
    /\ items' = [items EXCEPT ![current] = None]
    /\ current' = None /\ step' = "none"
    /\ UNCHANGED <<world, rule, stage, wanted, managed>>

ItemsDone ==
    /\ stage = "items" /\ items = Nothing
    /\ stage' = "orphans"
    /\ UNCHANGED <<world, object, rule, items, wanted, managed, inHand, leaked>>

\* Mutant: the sweep is forgotten.
OrphansForgotten == {}

\* Found when the pass began, and wanted by no object it listed.
Orphans == {g \in Grant \ wanted : managed[g] # None}

Prune(g) ==
    /\ stage = "orphans" /\ g \in Orphans
    /\ Removed(g, managed[g])
    /\ managed' = [managed EXCEPT ![g] = None]
    /\ UNCHANGED <<world, object, stage, items, wanted, inHand, leaked>>

PassEnds ==
    /\ stage = "orphans" /\ Orphans = {}
    /\ PassOver
    /\ UNCHANGED <<world, object, rule, leaked>>

Reconcile ==
    \/ ListObjects \/ ListManaged \/ ItemsDone \/ PassEnds
    \/ \E g \in Grant : Hold(g) \/ HoldRefused(g) \/ Remove(g) \/ Prune(g)
    \/ Apply \/ ApplyRefused \/ SetReady \/ Release

-----------------------------------------------------------------------------
(* Everybody else.                                                          *)

\* Somebody deletes a generated policy in the Junos CLI.
EditByHand(g, p) ==
    /\ ~calm /\ rule[g][p] # {}
    /\ rule' = [rule EXCEPT ![g][p] = {}]
    /\ UNCHANGED <<world, object, pass, leaked>>

\* Between two passes: a pass can end without a fault before it all the same.
CalmDown ==
    /\ ~calm /\ calm' = TRUE
    /\ stage = "idle"
    /\ UNCHANGED <<app, approved, object, rule, pass, leaked>>

Next ==
    \/ Reconcile \/ PassFails \/ CalmDown
    \/ \E g \in Grant :
          \/ Request(g) \/ Approve(g) \/ Edit(g) \/ Revoke(g) \/ Compose(g)
          \/ \E p \in Pair : EditByHand(g, p)

Spec == Init /\ [][Next]_vars

\* The loop of main and Crossplane's go on for ever.
FairSpec == Spec /\ WF_vars(Reconcile) /\ \A g \in Grant : WF_vars(Compose(g))

-----------------------------------------------------------------------------
\* The firewall permits nothing under a name that was never approved, whatever
\* was asked for, edited, revoked and asked for again between the portal,
\* Crossplane and a pass.
NothingUnapproved == \A g \in Grant : HasRule(g) => g \in approved

Held(g) == object[g] # None /\ object[g].finalizer

\* A policy without an object to answer for it is only ever one whose removal
\* was refused: no crash between the firewall and Kubernetes leaves one.
RuleHasItsObject ==
    \A g \in Grant : HasRule(g) /\ ~Held(g) => g \in leaked

\* No step of a pass takes a port from under an object that is held and not being
\* deleted, even if it was not there, or was another, when the pass listed it.
LiveGrantKeepsItsRule ==
    [][pass' # pass => \A g \in Grant : Held(g) /\ ~object[g].deleting =>
          \A p \in Pair : rule[g][p] \subseteq rule'[g][p]]_vars

\* Policies in two pairs of zones: each keeps the other from being removed.
Straddles(g) ==
    \E p, q \in Pair : p # q /\ rule[g][p] # {} /\ rule[g][q] # {}

Granted(g) ==
    /\ object[g] # None /\ ~object[g].deleting
    /\ object[g].observed = app[g].access
    /\ IF app[g].access \in Rejected THEN object[g].ready = "false"
       ELSE /\ object[g].ready = "true"
            /\ app[g].access.ports \subseteq rule[g][app[g].access.pair]

Withdrawn(g) == object[g] = None /\ (HasRule(g) => Straddles(g))

\* Once nothing more is asked, edited or failing, every approved grant is on the
\* firewall and reported so, or rejected and reported so whatever the others do;
\* and every other is off it for good, the ones that straddle two pairs excepted.
Settled == \A g \in Grant : IF Desired(g) THEN Granted(g) ELSE Withdrawn(g)
ComesToRest == calm ~> []Settled
===============================================================================
