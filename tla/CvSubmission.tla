---------------------------- MODULE CvSubmission ----------------------------
(***************************************************************************)
(* One proposed change and its CloudVision workspace: the check that       *)
(* deploys and builds it while the change is under review                  *)
(* (checks/cv_config_check.py), and the deliveries of the merge event,     *)
(* duplicates and manual retries included, that submit it                  *)
(* (checks/cv_workspace_lifecycle.py).  Nothing serialises the deliveries: *)
(* they meet in the workspace on CloudVision, in its tracking record, and  *)
(* in the threads of the proposed change.  Any of them stops at any step.  *)
(***************************************************************************)
EXTENDS Naturals, Sequences

CONSTANTS
    Delivery,        \* runs of the submission handler
    Check,           \* the run of cv-config-validation
    None

Actor == Delivery \union {Check}

VARIABLES
    cv,              \* the workspace's state on CloudVision
    record,          \* the CloudvisionWorkspace, on the branch and, once merged, on main
    threads,         \* the change's threads that carry the workspace's label
    merged,          \* the proposed change is
    calm,            \* no fault and no overlap any more
    pc,              \* each actor's next step
    known,           \* the thread each actor's record names, 0 for none
    thread,          \* the thread each actor works on, 0 for none
    sawUrl,          \* whether that thread had its URL comment when looked up
    outcome,         \* what each actor has to say
    overlapped       \* ghost: two actors were at the threads at once

intent == <<merged, calm>>
actor  == <<known, thread, sawUrl, outcome>>
vars   == <<cv, record, threads, intent, pc, actor, overlapped>>

Status == {"built", "abandoned", "submitted", "submit_failed"}
Record == [status : Status, thread : Nat]

ASSUME SubmissionAssumption == Check \notin Delivery /\ None \notin Record

Outcome == {"none", "built", "abandoned", "success", "already", "failed"}
\* How many URL comments (2 for several), and whether its success or already
\* comment is there.
Thread == [urls : 0 .. 2, done : BOOLEAN, resolved : BOOLEAN]

SubmitReady == {"built", "submit_failed"}

\* Between finding a thread and having written what it lacks.
AtThreads(a) == pc[a] \in {"ensure", "url"}

TypeOK ==
    /\ cv \in {"absent", "pending", "built", "failed", "submitted"}
    /\ record \in Record \union {None}
    /\ record # None => record.thread <= Len(threads)
    /\ threads \in Seq(Thread)
    /\ merged \in BOOLEAN /\ calm \in BOOLEAN
    /\ pc \in [Actor -> {"idle", "deploy", "track", "query", "submit", "save",
                         "look", "ensure", "url", "store", "comment", "resolve"}]
    /\ known \in [Actor -> 0 .. Len(threads)]
    /\ thread \in [Actor -> 0 .. Len(threads)]
    /\ sawUrl \in [Actor -> BOOLEAN]
    /\ outcome \in [Actor -> Outcome]
    /\ overlapped \in BOOLEAN
    /\ \A a \in Actor : pc[a] \in {"url", "store", "comment", "resolve"} => thread[a] # 0
    /\ pc[Check] \in {"look", "ensure", "url", "store"} => record # None
    /\ pc[Check] = "track" => outcome[Check] \in {"built", "abandoned"}
    /\ \A d \in Delivery : pc[d] \notin {"idle", "query", "submit"} =>
          outcome[d] \in {"success", "already", "failed"}
    /\ (\E d \in Delivery : pc[d] # "idle") => merged /\ record # None

Init ==
    /\ cv = "absent" /\ record = None /\ threads = <<>>
    /\ merged = FALSE /\ calm = FALSE
    /\ pc = [a \in Actor |-> "idle"]
    /\ known = [a \in Actor |-> 0] /\ thread = [a \in Actor |-> 0]
    /\ sawUrl = [a \in Actor |-> FALSE] /\ outcome = [a \in Actor |-> "none"]
    /\ overlapped = FALSE

Goes(a, from, to) == pc[a] = from /\ pc' = [pc EXCEPT ![a] = to]
Says(a, what) == outcome' = [outcome EXCEPT ![a] = what]
Idle(a) == pc[a] = "idle"

-----------------------------------------------------------------------------
(* cv-config-validation.                                                    *)

\* _ensure_workspace_pending: created, or rolled back to pending.
EnsurePending ==
    /\ ~merged /\ ~calm
    /\ Goes(Check, "idle", "deploy")
    /\ cv' = "pending"
    /\ UNCHANGED <<record, threads, intent, actor, overlapped>>

\* finalize_workspace_on_cv; a device that does not stream makes a build unsafe.
Build ==
    /\ Goes(Check, "deploy", "track")
    /\ \/ cv' = "built" /\ \E status \in {"built", "abandoned"} : Says(Check, status)
       \/ cv' = "failed" /\ Says(Check, "abandoned")
    /\ UNCHANGED <<record, threads, intent, known, thread, sawUrl, overlapped>>

StoredThread == IF record = None THEN 0 ELSE record.thread

\* _track_workspace: created or updated.
Track ==
    /\ Goes(Check, "track", "look")
    /\ record' = [status |-> outcome[Check], thread |-> StoredThread]
    /\ known' = [known EXCEPT ![Check] = StoredThread] /\ Says(Check, "none")
    /\ UNCHANGED <<cv, threads, intent, thread, sawUrl, overlapped>>

Forgotten(a) ==
    /\ known' = [known EXCEPT ![a] = 0] /\ thread' = [thread EXCEPT ![a] = 0]
    /\ sawUrl' = [sawUrl EXCEPT ![a] = FALSE] /\ Says(a, "none")

StoreThread ==
    /\ Goes(Check, "store", "idle")
    /\ record' = [record EXCEPT !.thread = thread[Check]]
    /\ Forgotten(Check)
    /\ UNCHANGED <<cv, threads, intent, overlapped>>

\* The change is merged, the record with it, once no check runs.
Merge ==
    /\ ~merged /\ ~calm /\ Idle(Check)
    /\ merged' = TRUE
    /\ UNCHANGED <<cv, record, threads, calm, pc, actor, overlapped>>

-----------------------------------------------------------------------------
(* submit_linked_workspace_for_proposed_change.                             *)

\* Mutant: nothing is asked of CloudVision before submitting to it.
AlreadyUnasked(d) == FALSE

AlreadySubmitted(d) == cv = "submitted"

\* Mutant: any event about the change submits its workspace.
LinkedUnmerged == record # None

\* The merge of a change with a tracked workspace.
Linked == merged /\ record # None

\* The record is read once; without one the delivery only says so elsewhere.
Receive(d) ==
    /\ Linked
    /\ calm => \A a \in Actor : Idle(a)
    /\ known' = [known EXCEPT ![d] = record.thread]
    /\ \/ record.status = "submitted" /\ Goes(d, "idle", "save") /\ Says(d, "already")
       \/ record.status \in SubmitReady /\ Goes(d, "idle", "query") /\ UNCHANGED outcome
       \/ /\ record.status # "submitted"
          /\ record.status \notin SubmitReady \/ ~calm     \* or no credentials
          /\ Goes(d, "idle", "save") /\ Says(d, "failed")
    /\ UNCHANGED <<cv, record, threads, intent, thread, sawUrl, overlapped>>

Query(d) ==
    /\ \/ AlreadySubmitted(d) /\ Goes(d, "query", "save") /\ Says(d, "already")
       \/ ~AlreadySubmitted(d) /\ Goes(d, "query", "submit") /\ UNCHANGED outcome
    /\ UNCHANGED <<cv, record, threads, intent, known, thread, sawUrl, overlapped>>

\* CloudVision accepts a built workspace, once.
SubmitAccepted(d) ==
    /\ Goes(d, "submit", "save") /\ cv = "built"
    /\ cv' = "submitted"
    /\ Says(d, "success") \/ (~calm /\ Says(d, "failed"))  \* lost, or after 600 s
    /\ UNCHANGED <<record, threads, intent, known, thread, sawUrl, overlapped>>

SubmitRejected(d) ==
    /\ Goes(d, "submit", "save") /\ cv # "built"
    /\ Says(d, "failed")
    /\ UNCHANGED <<cv, record, threads, intent, known, thread, sawUrl, overlapped>>

\* CloudVision cannot be reached, before or after it was asked anything.
Unreached(d) ==
    /\ ~calm
    /\ Goes(d, "query", "save") \/ Goes(d, "submit", "save")
    /\ Says(d, "failed")
    /\ UNCHANGED <<cv, record, threads, intent, known, thread, sawUrl, overlapped>>

\* Mutant: a failed delivery is saved as submitted.
SavedBlindly(what) == "submitted"

SavedStatus(what) == IF what = "failed" THEN "submit_failed" ELSE "submitted"

\* _save_workspace_success, _save_workspace_failure, _already_submitted: each
\* writes what it has to say over whatever the record says by now; only the other
\* two go on if the save fails.
Save(d) ==
    /\ Goes(d, "save", "look")
    /\ \/ record' = [record EXCEPT !.status = SavedStatus(outcome[d])]
       \/ ~calm /\ outcome[d] # "success" /\ UNCHANGED record
    /\ UNCHANGED <<cv, threads, intent, actor, overlapped>>

-----------------------------------------------------------------------------
(* The thread and its comments, for the check and for a delivery.           *)

\* Mutant: a thread is known only by the id the record stored.
FoundById(a) == IF known[a] # 0 THEN {known[a]} ELSE {0}

\* _lookup_thread: by the stored id, or else by the label.
Found(a) ==
    IF known[a] # 0 THEN {known[a]}
    ELSE IF threads = <<>> THEN {0} ELSE 1 .. Len(threads)

Look(a) ==
    /\ Goes(a, "look", "ensure")
    /\ \E t \in Found(a) :
          /\ thread' = [thread EXCEPT ![a] = t]
          /\ sawUrl' = [sawUrl EXCEPT ![a] = t # 0 /\ threads[t].urls > 0]
    /\ known' = [known EXCEPT ![a] = 0]
    /\ overlapped' = (overlapped \/ \E b \in Actor \ {a} : AtThreads(b))
    /\ UNCHANGED <<cv, record, threads, intent, outcome>>

\* _create_thread
Ensure(a) ==
    /\ Goes(a, "ensure", "url")
    /\ IF thread[a] # 0 THEN UNCHANGED <<threads, thread>>
       ELSE /\ threads' = Append(threads, [urls |-> 0, done |-> FALSE, resolved |-> FALSE])
            /\ thread' = [thread EXCEPT ![a] = Len(threads')]
    /\ UNCHANGED <<cv, record, intent, known, sawUrl, outcome, overlapped>>

\* ensure_workspace_thread_and_url_comment
CommentUrl(a) ==
    /\ Goes(a, "url", IF a = Check THEN "store" ELSE "comment")
    /\ threads' = IF sawUrl[a] THEN threads ELSE [threads EXCEPT ![thread[a]].urls = IF @ = 2 THEN 2 ELSE @ + 1]
    /\ sawUrl' = [sawUrl EXCEPT ![a] = FALSE]
    /\ UNCHANGED <<cv, record, intent, known, thread, outcome, overlapped>>

Comment(d) ==
    /\ Goes(d, "comment", "resolve")
    /\ threads' = [threads EXCEPT ![thread[d]].done = @ \/ outcome[d] # "failed"]
    /\ UNCHANGED <<cv, record, intent, actor, overlapped>>

\* Mutant: every outcome settles the thread.
SettlesAlways(what) == TRUE

Settles(what) == what # "failed"

Resolve(d) ==
    /\ Goes(d, "resolve", "idle")
    /\ threads' = [threads EXCEPT ![thread[d]].resolved = Settles(outcome[d])]
    /\ Forgotten(d)
    /\ UNCHANGED <<cv, record, intent, overlapped>>

-----------------------------------------------------------------------------
\* An exception nobody catches, one that is only logged, or a killed process.
Stops(a) ==
    /\ ~calm /\ pc[a] # "idle"
    /\ pc' = [pc EXCEPT ![a] = "idle"]
    /\ Forgotten(a)
    /\ UNCHANGED <<cv, record, threads, intent, overlapped>>

CalmDown ==
    /\ ~calm /\ calm' = TRUE
    /\ UNCHANGED <<cv, record, threads, merged, pc, actor, overlapped>>

Submission(d) ==
    \/ Query(d) \/ SubmitAccepted(d) \/ SubmitRejected(d) \/ Unreached(d)
    \/ Save(d) \/ Comment(d) \/ Resolve(d)

Threading(a) == Look(a) \/ Ensure(a) \/ CommentUrl(a)

Next ==
    \/ EnsurePending \/ Build \/ Track \/ StoreThread \/ Merge \/ CalmDown
    \/ \E d \in Delivery : Receive(d) \/ Submission(d)
    \/ \E a \in Actor : Threading(a) \/ Stops(a)

Spec == Init /\ [][Next]_vars

\* A delivery that was received runs to its end; nothing says another comes.
FairSpec == Spec /\ \A d \in Delivery : WF_vars(Submission(d) \/ Threading(d))

-----------------------------------------------------------------------------
\* The record says submitted only of a workspace CloudVision submitted, however
\* deliveries, retries and a late check interleave or stop.
RecordNeverAhead == record # None /\ record.status = "submitted" => cv = "submitted"

\* A resolved thread says why, and what it says is true.
ResolvedMeansSubmitted ==
    \A t \in 1 .. Len(threads) : threads[t].resolved =>
        threads[t].done /\ cv = "submitted"

\* Deliveries and checks that stop anywhere and are repeated reuse the thread and
\* its URL comment, unless two of them were at it at once.
OneThread ==
    ~overlapped => Len(threads) <= 1 /\ \A t \in 1 .. Len(threads) : threads[t].urls <= 1

\* A delivery that runs alone and undisturbed on a workspace that can be submitted,
\* or was, ends with the record and a thread that say so, whatever failed before.
RunsAlone(d) ==
    /\ calm /\ \A a \in Actor \ {d} : Idle(a)
    /\ pc[d] = "query" /\ cv \in {"built", "submitted"}

Told ==
    /\ record # None /\ record.status = "submitted"
    /\ \E t \in 1 .. Len(threads) : threads[t].resolved

LoneRetryHeals == \A d \in Delivery : RunsAlone(d) ~> []Told
===============================================================================
