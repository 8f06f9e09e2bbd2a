------------------------------ MODULE StateStore ------------------------------
(***************************************************************************)
(* The DeploymentState records of deployment/state.py, as values: what     *)
(* StateStore.record, last_checksum, is_suspended and sweep_orphans do to  *)
(* them.  The service keeps one record per device, on branch main.         *)
(*                                                                         *)
(* Every record() moves last_checked_at.  The other two timestamps are kept *)
(* as what a reader compares: whether last_confirmed_at and last_attempt_at *)
(* moved with it, or are older.                                            *)
(***************************************************************************)
CONSTANTS
    Checksum,    \* artifact checksums
    None         \* a field that holds nothing

Status == {"absent", "never_deployed", "in_sync", "pending", "drifted", "failed"}

DeploymentState ==
    [status    : Status,              \* "absent": there is no record
     suspend   : BOOLEAN,             \* the operator's field
     checksum  : Checksum \union {None},
     confirmed : BOOLEAN,             \* last_confirmed_at = last_checked_at
     attempted : BOOLEAN,             \* last_attempt_at = last_checked_at
     error     : BOOLEAN]             \* last_error is set

Outcome ==
    [status    : Status,
     confirmed : BOOLEAN,
     pushed    : BOOLEAN,
     checksum  : Checksum \union {None},
     error     : BOOLEAN]

NoRecord ==
    [status |-> "absent", suspend |-> FALSE, checksum |-> None,
     confirmed |-> FALSE, attempted |-> FALSE, error |-> FALSE]

\* Mutant: last_error is written only when there is one.
RecordedKeepingError(old, outcome) ==
    [status    |-> outcome.status,
     suspend   |-> old.suspend,
     checksum  |-> IF outcome.checksum = None THEN old.checksum ELSE outcome.checksum,
     confirmed |-> outcome.confirmed,
     attempted |-> outcome.pushed,
     error     |-> old.error \/ outcome.error]

\* Mutant: the checksum is written only when the record is created.
RecordedOnce(old, outcome) ==
    [status    |-> outcome.status,
     suspend   |-> old.suspend,
     checksum  |-> IF old.checksum # None THEN old.checksum ELSE outcome.checksum,
     confirmed |-> outcome.confirmed,
     attempted |-> outcome.pushed,
     error     |-> outcome.error]

\* StateStore.record: the upsert of one outcome onto the record a device has.
Recorded(old, outcome) ==
    [status    |-> outcome.status,
     suspend   |-> old.suspend,
     checksum  |-> IF outcome.checksum = None THEN old.checksum ELSE outcome.checksum,
     confirmed |-> outcome.confirmed,
     attempted |-> outcome.pushed,
     error     |-> outcome.error]

\* StateStore.last_checksum
LastChecksum(record) == record.checksum

\* StateStore.is_suspended
IsSuspended(record) == record.suspend

\* StateStore.sweep_orphans: only the records of live devices survive.
WithoutOrphans(records, live) ==
    [d \in DOMAIN records |-> IF d \in live THEN records[d] ELSE NoRecord]

\* The operator sets or clears suspend in Infrahub; a record made that way has
\* the schema's default status.
Operated(old, suspend) ==
    [old EXCEPT !.suspend = suspend,
                !.status = IF @ = "absent" THEN "never_deployed" ELSE @]
===============================================================================
