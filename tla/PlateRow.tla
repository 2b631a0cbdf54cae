------------------------------ MODULE PlateRow ------------------------------
(***************************************************************************)
(* One row of the `plate` table and the SQL statements the services send   *)
(* for it (api/model/plate.go, api/repository/postgres/plate.go).  The row *)
(* is the only thing the API server and the sync worker share, and every   *)
(* statement here is atomic in PostgreSQL; nothing larger is.              *)
(*                                                                         *)
(* The columns that one UpdateSyncState statement writes together are kept *)
(* together, in the field `sync`.  Times are kept as the number of ticks   *)
(* until they pass: 0 has passed, Null is SQL NULL.                        *)
(***************************************************************************)
EXTENDS Integers, FiniteSets

CONSTANTS
    Orgs,         \* organizations a plate can belong to
    PrivateOrgs,  \* those with visibility=private while private_org.enabled
    NoOrg,        \* organization_id IS NULL
    Revs,         \* contents a repository's manifest can have
    NoRev,        \* metadata IS NULL
    Interval,     \* sync interval, in ticks
    MaxFailures   \* bound: consecutive_failures saturates here

ASSUME RowAssumption ==
    /\ PrivateOrgs \subseteq Orgs
    /\ NoOrg \notin Orgs
    /\ NoRev \notin Revs
    /\ Interval \in Nat \ {0}
    /\ MaxFailures \in Nat \ {0}

Null == -1

Statuses     == {"pending", "approved", "rejected", "archived"}
Visibilities == {"public", "private", "unlisted"}
Verdicts     == {"synced", "failed", "unverified"}
SyncStates   == {"none", "syncing"} \cup Verdicts

\* The columns of PlateSyncState.
SyncColumns ==
    [state      : SyncStates,
     next       : Null..Interval,        \* next_sync_at
     failures   : 0..MaxFailures,        \* consecutive_failures
     verified   : BOOLEAN,               \* is_verified
     verifiedAt : BOOLEAN,               \* verified_at IS NOT NULL
     metadata   : Revs \cup {NoRev}]

Rows ==
    [exists     : BOOLEAN,
     status     : Statuses,
     visibility : Visibilities,
     org        : Orgs \cup {NoOrg},
     tags       : SUBSET Revs,           \* manifests whose plate_tag rows exist
     sync       : SyncColumns]

NeverSynced(m) ==
    [state |-> "none", next |-> Null, failures |-> 0,
     verified |-> FALSE, verifiedAt |-> FALSE, metadata |-> m]

\* The row SubmitRepository inserts, with the tags it creates beside it.
Submitted(o, m) ==
    [exists |-> TRUE, status |-> "pending", visibility |-> "private",
     org |-> o, tags |-> {m}, sync |-> NeverSynced(m)]

\* No row has the plate's id.
Absent ==
    [exists |-> FALSE, status |-> "pending", visibility |-> "private",
     org |-> NoOrg, tags |-> {}, sync |-> NeverSynced(NoRev)]

-----------------------------------------------------------------------------

\* plateRepository.Update: gorm's Save writes every column of the struct.  When
\* the UPDATE matches no row Save inserts the struct, and the tags preloaded in
\* it are inserted again when their rows are gone.
Save(row, plate) ==
    [plate EXCEPT !.exists = TRUE, !.tags = row.tags \cup plate.tags]

\* A slip: Updates with a struct instead of a map skips zero values, so an
\* is_verified that turns FALSE is not written.
UpdateSyncState_SkipZero(row, columns) ==
    IF row.exists
    THEN [row EXCEPT !.sync =
            [columns EXCEPT !.verified = @ \/ row.sync.verified]]
    ELSE row

\* UpdateSyncState: one UPDATE of the sync columns; of no row when it is gone.
UpdateSyncState(row, columns) ==
    IF row.exists THEN [row EXCEPT !.sync = columns] ELSE row

\* MoveToOrganization's Updates of organization_id and perhaps visibility.
UpdateOrganization(row, o) ==
    [row EXCEPT !.org = o,
                !.visibility = IF o \in PrivateOrgs THEN "private" ELSE @]

\* A struct loaded without Preload carries no tags.
WithoutTags(row) == [row EXCEPT !.tags = {}]

\* A slip: a NULL next_sync_at counts as passed.
DueForSync_NullIsDue(row) ==
    /\ row.exists
    /\ row.sync.next <= 0 \/ row.sync.state = "syncing"

\* ListDueForSync's WHERE.  Two minutes may have passed since any update of a
\* row in `syncing`.
DueForSync(row) ==
    /\ row.exists
    /\ row.sync.next = 0 \/ row.sync.state = "syncing"

\* A tick of the clock, for a time that is n ticks ahead.
Elapse(n) == IF n > 0 THEN n - 1 ELSE n

ElapseRow(row) == [row EXCEPT !.sync.next = Elapse(@)]

MoreFailures(n) == IF n < MaxFailures THEN n + 1 ELSE n
=============================================================================
