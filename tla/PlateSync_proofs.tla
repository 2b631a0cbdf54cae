-------------------------- MODULE PlateSync_proofs --------------------------
(***************************************************************************)
(* What TLAPS proves of PlateSync, for every set of workers, requests,     *)
(* organizations and manifests and for every bound.                        *)
(***************************************************************************)
EXTENDS PlateSync, TLAPS

-----------------------------------------------------------------------------
(***************************************************************************)
(* Lemmas about the statements on a row.                                   *)
(***************************************************************************)

\* The columns of a plate that was never synced are of their type and agree.
LEMMA NeverSyncedColumns ==
    ASSUME NEW m \in Revs \cup {NoRev}
    PROVE  NeverSynced(m) \in SyncColumns /\ Coherent(NeverSynced(m))
BY RowAssumption DEF NeverSynced, SyncColumns, SyncStates, Verdicts, Null, Coherent

\* A submitted row and the empty row are rows.
LEMMA NewRows ==
    /\ \A o \in Orgs \cup {NoOrg}, m \in Revs : Submitted(o, m) \in Rows
    /\ Absent \in Rows
BY NeverSyncedColumns
DEF Submitted, Absent, Rows, Statuses, Visibilities

\* Save yields a row.
LEMMA SaveType ==
    ASSUME NEW r \in Rows, NEW p \in Rows
    PROVE  Save(r, p) \in Rows
BY DEF Save, Rows

\* UpdateSyncState yields a row.
LEMMA UpdateSyncStateType ==
    ASSUME NEW r \in Rows, NEW c \in SyncColumns
    PROVE  UpdateSyncState(r, c) \in Rows
BY DEF UpdateSyncState, Rows

\* The clock keeps a time within its range.
LEMMA ElapseType ==
    ASSUME NEW n \in Null..Interval
    PROVE  /\ Elapse(n) \in Null..Interval
           /\ n # Null => Elapse(n) \in 0..Interval
           /\ n = Null => Elapse(n) = Null
           /\ n = 0 => Elapse(n) = 0
BY RowAssumption DEF Elapse, Null

\* The clock keeps a row a row.
LEMMA ElapseRowType ==
    ASSUME NEW r \in Rows
    PROVE  ElapseRow(r) \in Rows
<1>1. r.sync \in SyncColumns /\ r.sync.next \in Null..Interval
    BY DEF Rows, SyncColumns
<1>2. Elapse(r.sync.next) \in Null..Interval
    BY <1>1, ElapseType
<1>3. [r.sync EXCEPT !.next = Elapse(@)] \in SyncColumns
    BY <1>1, <1>2 DEF SyncColumns
<1> QED
    BY <1>3 DEF ElapseRow, Rows

\* A verified copy is a row, and its sync columns agree.
LEMMA VerifiedType ==
    ASSUME NEW p \in Rows
    PROVE  Verified(p) \in Rows /\ Coherent(Verified(p).sync)
<1>1. Interval \in Null..Interval /\ Interval # Null
    BY RowAssumption DEF Null
<1> QED
    BY <1>1
    DEF Verified, Rows, SyncColumns, SyncStates, Verdicts, Statuses, Visibilities,
        Coherent

\* An edited copy is a row with the sync columns of the copy.
LEMMA EditsType ==
    ASSUME NEW kind, NEW p \in Rows, NEW q \in Edits(kind, p)
    PROVE  q \in Rows /\ q.sync = p.sync
BY DEF Edits, Update, Archive, Approve, Reject, SubmitReview, Rows, Statuses,
       Visibilities

\* A failure that was counted is positive and within its bound.
LEMMA MoreFailuresType ==
    ASSUME NEW n \in 0..MaxFailures
    PROVE  MoreFailures(n) \in 1..MaxFailures
BY RowAssumption DEF MoreFailures

-----------------------------------------------------------------------------
(***************************************************************************)
(* Type correctness.                                                       *)
(***************************************************************************)

\* What a worker keeps of one plate is of its type when its parts are.
LEMMA WorkerType ==
    ASSUME TypeOK, NEW w \in Workers
    PROVE  /\ worker[w] \in WorkerStates
           /\ worker[w].pc \in WorkerSteps
           /\ worker[w].plate \in Rows
           /\ worker[w].plate.sync \in SyncColumns
           /\ worker[w].plate.sync.failures \in 0..MaxFailures
           /\ worker[w].next \in 0..Interval
           /\ worker[w].seen # NoRev => worker[w].seen \in Manifests
BY DEF TypeOK, WorkerStates, Rows, SyncColumns

\* The sync columns a pass writes are of their type.
LEMMA WrittenColumnsType ==
    ASSUME TypeOK, NEW w \in Workers
    PROVE  /\ \A m \in Revs \cup {NoRev} : Failed(w, m) \in SyncColumns
           /\ worker[w].seen # NoRev => Verdict(w) \in SyncColumns
           /\ [worker[w].plate.sync EXCEPT !.state = "syncing"] \in SyncColumns
           /\ worker[w].seen # NoRev =>
                [worker[w].plate EXCEPT !.sync.metadata = worker[w].seen.rev] \in Rows
<1>1. worker[w].next \in Null..Interval
    BY WorkerType DEF Null
<1>2. \A m \in Revs \cup {NoRev} : Failed(w, m) \in SyncColumns
    <2>1. MoreFailures(worker[w].plate.sync.failures) \in 0..MaxFailures
        BY WorkerType, MoreFailuresType, RowAssumption
    <2> QED
        BY <1>1, <2>1 DEF Failed, SyncColumns, SyncStates, Verdicts
<1>3. worker[w].seen # NoRev => Verdict(w) \in SyncColumns
    <2> SUFFICES ASSUME worker[w].seen # NoRev PROVE Verdict(w) \in SyncColumns
        OBVIOUS
    <2>1. worker[w].seen.rev \in Revs \cup {NoRev}
        BY WorkerType DEF Manifests
    <2>2. 0 \in 0..MaxFailures
        BY RowAssumption
    <2>3. Saw(w, "match") \in BOOLEAN
        BY DEF Saw
    <2> QED
        BY <1>1, <2>1, <2>2, <2>3 DEF Verdict, SyncColumns, SyncStates, Verdicts
<1>4. [worker[w].plate.sync EXCEPT !.state = "syncing"] \in SyncColumns
    BY WorkerType DEF SyncColumns, SyncStates
<1>5. worker[w].seen # NoRev =>
        [worker[w].plate EXCEPT !.sync.metadata = worker[w].seen.rev] \in Rows
    BY WorkerType DEF Manifests, Rows, SyncColumns
<1> QED
    BY <1>2, <1>3, <1>4, <1>5

\* A worker that has fetched remembers what it read.
FetchedIsSeen ==
    \A w \in Workers :
        worker[w].pc \notin {"idle", "listed", "marked"} => worker[w].seen # NoRev

TypeInv == TypeOK /\ FetchedIsSeen

\* It holds of the initial states.
LEMMA TypeInit == Init => TypeInv
<1> SUFFICES ASSUME Init PROVE TypeInv
    OBVIOUS
<1>1. row \in Rows /\ repo \in Manifests /\ tokenSeen \in BOOLEAN
    <2>1. PICK o \in Orgs \cup {NoOrg}, m \in Revs :
              \/ /\ repo = [token |-> "mismatch", rev |-> m]
                 /\ row = Submitted(o, m)
                 /\ tokenSeen = FALSE
              \/ /\ repo = [token |-> "match", rev |-> m]
                 /\ row = Verified(Submitted(o, m))
                 /\ tokenSeen = TRUE
        BY DEF Init
    <2>2. Submitted(o, m) \in Rows /\ Verified(Submitted(o, m)) \in Rows
        BY NewRows, VerifiedType
    <2>3. row \in Rows
        BY <2>1, <2>2
    <2>4. "match" \in Outcomes /\ "mismatch" \in Outcomes
        BY SyncAssumption
    <2>5. repo \in Manifests
        BY <2>1, <2>4 DEF Manifests
    <2>6. tokenSeen \in BOOLEAN
        BY <2>1
    <2> QED
        BY <2>3, <2>5, <2>6
<1>2. IdleWorker \in WorkerStates /\ IdleRequest \in RequestStates
    BY NewRows, RowAssumption
    DEF IdleWorker, IdleRequest, WorkerStates, RequestStates, WorkerSteps
<1> QED
    BY <1>1, <1>2, SyncAssumption
    DEF Init, TypeInv, TypeOK, FetchedIsSeen, IdleWorker

\* A step of one worker keeps the types when the row, the worker and the rest do.
LEMMA StepType ==
    ASSUME TypeInv, NEW w \in Workers, NEW state \in WorkerStates, Step(w, state),
           state.pc \notin {"idle", "listed", "marked"} => state.seen # NoRev
    PROVE  worker' \in [Workers -> WorkerStates] /\ FetchedIsSeen'
BY DEF TypeInv, TypeOK, FetchedIsSeen, Step

\* A step of one request keeps the types of all of them.
LEMMA ServeType ==
    ASSUME TypeOK, NEW r \in Requests, NEW state \in RequestStates, Serve(r, state)
    PROVE  request' \in [Requests -> RequestStates]
BY DEF TypeOK, Serve

\* Every step keeps it.
LEMMA TypeStep == TypeInv /\ [Next]_vars => TypeInv'
<1> SUFFICES ASSUME TypeInv, [Next]_vars PROVE TypeInv'
    OBVIOUS
<1> USE DEF TypeInv
<1>1. ASSUME UNCHANGED vars PROVE TypeInv'
    BY <1>1 DEF vars, TypeOK, FetchedIsSeen
<1>2. ASSUME EditRepository PROVE TypeInv'
    BY <1>2 DEF EditRepository, TypeOK, FetchedIsSeen
<1>3. ASSUME Tick PROVE TypeInv'
    <2>1. row' \in Rows
        BY <1>3, ElapseRowType DEF Tick, TypeOK
    <2>2. \A w \in Workers :
              [worker[w] EXCEPT !.plate = ElapseRow(@), !.next = Elapse(@)] \in WorkerStates
        <3> TAKE w \in Workers
        <3>1. ElapseRow(worker[w].plate) \in Rows
            BY WorkerType, ElapseRowType
        <3>2. Elapse(worker[w].next) \in 0..Interval
            BY WorkerType, RowAssumption DEF Elapse
        <3> QED
            BY <3>1, <3>2, WorkerType DEF WorkerStates
    <2>3. worker' \in [Workers -> WorkerStates]
        BY <1>3, <2>2 DEF Tick
    <2>4. \A w \in Workers : worker[w]'.pc = worker[w].pc /\ worker[w]'.seen = worker[w].seen
        BY <1>3, WorkerType DEF Tick, WorkerStates
    <2>5. request' \in [Requests -> RequestStates]
        <3>1. \A r \in Requests : ElapseRow(request[r].plate) \in Rows
            BY ElapseRowType DEF TypeOK, RequestStates
        <3> QED
            BY <1>3, <3>1 DEF Tick, TypeOK, RequestStates
    <2> QED
        BY <1>3, <2>1, <2>3, <2>4, <2>5 DEF Tick, TypeOK, FetchedIsSeen
<1>4. ASSUME NEW w \in Workers, WorkerStep(w) \/ Fault(w) PROVE TypeInv'
    <2> USE WorkerType, NewRows
    <2>0. IdleWorker \in WorkerStates
        BY RowAssumption DEF IdleWorker, WorkerStates, WorkerSteps
    <2>1. ASSUME NEW state \in WorkerStates, Step(w, state),
                 state.pc \notin {"idle", "listed", "marked"} => state.seen # NoRev,
                 row' \in Rows,
                 UNCHANGED <<repo, request, started>>,
                 faults' \in 0..MaxFaults, tokenSeen' \in BOOLEAN
          PROVE  TypeInv'
        BY <2>1, StepType DEF TypeOK
    <2>2. CASE ListDue(w)
        <3>1. WithoutTags(row) \in Rows
            BY DEF WithoutTags, Rows, TypeOK
        <3>2. [IdleWorker EXCEPT !.pc = "listed", !.plate = WithoutTags(row)] \in WorkerStates
            BY <2>0, <3>1 DEF WorkerStates, WorkerSteps
        <3> QED
            BY <2>0, <2>1, <2>2, <3>2 DEF ListDue, TypeOK, WorkerStates
    <2>3. CASE MarkSyncing(w)
        <3>1. row' \in Rows
            BY <2>3, WrittenColumnsType, UpdateSyncStateType DEF MarkSyncing, TypeOK
        <3>2. [worker[w] EXCEPT !.pc = "marked", !.next = Interval] \in WorkerStates
            <4>1. Interval \in 0..Interval
                BY RowAssumption
            <4> QED
                BY <4>1 DEF WorkerStates, WorkerSteps
        <3> QED
            BY <2>1, <2>3, <3>1, <3>2 DEF MarkSyncing, TypeOK, WorkerStates
    <2>4. CASE Fetch(w)
        <3>1. [worker[w] EXCEPT !.pc = "fetched", !.seen = repo] \in WorkerStates
            BY DEF WorkerStates, WorkerSteps, TypeOK
        <3>2. repo # NoRev
            BY SyncAssumption DEF TypeOK
        <3> QED
            BY <2>1, <2>4, <3>1, <3>2 DEF Fetch, TypeOK, WorkerStates
    <2>5. CASE RecordFetchFailure(w)
        <3>1. row' \in Rows
            BY <2>5, WrittenColumnsType, UpdateSyncStateType DEF RecordFetchFailure, TypeOK
        <3> QED
            BY <2>0, <2>1, <2>5, <3>1 DEF RecordFetchFailure, TypeOK, IdleWorker
    <2>6. CASE RecordEncodingFailure(w)
        <3>1. row' \in Rows
            BY <2>6, WrittenColumnsType, UpdateSyncStateType DEF RecordEncodingFailure, TypeOK
        <3>2. [worker[w] EXCEPT !.pc = "hiding"] \in WorkerStates
            BY DEF WorkerStates, WorkerSteps
        <3> QED
            BY <2>1, <2>6, <3>1, <3>2 DEF RecordEncodingFailure, TypeOK, WorkerStates, Saw
    <2>7. CASE SaveManifest(w)
        <3> DEFINE plate == [worker[w].plate EXCEPT !.sync.metadata = worker[w].seen.rev]
        <3>1. plate \in Rows
            BY <2>7, WrittenColumnsType DEF SaveManifest, Saw
        <3>2. row' \in Rows
            BY <2>7, <3>1, SaveType DEF SaveManifest, TypeOK
        <3>3. [worker[w] EXCEPT !.pc = "saved", !.plate = plate] \in WorkerStates
            BY <3>1 DEF WorkerStates, WorkerSteps
        <3> QED
            BY <2>1, <2>7, <3>2, <3>3 DEF SaveManifest, TypeOK, WorkerStates, Saw
    <2>8. CASE DeleteTags(w)
        <3>1. row' \in Rows
            BY <2>8 DEF DeleteTags, TypeOK, Rows
        <3>2. [worker[w] EXCEPT !.pc = "untagged"] \in WorkerStates
            BY DEF WorkerStates, WorkerSteps
        <3> QED
            BY <2>1, <2>8, <3>1, <3>2 DEF DeleteTags, TypeOK, WorkerStates, FetchedIsSeen
    <2>9. CASE CreateTags(w)
        <3>1. worker[w].seen # NoRev
            BY <2>9 DEF CreateTags, FetchedIsSeen
        <3>2. row' \in Rows
            BY <2>9, <3>1 DEF CreateTags, TypeOK, Rows, Manifests
        <3>3. /\ [worker[w] EXCEPT !.pc = "tagged"] \in WorkerStates
              /\ [worker[w] EXCEPT !.pc = "manifestFailed"] \in WorkerStates
            BY DEF WorkerStates, WorkerSteps
        <3> QED
            BY <2>1, <2>9, <3>1, <3>2, <3>3 DEF CreateTags, TypeOK, WorkerStates
    <2>10. CASE RecordManifestFailure(w)
        <3>1. worker[w].seen # NoRev /\ worker[w].seen.rev \in Revs
            BY <2>10 DEF RecordManifestFailure, FetchedIsSeen, Manifests
        <3>2. row' \in Rows
            BY <2>10, <3>1, WrittenColumnsType, UpdateSyncStateType
            DEF RecordManifestFailure, TypeOK
        <3>3. [worker[w] EXCEPT !.pc = "hiding"] \in WorkerStates
            BY DEF WorkerStates, WorkerSteps
        <3> QED
            BY <2>1, <2>10, <3>1, <3>2, <3>3 DEF RecordManifestFailure, TypeOK, WorkerStates
    <2>11. CASE RecordVerdict(w)
        <3>1. worker[w].seen # NoRev
            BY <2>11 DEF RecordVerdict, FetchedIsSeen
        <3>2. row' \in Rows
            BY <2>11, <3>1, WrittenColumnsType, UpdateSyncStateType DEF RecordVerdict, TypeOK
        <3>3. [worker[w] EXCEPT !.pc = "recorded"] \in WorkerStates
            BY DEF WorkerStates, WorkerSteps
        <3> QED
            BY <2>1, <2>11, <3>1, <3>2, <3>3 DEF RecordVerdict, TypeOK, WorkerStates
    <2>12. CASE SetVisibility(w)
        <3>1. [worker[w].plate EXCEPT !.visibility = DesiredVisibility(w)] \in Rows
            BY DEF DesiredVisibility, Rows, Visibilities
        <3>2. row' \in Rows
            BY <2>12, <3>1, SaveType DEF SetVisibility, TypeOK
        <3> QED
            BY <2>0, <2>1, <2>12, <3>2 DEF SetVisibility, TypeOK, IdleWorker
    <2>13. CASE ManifestFails(w)
        <3>1. worker[w].seen # NoRev
            BY <2>13 DEF ManifestFails, FetchedIsSeen
        <3>2. [worker[w] EXCEPT !.pc = "manifestFailed",
                                !.plate.sync.metadata = worker[w].seen.rev] \in WorkerStates
            BY <3>1, WrittenColumnsType DEF WorkerStates, WorkerSteps
        <3>3. faults' \in 0..MaxFaults
            BY <2>13, SyncAssumption DEF ManifestFails, TypeOK
        <3> QED
            BY <2>1, <2>13, <3>1, <3>2, <3>3 DEF ManifestFails, TypeOK, WorkerStates
    <2>14. CASE FailureNotRecorded(w)
        <3>1. [worker[w] EXCEPT !.pc = "hiding"] \in WorkerStates
            BY DEF WorkerStates, WorkerSteps
        <3>2. worker[w].seen # NoRev
            BY <2>14 DEF FailureNotRecorded, FetchedIsSeen
        <3>3. faults' \in 0..MaxFaults
            BY <2>14, SyncAssumption DEF FailureNotRecorded, TypeOK
        <3> QED
            BY <2>1, <2>14, <3>1, <3>2, <3>3 DEF FailureNotRecorded, TypeOK, WorkerStates
    <2>15. CASE Abandon(w)
        <3>1. faults' \in 0..MaxFaults
            BY <2>15, SyncAssumption DEF Abandon, TypeOK
        <3> QED
            BY <2>0, <2>1, <2>15, <3>1 DEF Abandon, TypeOK, IdleWorker
    <2> QED
        BY <1>4, <2>2, <2>3, <2>4, <2>5, <2>6, <2>7, <2>8, <2>9, <2>10, <2>11, <2>12,
           <2>13, <2>14, <2>15
        DEF WorkerStep, Fault
<1>5. ASSUME NEW r \in Requests, RequestStep(r) PROVE TypeInv'
    <2>0. /\ IdleRequest \in RequestStates
          /\ request[r] \in RequestStates
          /\ request[r].plate \in Rows
        BY NewRows DEF IdleRequest, RequestStates, TypeOK
    <2>1. ASSUME NEW state \in RequestStates, Serve(r, state), row' \in Rows,
                 UNCHANGED <<repo, worker, faults>>,
                 started' \in 0..MaxRequests, tokenSeen' \in BOOLEAN
          PROVE  TypeInv'
        BY <2>1, ServeType DEF TypeOK, FetchedIsSeen
    <2>2. ASSUME NEW kind \in Kinds, Load(r, kind) PROVE TypeInv'
        <3>1. WithoutTags(row) \in Rows
            BY DEF WithoutTags, Rows, TypeOK
        <3>2. [pc |-> "loaded", kind |-> kind,
               plate |-> IF kind = "verify" THEN WithoutTags(row) ELSE row] \in RequestStates
            BY <3>1 DEF RequestStates, TypeOK
        <3>3. started' \in 0..MaxRequests
            BY <2>2, SyncAssumption DEF Load, TypeOK
        <3> QED
            BY <2>1, <2>2, <3>2, <3>3 DEF Load, TypeOK
    <2>3. CASE SaveEdit(r)
        <3>1. row' \in Rows
            BY <2>0, <2>3, EditsType, SaveType DEF SaveEdit, TypeOK
        <3> QED
            BY <2>0, <2>1, <2>3, <3>1 DEF SaveEdit, TypeOK
    <2>4. CASE MoveToOrganization(r)
        <3>1. row' \in Rows
            BY <2>4 DEF MoveToOrganization, UpdateOrganization, TypeOK, Rows, Visibilities
        <3> QED
            BY <2>0, <2>1, <2>4, <3>1 DEF MoveToOrganization, TypeOK
    <2>5. CASE VerifyFetch(r)
        <3>1. [request[r] EXCEPT !.pc = "matched", !.plate = Verified(@)] \in RequestStates
            BY <2>0, VerifiedType DEF RequestStates
        <3> QED
            BY <2>1, <2>5, <3>1 DEF VerifyFetch, TypeOK
    <2>6. CASE VerifySave(r)
        <3>1. row' \in Rows
            BY <2>0, <2>6, SaveType DEF VerifySave, TypeOK
        <3> QED
            BY <2>0, <2>1, <2>6, <3>1 DEF VerifySave, TypeOK
    <2>7. CASE RemoveChildren(r)
        <3>1. row' \in Rows
            BY <2>7 DEF RemoveChildren, TypeOK, Rows
        <3>2. [request[r] EXCEPT !.pc = "emptied"] \in RequestStates
            BY <2>0 DEF RequestStates
        <3> QED
            BY <2>1, <2>7, <3>1, <3>2 DEF RemoveChildren, TypeOK
    <2>8. CASE RemoveRow(r)
        <3>1. row' \in Rows
            BY <2>8, NewRows DEF RemoveRow, TypeOK
        <3> QED
            BY <2>0, <2>1, <2>8, <3>1 DEF RemoveRow, TypeOK
    <2>9. CASE Refuse(r)
        BY <2>0, <2>1, <2>9 DEF Refuse, TypeOK
    <2> QED
        BY <1>5, <2>2, <2>3, <2>4, <2>5, <2>6, <2>7, <2>8, <2>9 DEF RequestStep
<1> QED
    BY <1>1, <1>2, <1>3, <1>4, <1>5 DEF Next

\* TypeOK is an invariant: no statement of the worker or of a handler writes a
\* row, or keeps a copy of one, outside the enums and ranges of the model.
THEOREM TypeCorrect == Spec => []TypeOK
<1>1. Spec => []TypeInv
    BY TypeInit, TypeStep, PTL DEF Spec
<1>2. TypeInv => TypeOK
    BY DEF TypeInv
<1> QED
    BY <1>1, <1>2, PTL

-----------------------------------------------------------------------------
(***************************************************************************)
(* Coherence of the sync columns.  The row alone is not inductive: a stale *)
(* copy may be written over it at any later time.  What is inductive is    *)
(* that every copy in memory is coherent too, and that a worker only holds *)
(* copies that were due, so that marking one `syncing` keeps it due.       *)
(***************************************************************************)
CopiesCoherent ==
    /\ \A w \in Workers : /\ Coherent(worker[w].plate.sync)
                          /\ worker[w].pc # "idle" => worker[w].plate.sync.next = 0
    /\ \A r \in Requests : Coherent(request[r].plate.sync)

CoherenceInv == SyncColumnsCoherent /\ CopiesCoherent

\* The empty row and a submitted one are coherent.
LEMMA NewRowsCoherent ==
    /\ Coherent(Absent.sync)
    /\ \A o \in Orgs \cup {NoOrg}, m \in Revs :
          Submitted(o, m) \in Rows /\ Coherent(Submitted(o, m).sync)
BY NewRows, NeverSyncedColumns DEF Absent, Submitted

\* The clock keeps the columns of a row coherent.
LEMMA ElapseCoherent ==
    ASSUME NEW p \in Rows, Coherent(p.sync)
    PROVE  /\ Coherent(ElapseRow(p).sync)
           /\ p.sync.next = 0 => ElapseRow(p).sync.next = 0
<1>1. p.sync \in SyncColumns /\ p.sync.next \in Null..Interval
    BY DEF Rows, SyncColumns
<1>2. /\ p.sync.next # Null => Elapse(p.sync.next) # Null
      /\ p.sync.next = Null => Elapse(p.sync.next) = Null
      /\ p.sync.next = 0 => Elapse(p.sync.next) = 0
    BY <1>1, RowAssumption DEF Elapse, Null
<1>3. ElapseRow(p).sync = [p.sync EXCEPT !.next = Elapse(@)]
    BY DEF ElapseRow, Rows
<1> QED
    BY <1>1, <1>2, <1>3 DEF Coherent, SyncColumns

\* The columns a pass writes are coherent.
LEMMA WrittenCoherent ==
    ASSUME TypeOK, NEW w \in Workers
    PROVE  /\ \A m : Coherent(Failed(w, m))
           /\ Coherent(Verdict(w))
<1>1. MoreFailures(worker[w].plate.sync.failures) > 0
    BY WorkerType, MoreFailuresType, RowAssumption
<1>2. worker[w].next # Null
    BY WorkerType, RowAssumption DEF Null
<1>3. Saw(w, "match") \in BOOLEAN
    BY DEF Saw
<1> QED
    BY <1>1, <1>2, <1>3 DEF Failed, Verdict, Coherent, Verdicts

\* Save and UpdateSyncState leave a row with the old columns or the new ones.
LEMMA WriteKeepsColumns ==
    /\ \A r \in Rows, p \in Rows : Save(r, p).sync = p.sync
    /\ \A r \in Rows, c \in SyncColumns : UpdateSyncState(r, c).sync \in {r.sync, c}
BY DEF Save, UpdateSyncState, Rows

\* Recording coherent columns leaves a coherent row.
LEMMA RecordCoherent ==
    ASSUME NEW r \in Rows, Coherent(r.sync), NEW c \in SyncColumns, Coherent(c)
    PROVE  Coherent(UpdateSyncState(r, c).sync)
BY WriteKeepsColumns

\* It holds of the initial states.
LEMMA CoherenceInit == Init => CoherenceInv
<1> SUFFICES ASSUME Init PROVE CoherenceInv
    OBVIOUS
<1>1. Coherent(row.sync)
    BY NewRowsCoherent, VerifiedType DEF Init
<1> QED
    BY <1>1, NewRowsCoherent
    DEF Init, CoherenceInv, SyncColumnsCoherent, CopiesCoherent, IdleWorker, IdleRequest

\* Every step keeps it.
LEMMA CoherenceStep == TypeInv /\ CoherenceInv /\ [Next]_vars => CoherenceInv'
<1> SUFFICES ASSUME TypeInv, CoherenceInv, [Next]_vars PROVE CoherenceInv'
    OBVIOUS
<1>0. TypeOK /\ FetchedIsSeen /\ SyncColumnsCoherent /\ CopiesCoherent
    BY DEF TypeInv, CoherenceInv
<1> USE <1>0
<1>1. ASSUME UNCHANGED vars PROVE CoherenceInv'
    BY <1>1 DEF vars, CoherenceInv, SyncColumnsCoherent, CopiesCoherent
<1>2. ASSUME EditRepository PROVE CoherenceInv'
    BY <1>2 DEF EditRepository, CoherenceInv, SyncColumnsCoherent, CopiesCoherent
<1>3. ASSUME Tick PROVE CoherenceInv'
    <2>1. SyncColumnsCoherent'
        BY <1>3, ElapseCoherent DEF Tick, TypeOK, SyncColumnsCoherent
    <2>2. ASSUME NEW w \in Workers
          PROVE  /\ Coherent(worker'[w].plate.sync)
                 /\ worker'[w].pc # "idle" => worker'[w].plate.sync.next = 0
        <3>1. /\ worker'[w].plate = ElapseRow(worker[w].plate)
              /\ worker'[w].pc = worker[w].pc
            BY <1>3, WorkerType DEF Tick, WorkerStates
        <3> QED
            BY <3>1, WorkerType, ElapseCoherent DEF CopiesCoherent
    <2>3. ASSUME NEW r \in Requests PROVE Coherent(request'[r].plate.sync)
        <3>1. request'[r].plate = ElapseRow(request[r].plate) /\ request[r].plate \in Rows
            BY <1>3 DEF Tick, TypeOK, RequestStates
        <3> QED
            BY <3>1, ElapseCoherent DEF CopiesCoherent
    <2> QED
        BY <2>1, <2>2, <2>3 DEF CoherenceInv, CopiesCoherent
<1>4. ASSUME NEW w \in Workers, WorkerStep(w) \/ Fault(w) PROVE CoherenceInv'
    <2> USE WorkerType
    <2>1. ASSUME NEW state, Step(w, state), UNCHANGED request, Coherent(row'.sync),
                 Coherent(state.plate.sync),
                 state.pc # "idle" => state.plate.sync.next = 0
          PROVE  CoherenceInv'
        BY <2>1 DEF Step, CoherenceInv, SyncColumnsCoherent, CopiesCoherent, TypeOK
    <2>2. Coherent(IdleWorker.plate.sync) /\ IdleWorker.pc = "idle"
        BY NewRowsCoherent DEF IdleWorker
    <2>3. /\ worker[w].pc # "idle" => worker[w].plate.sync.next = 0
          /\ Coherent(worker[w].plate.sync)
          /\ Coherent(row.sync)
          /\ row \in Rows
        BY DEF CopiesCoherent, SyncColumnsCoherent, TypeOK
    <2>4. CASE ListDue(w)
        <3>1. WithoutTags(row).sync = row.sync
            BY <2>3 DEF WithoutTags, Rows
        <3>2. row.sync.next = 0
            BY <2>3, <2>4 DEF ListDue, DueForSync, Coherent
        <3>3. [IdleWorker EXCEPT !.pc = "listed", !.plate = WithoutTags(row)].plate.sync
                = row.sync
            BY <3>1 DEF IdleWorker
        <3> QED
            BY <2>1, <2>3, <2>4, <3>2, <3>3 DEF ListDue
    <2>5. CASE MarkSyncing(w)
        <3>1. Coherent([worker[w].plate.sync EXCEPT !.state = "syncing"])
            BY <2>3, <2>5 DEF MarkSyncing, Coherent, SyncColumns, Verdicts
        <3>2. Coherent(row'.sync)
            BY <2>3, <2>5, <3>1, WrittenColumnsType, WriteKeepsColumns DEF MarkSyncing
        <3>3. [worker[w] EXCEPT !.pc = "marked", !.next = Interval].plate = worker[w].plate
            BY DEF WorkerStates
        <3> QED
            BY <2>1, <2>3, <2>5, <3>2, <3>3 DEF MarkSyncing
    <2>6. CASE Fetch(w)
        <3>1. [worker[w] EXCEPT !.pc = "fetched", !.seen = repo].plate = worker[w].plate
            BY DEF WorkerStates
        <3> QED
            BY <2>1, <2>3, <2>6, <3>1 DEF Fetch
    <2>7. CASE RecordFetchFailure(w)
        <3>1. Coherent(row'.sync)
            <4>1. Failed(w, NoRev) \in SyncColumns
                BY WrittenColumnsType
            <4>2. Coherent(Failed(w, NoRev))
                BY WrittenCoherent
            <4>3. row' = UpdateSyncState(row, Failed(w, NoRev))
                BY <2>7 DEF RecordFetchFailure
            <4> QED
                BY <2>3, <4>1, <4>2, <4>3, RecordCoherent
        <3> QED
            BY <2>1, <2>2, <2>7, <3>1 DEF RecordFetchFailure
    <2>8. [worker[w] EXCEPT !.pc = "hiding"].plate = worker[w].plate
        BY DEF WorkerStates
    <2>9. CASE RecordEncodingFailure(w)
        <3>1. Coherent(row'.sync)
            <4>1. Failed(w, NoRev) \in SyncColumns
                BY WrittenColumnsType
            <4>2. Coherent(Failed(w, NoRev))
                BY WrittenCoherent
            <4>3. row' = UpdateSyncState(row, Failed(w, NoRev))
                BY <2>9 DEF RecordEncodingFailure
            <4> QED
                BY <2>3, <4>1, <4>2, <4>3, RecordCoherent
        <3> QED
            BY <2>1, <2>3, <2>8, <2>9, <3>1 DEF RecordEncodingFailure
    <2>10. CASE SaveManifest(w)
        <3> DEFINE plate == [worker[w].plate EXCEPT !.sync.metadata = worker[w].seen.rev]
        <3>1. plate \in Rows
            BY <2>10, WrittenColumnsType DEF SaveManifest, Saw
        <3>2. Coherent(plate.sync) /\ plate.sync.next = 0
            BY <2>3, <2>10 DEF SaveManifest, Coherent, Rows, SyncColumns
        <3>3. row' = Save(row, plate)
            BY <2>10 DEF SaveManifest
        <3>4. Coherent(row'.sync)
            BY <2>3, <3>1, <3>2, <3>3, WriteKeepsColumns
        <3>5. [worker[w] EXCEPT !.pc = "saved", !.plate = plate].plate = plate
            BY DEF WorkerStates
        <3>6. Step(w, [worker[w] EXCEPT !.pc = "saved", !.plate = plate])
            BY <2>10 DEF SaveManifest
        <3> HIDE DEF plate
        <3> QED
            BY <2>1, <2>10, <3>2, <3>4, <3>5, <3>6 DEF SaveManifest
    <2>11. CASE DeleteTags(w)
        <3>1. row'.sync = row.sync
            BY <2>3, <2>11 DEF DeleteTags, Rows
        <3>2. [worker[w] EXCEPT !.pc = "untagged"].plate = worker[w].plate
            BY DEF WorkerStates
        <3> QED
            BY <2>1, <2>3, <2>11, <3>1, <3>2 DEF DeleteTags
    <2>12. CASE CreateTags(w)
        <3>1. row'.sync = row.sync
            BY <2>3, <2>12 DEF CreateTags, Rows
        <3>2. /\ [worker[w] EXCEPT !.pc = "tagged"].plate = worker[w].plate
              /\ [worker[w] EXCEPT !.pc = "manifestFailed"].plate = worker[w].plate
            BY DEF WorkerStates
        <3> QED
            BY <2>1, <2>3, <2>12, <3>1, <3>2 DEF CreateTags
    <2>13. CASE RecordManifestFailure(w)
        <3>1. worker[w].seen.rev \in Revs
            BY <2>13 DEF RecordManifestFailure, FetchedIsSeen, Manifests
        <3>2. Coherent(row'.sync)
            <4>1. Failed(w, worker[w].seen.rev) \in SyncColumns
                BY <3>1, WrittenColumnsType
            <4>2. Coherent(Failed(w, worker[w].seen.rev))
                BY WrittenCoherent
            <4>3. row' = UpdateSyncState(row, Failed(w, worker[w].seen.rev))
                BY <2>13 DEF RecordManifestFailure
            <4> QED
                BY <2>3, <4>1, <4>2, <4>3, RecordCoherent
        <3> QED
            BY <2>1, <2>3, <2>8, <2>13, <3>2 DEF RecordManifestFailure
    <2>14. CASE RecordVerdict(w)
        <3>1. worker[w].seen # NoRev
            BY <2>14 DEF RecordVerdict, FetchedIsSeen
        <3>2. Coherent(row'.sync)
            BY <2>3, <2>14, <3>1, WrittenCoherent, WrittenColumnsType, WriteKeepsColumns
            DEF RecordVerdict
        <3>3. [worker[w] EXCEPT !.pc = "recorded"].plate = worker[w].plate
            BY DEF WorkerStates
        <3> QED
            BY <2>1, <2>3, <2>14, <3>2, <3>3 DEF RecordVerdict
    <2>15. CASE SetVisibility(w)
        <3> DEFINE plate == [worker[w].plate EXCEPT !.visibility = DesiredVisibility(w)]
        <3>1. plate \in Rows /\ plate.sync = worker[w].plate.sync
            BY DEF DesiredVisibility, Rows, Visibilities
        <3>2. row' \in {row, Save(row, plate)}
            BY <2>15 DEF SetVisibility
        <3>3. Coherent(row'.sync)
            <4>1. Save(row, plate).sync = plate.sync
                BY <2>3, <3>1, WriteKeepsColumns
            <4> HIDE DEF plate
            <4> QED
                BY <2>3, <3>1, <3>2, <4>1
        <3> QED
            BY <2>1, <2>2, <2>15, <3>3 DEF SetVisibility
    <2>16. CASE ManifestFails(w)
        <3> DEFINE state == [worker[w] EXCEPT !.pc = "manifestFailed",
                                              !.plate.sync.metadata = worker[w].seen.rev]
        <3>1. Coherent(state.plate.sync) /\ state.plate.sync.next = 0
            BY <2>3, <2>16 DEF ManifestFails, Coherent, WorkerStates, Rows, SyncColumns
        <3>2. Step(w, state)
            BY <2>16 DEF ManifestFails
        <3> HIDE DEF state
        <3> QED
            BY <2>1, <2>3, <2>16, <3>1, <3>2 DEF ManifestFails
    <2>17. CASE FailureNotRecorded(w)
        BY <2>1, <2>3, <2>8, <2>17 DEF FailureNotRecorded
    <2>18. CASE Abandon(w)
        BY <2>1, <2>2, <2>3, <2>18 DEF Abandon
    <2> QED
        BY <1>4, <2>4, <2>5, <2>6, <2>7, <2>9, <2>10, <2>11, <2>12, <2>13, <2>14,
           <2>15, <2>16, <2>17, <2>18
        DEF WorkerStep, Fault
<1>5. ASSUME NEW r \in Requests, RequestStep(r) PROVE CoherenceInv'
    <2>1. ASSUME NEW state, Serve(r, state), UNCHANGED worker,
                 Coherent(row'.sync), Coherent(state.plate.sync)
          PROVE  CoherenceInv'
        BY <2>1 DEF Serve, CoherenceInv, SyncColumnsCoherent, CopiesCoherent, TypeOK
    <2>2. /\ Coherent(IdleRequest.plate.sync)
          /\ Coherent(request[r].plate.sync)
          /\ Coherent(row.sync)
          /\ request[r] \in RequestStates
          /\ request[r].plate \in Rows
          /\ row \in Rows
        BY NewRowsCoherent
        DEF IdleRequest, CopiesCoherent, SyncColumnsCoherent, TypeOK, RequestStates
    <2>3. ASSUME NEW kind \in Kinds, Load(r, kind) PROVE CoherenceInv'
        <3>1. WithoutTags(row).sync = row.sync
            BY <2>2 DEF WithoutTags, Rows
        <3> QED
            BY <2>1, <2>2, <2>3, <3>1 DEF Load
    <2>4. CASE SaveEdit(r)
        <3>1. Coherent(row'.sync)
            BY <2>2, <2>4, EditsType, WriteKeepsColumns DEF SaveEdit
        <3> QED
            BY <2>1, <2>2, <2>4, <3>1 DEF SaveEdit
    <2>5. CASE MoveToOrganization(r)
        <3>1. row'.sync = row.sync
            BY <2>2, <2>5 DEF MoveToOrganization, UpdateOrganization, Rows
        <3> QED
            BY <2>1, <2>2, <2>5, <3>1 DEF MoveToOrganization
    <2>6. CASE VerifyFetch(r)
        <3>1. [request[r] EXCEPT !.pc = "matched", !.plate = Verified(@)].plate
                = Verified(request[r].plate)
            BY <2>2 DEF RequestStates
        <3> QED
            BY <2>1, <2>2, <2>6, <3>1, VerifiedType DEF VerifyFetch
    <2>7. CASE VerifySave(r)
        <3>1. Coherent(row'.sync)
            BY <2>2, <2>7, WriteKeepsColumns DEF VerifySave
        <3> QED
            BY <2>1, <2>2, <2>7, <3>1 DEF VerifySave
    <2>8. CASE RemoveChildren(r)
        <3>1. row'.sync = row.sync
            BY <2>2, <2>8 DEF RemoveChildren, Rows
        <3>2. [request[r] EXCEPT !.pc = "emptied"].plate = request[r].plate
            BY <2>2 DEF RequestStates
        <3> QED
            BY <2>1, <2>2, <2>8, <3>1, <3>2 DEF RemoveChildren
    <2>9. CASE RemoveRow(r)
        BY <2>1, <2>2, <2>9, NewRowsCoherent DEF RemoveRow
    <2>10. CASE Refuse(r)
        BY <2>1, <2>2, <2>10 DEF Refuse
    <2> QED
        BY <1>5, <2>3, <2>4, <2>5, <2>6, <2>7, <2>8, <2>9, <2>10 DEF RequestStep
<1> QED
    BY <1>1, <1>2, <1>3, <1>4, <1>5 DEF Next

\* However many workers and handlers write their stale copies over each other,
\* the row's sync columns are always ones that a single pass or verification
\* could have left together.
THEOREM SyncColumnsStayCoherent == Spec => []SyncColumnsCoherent
<1>1. Spec => [](TypeInv /\ CoherenceInv)
    BY TypeInit, TypeStep, CoherenceInit, CoherenceStep, PTL DEF Spec
<1>2. CoherenceInv => SyncColumnsCoherent
    BY DEF CoherenceInv
<1> QED
    BY <1>1, <1>2, PTL

-----------------------------------------------------------------------------
(***************************************************************************)
(* Nothing touches a plate before its token was read.  Inductive: until    *)
(* then every worker is idle, and no handler holds a verified copy that it *)
(* could still save.                                                       *)
(***************************************************************************)
NothingUnderWay ==
    /\ \A w \in Workers : worker[w].pc = "idle"
    /\ \A r \in Requests : /\ request[r].pc # "matched"
                           /\ request[r].plate.sync.state = "none"

UnprovenInv == ~tokenSeen => row.sync.state = "none" /\ NothingUnderWay

\* It holds of the initial states.
LEMMA UnprovenInit == Init => UnprovenInv
BY DEF Init, UnprovenInv, NothingUnderWay, Submitted, Absent, NeverSynced,
       IdleWorker, IdleRequest

\* Every step keeps it.
LEMMA UnprovenStep ==
    TypeInv /\ CoherenceInv /\ UnprovenInv /\ [Next]_vars => UnprovenInv'
<1> SUFFICES ASSUME TypeInv, CoherenceInv, UnprovenInv, [Next]_vars, ~tokenSeen'
             PROVE  (row.sync.state = "none" /\ NothingUnderWay)'
    BY DEF UnprovenInv
<1>0. TypeOK /\ Coherent(row.sync) /\ row \in Rows
    BY DEF TypeInv, CoherenceInv, SyncColumnsCoherent, TypeOK
<1>1. CASE tokenSeen
    <2>1. ~tokenSeen' => ~tokenSeen
        BY <1>0 DEF Next, vars, EditRepository, Tick, WorkerStep, ListDue, MarkSyncing,
            Fetch, RecordFetchFailure, RecordEncodingFailure, SaveManifest, DeleteTags,
            CreateTags, RecordManifestFailure, RecordVerdict, SetVisibility, Fault,
            ManifestFails, FailureNotRecorded, Abandon, RequestStep, Load, SaveEdit,
            MoveToOrganization, VerifyFetch, VerifySave, RemoveChildren, RemoveRow,
            Refuse, TypeOK
    <2> QED
        BY <1>1, <2>1
<1>2. CASE ~tokenSeen
    <2>0. row.sync.state = "none" /\ NothingUnderWay
        BY <1>2 DEF UnprovenInv
    <2>1. CASE UNCHANGED vars
        BY <2>0, <2>1 DEF vars, NothingUnderWay
    <2>2. CASE EditRepository
        BY <2>0, <2>2 DEF EditRepository, NothingUnderWay
    <2>3. CASE Tick
        <3>1. ASSUME NEW p \in Rows PROVE ElapseRow(p).sync.state = p.sync.state
            BY DEF ElapseRow, Rows, SyncColumns
        <3>2. \A w \in Workers : worker'[w].pc = worker[w].pc
            BY <1>0, <2>3, WorkerType DEF Tick, WorkerStates
        <3>3. \A r \in Requests : /\ request'[r].pc = request[r].pc
                                  /\ request'[r].plate = ElapseRow(request[r].plate)
                                  /\ request[r].plate \in Rows
            BY <1>0, <2>3 DEF Tick, TypeOK, RequestStates
        <3>4. row' = ElapseRow(row)
            BY <2>3 DEF Tick
        <3> QED
            BY <1>0, <2>0, <3>1, <3>2, <3>3, <3>4 DEF NothingUnderWay
    <2>4. ASSUME NEW w \in Workers, WorkerStep(w) \/ Fault(w) PROVE FALSE
        <3>1. worker[w].pc = "idle"
            BY <2>0 DEF NothingUnderWay
        <3>2. ~DueForSync(row)
            BY <1>0, <2>0, RowAssumption DEF DueForSync, Coherent, Null
        <3> QED
            BY <2>4, <3>1, <3>2
            DEF WorkerStep, ListDue, MarkSyncing, Fetch, RecordFetchFailure,
                RecordEncodingFailure, SaveManifest, DeleteTags, CreateTags,
                RecordManifestFailure, RecordVerdict, SetVisibility, Fault,
                ManifestFails, FailureNotRecorded, Abandon
    <2>5. ASSUME NEW r \in Requests, RequestStep(r)
          PROVE  (row.sync.state = "none" /\ NothingUnderWay)'
        <3>1. ASSUME NEW state, Serve(r, state), UNCHANGED worker,
                     row'.sync.state = "none", state.pc # "matched",
                     state.plate.sync.state = "none"
              PROVE  (row.sync.state = "none" /\ NothingUnderWay)'
            BY <1>0, <2>0, <3>1 DEF Serve, NothingUnderWay, TypeOK
        <3>2. IdleRequest.pc = "idle" /\ IdleRequest.plate.sync.state = "none"
            BY DEF IdleRequest, Absent, NeverSynced
        <3>3. /\ request[r] \in RequestStates
              /\ request[r].plate \in Rows
              /\ request[r].pc # "matched"
              /\ request[r].plate.sync.state = "none"
            BY <1>0, <2>0 DEF TypeOK, RequestStates, NothingUnderWay
        <3>4. ASSUME NEW kind \in Kinds, Load(r, kind)
              PROVE  (row.sync.state = "none" /\ NothingUnderWay)'
            <4>1. WithoutTags(row).sync = row.sync
                BY <1>0 DEF WithoutTags, Rows
            <4> QED
                BY <2>0, <3>1, <3>4, <4>1 DEF Load
        <3>5. CASE SaveEdit(r)
            <4>1. row'.sync.state = "none"
                BY <1>0, <3>3, <3>5, EditsType, WriteKeepsColumns DEF SaveEdit
            <4> QED
                BY <3>1, <3>2, <3>5, <4>1 DEF SaveEdit
        <3>6. CASE MoveToOrganization(r)
            <4>1. row'.sync = row.sync
                BY <1>0, <3>6 DEF MoveToOrganization, UpdateOrganization, Rows
            <4> QED
                BY <2>0, <3>1, <3>2, <3>6, <4>1 DEF MoveToOrganization
        <3>7. CASE VerifyFetch(r)
            BY <3>7 DEF VerifyFetch
        <3>8. CASE VerifySave(r)
            BY <3>3, <3>8 DEF VerifySave
        <3>9. CASE RemoveChildren(r)
            <4>1. row'.sync = row.sync
                BY <1>0, <3>9 DEF RemoveChildren, Rows
            <4>2. /\ [request[r] EXCEPT !.pc = "emptied"].plate = request[r].plate
                  /\ [request[r] EXCEPT !.pc = "emptied"].pc = "emptied"
                BY <3>3 DEF RequestStates
            <4> QED
                BY <2>0, <3>1, <3>3, <3>9, <4>1, <4>2 DEF RemoveChildren
        <3>10. CASE RemoveRow(r)
            <4>1. Absent.sync.state = "none"
                BY DEF Absent, NeverSynced
            <4> QED
                BY <2>0, <3>1, <3>2, <3>10, <4>1 DEF RemoveRow
        <3>11. CASE Refuse(r)
            BY <2>0, <3>1, <3>2, <3>11 DEF Refuse
        <3> QED
            BY <2>5, <3>4, <3>5, <3>6, <3>7, <3>8, <3>9, <3>10, <3>11 DEF RequestStep
    <2> QED
        BY <2>1, <2>2, <2>3, <2>4, <2>5 DEF Next
<1> QED
    BY <1>1, <1>2

\* No pass and no handler gives a plate a verdict before its token was read in
\* the repository: pending plates are not synced, and nothing forges a verdict.
THEOREM UnprovenStaysUntouched == Spec => []UnprovenPlateUntouched
<1>1. Spec => [](TypeInv /\ CoherenceInv /\ UnprovenInv)
    BY TypeInit, TypeStep, CoherenceInit, CoherenceStep, UnprovenInit, UnprovenStep, PTL
    DEF Spec
<1>2. UnprovenInv => UnprovenPlateUntouched
    BY DEF UnprovenInv, UnprovenPlateUntouched
<1> QED
    BY <1>1, <1>2, PTL

-----------------------------------------------------------------------------
(***************************************************************************)
(* Only a pass that read the token publishes.                              *)
(***************************************************************************)

\* The step a worker takes: publishing needs the token.
WorkerPublishes ==
    \A w \in Workers :
        (/\ worker'[w] # worker[w]
         /\ started' = started /\ request' = request /\ faults' = faults
         /\ row.visibility # "public" /\ row'.visibility = "public")
           => Saw(w, "match")

\* Of the statements of a pass only Save writes the visibility.
LEMMA PublishingStep == TypeInv /\ [Next]_vars => WorkerPublishes
<1> SUFFICES ASSUME TypeInv, [Next]_vars, NEW w \in Workers,
                    worker'[w] # worker[w], request' = request, faults' = faults,
                    started' = started,
                    row.visibility # "public", row'.visibility = "public"
             PROVE  Saw(w, "match")
    BY DEF WorkerPublishes
<1>0. TypeOK /\ row \in Rows
    BY DEF TypeInv, TypeOK
<1>1. \A c : UpdateSyncState(row, c).visibility = row.visibility
    BY <1>0 DEF UpdateSyncState, Rows
<1>2. CASE UNCHANGED vars \/ EditRepository
    BY <1>2 DEF vars, EditRepository
<1>3. CASE Tick
    BY <1>0, <1>3 DEF Tick, ElapseRow, Rows
<1>4. ASSUME NEW v \in Workers, WorkerStep(v) \/ Fault(v) PROVE Saw(w, "match")
    <2>1. ASSUME NEW state, Step(v, state) PROVE v = w
        BY <1>0, <2>1 DEF Step, TypeOK
    <2>2. CASE ListDue(v) \/ Fetch(v)
        BY <2>2 DEF ListDue, Fetch
    <2>3. CASE MarkSyncing(v) \/ RecordFetchFailure(v) \/ RecordEncodingFailure(v)
                 \/ RecordManifestFailure(v) \/ RecordVerdict(v)
        BY <1>1, <2>3 DEF MarkSyncing, RecordFetchFailure, RecordEncodingFailure,
            RecordManifestFailure, RecordVerdict
    <2>4. CASE SaveManifest(v)
        BY <2>1, <2>4 DEF SaveManifest
    <2>5. CASE DeleteTags(v) \/ CreateTags(v)
        BY <1>0, <2>5 DEF DeleteTags, CreateTags, Rows
    <2>6. CASE SetVisibility(v)
        <3> DEFINE plate == [worker[v].plate EXCEPT !.visibility = DesiredVisibility(v)]
        <3>1. worker[v].plate \in Rows
            BY <1>0, WorkerType
        <3>2. Save(row, plate).visibility = DesiredVisibility(v)
            BY <1>0, <3>1 DEF Save, Rows
        <3>3. DesiredVisibility(v) = "public"
            BY <2>6, <3>2 DEF SetVisibility
        <3>4. Saw(v, "match")
            BY <3>3 DEF DesiredVisibility
        <3> QED
            BY <2>1, <2>6, <3>4 DEF SetVisibility
    <2>7. CASE Fault(v)
        BY <1>0, <2>7 DEF Fault, ManifestFails, FailureNotRecorded, Abandon
    <2> QED
        BY <1>4, <2>2, <2>3, <2>4, <2>5, <2>6, <2>7 DEF WorkerStep
<1>5. ASSUME NEW r \in Requests, RequestStep(r) PROVE FALSE
    BY <1>5 DEF RequestStep, Load, SaveEdit, MoveToOrganization, VerifyFetch, VerifySave,
        RemoveChildren, RemoveRow, Refuse
<1> QED
    BY <1>2, <1>3, <1>4, <1>5 DEF Next

\* A worker makes a plate public only in a pass that itself read the token.
THEOREM OnlyMatchPublishesAlways == Spec => OnlyMatchPublishes
<1>1. TypeInv /\ [Next]_vars => [WorkerPublishes]_vars
    BY PublishingStep
<1>2. Spec => [][WorkerPublishes]_vars
    BY <1>1, TypeInit, TypeStep, PTL DEF Spec
<1> QED
    BY <1>2 DEF OnlyMatchPublishes, WorkerPublishes
=============================================================================
