----------------------------- MODULE PlateSync -----------------------------
(***************************************************************************)
(* The life of one repository plate under the sync worker (`app:sync`,     *)
(* api/command/sync.go) and the API server's handlers (`app:serve`,        *)
(* api/service/plate).  Both read the plate's row into memory, work on     *)
(* that copy, talk to GitHub, and write it back; no transaction, lock or   *)
(* version check spans those steps.  Each action is one SQL statement or   *)
(* one exchange with GitHub, so every interleaving of them is possible.    *)
(*                                                                         *)
(* A pass over one plate never reads another plate's row, so one plate     *)
(* shows every interleaving; the other plates of a batch only make the     *)
(* wait between ListDue and MarkSyncing longer, which is any length here.  *)
(***************************************************************************)
EXTENDS PlateRow

CONSTANTS
    Workers,      \* sync worker processes (sync.replicaCount of the chart)
    Requests,     \* API requests that can be in flight at once
    Kinds,        \* what the API requests may ask for
    Outcomes,     \* what a fetch of the manifest can come to
    MaxRequests,  \* bound: API requests in a behaviour
    MaxFaults     \* bound: crashes and failed statements in a behaviour

\* "match": the manifest holds the plate's token; "mismatch": another or none;
\* "unencodable": it parses as YAML but json.Marshal refuses it (a mapping whose
\* keys are not all strings); "unreachable": any fetch error, no manifest included.
Manifests == [token : Outcomes, rev : Revs]

ASSUME SyncAssumption ==
    /\ Kinds \subseteq {"update", "move", "archive", "approve", "reject",
                        "review", "verify", "remove"}
    /\ {"match", "mismatch"} \subseteq Outcomes
    /\ Outcomes \subseteq {"match", "mismatch", "unencodable", "unreachable"}
    /\ NoRev \notin Manifests
    /\ MaxRequests \in Nat
    /\ MaxFaults \in Nat

VARIABLES
    row,        \* the plate's row in PostgreSQL
    repo,       \* the manifest in the plate's GitHub repository
    worker,     \* what each sync worker holds in memory
    request,    \* what each API request holds in memory
    started,    \* API requests started so far
    faults,     \* crashes and failed statements so far
    tokenSeen   \* history: some fetch has read the plate's own token

vars == <<row, repo, worker, request, started, faults, tokenSeen>>

WorkerSteps == {"idle", "listed", "marked", "fetched", "saved", "untagged",
                "tagged", "manifestFailed", "recorded", "hiding"}

WorkerStates ==
    [pc    : WorkerSteps,
     plate : Rows,            \* the struct ListDueForSync returned
     next  : 0..Interval,     \* nextSync, computed when the pass begins
     seen  : Manifests \cup {NoRev}]

IdleWorker == [pc |-> "idle", plate |-> Absent, next |-> 0, seen |-> NoRev]

RequestStates ==
    [pc    : {"idle", "loaded", "matched", "emptied"},
     kind  : Kinds \cup {"none"},
     plate : Rows]            \* the struct GetByID or First returned

IdleRequest == [pc |-> "idle", kind |-> "none", plate |-> Absent]

\* Every variable keeps its type: no statement writes a status, visibility or
\* verdict outside the enums of model/plate.go, and no pass skips a step.
TypeOK ==
    /\ row \in Rows
    /\ repo \in Manifests
    /\ worker \in [Workers -> WorkerStates]
    /\ request \in [Requests -> RequestStates]
    /\ started \in 0..MaxRequests
    /\ faults \in 0..MaxFaults
    /\ tokenSeen \in BOOLEAN

-----------------------------------------------------------------------------
(***************************************************************************)
(* The API's handlers work on a copy of the row.  These are what they make *)
(* of it.                                                                  *)
(***************************************************************************)

\* Update's results: the caller's visibility, unless the organization is private.
Update(plate) ==
    {[plate EXCEPT !.visibility = IF plate.org \in PrivateOrgs THEN "private" ELSE v] :
        v \in Visibilities}

Archive(plate) == {[plate EXCEPT !.status = "archived"]}

Approve(plate) == {[plate EXCEPT !.status = "approved"]}

Reject(plate) == {[plate EXCEPT !.status = "rejected"]}

\* SubmitReview saves the copy it loaded with a new avg_rating, which no property
\* here looks at.
SubmitReview(plate) == {plate}

Edits(kind, plate) ==
    CASE kind = "update"  -> Update(plate)
      [] kind = "archive" -> Archive(plate)
      [] kind = "approve" -> Approve(plate)
      [] kind = "reject"  -> Reject(plate)
      [] kind = "review"  -> SubmitReview(plate)
      [] OTHER            -> {}

\* What VerifyRepository makes of the copy once the token is found.
Verified(plate) ==
    [plate EXCEPT !.status = "approved",
                  !.visibility = IF plate.org \in PrivateOrgs
                                 THEN "private" ELSE "public",
                  !.sync.state = "synced",
                  !.sync.next = Interval,
                  !.sync.verified = TRUE,
                  !.sync.verifiedAt = TRUE]

-----------------------------------------------------------------------------
(***************************************************************************)
(* The plate begins as SubmitRepository left it, when the manifest cannot  *)
(* hold the token yet, or as a first VerifyRepository left it.             *)
(***************************************************************************)
Init ==
    /\ \E o \in Orgs \cup {NoOrg}, m \in Revs :
          \/ /\ repo = [token |-> "mismatch", rev |-> m]
             /\ row = Submitted(o, m)
             /\ tokenSeen = FALSE
          \/ /\ repo = [token |-> "match", rev |-> m]
             /\ row = Verified(Submitted(o, m))
             /\ tokenSeen = TRUE
    /\ worker = [w \in Workers |-> IdleWorker]
    /\ request = [r \in Requests |-> IdleRequest]
    /\ started = 0
    /\ faults = 0

\* The author edits the manifest; GitHub goes away or comes back.
EditRepository ==
    /\ \E m \in Manifests : m # repo /\ repo' = m
    /\ UNCHANGED <<row, worker, request, started, faults, tokenSeen>>

\* A tick of the clock: every time that is still ahead comes one tick closer.
Tick ==
    /\ row' = ElapseRow(row)
    /\ worker' = [w \in Workers |->
                    [worker[w] EXCEPT !.plate = ElapseRow(@), !.next = Elapse(@)]]
    /\ request' = [r \in Requests |->
                    [request[r] EXCEPT !.plate = ElapseRow(@)]]
    /\ <<row, worker, request>>' # <<row, worker, request>>
    /\ UNCHANGED <<repo, started, faults, tokenSeen>>

-----------------------------------------------------------------------------
(***************************************************************************)
(* The sync worker: Run polls, syncOnePlate makes one pass over a plate.   *)
(***************************************************************************)
Step(w, state) == worker' = [worker EXCEPT ![w] = state]

\* The poll returns the plate among the due ones.
ListDue(w) ==
    /\ worker[w].pc = "idle"
    /\ DueForSync(row)
    /\ Step(w, [IdleWorker EXCEPT !.pc = "listed", !.plate = WithoutTags(row)])
    /\ UNCHANGED <<row, repo, request, started, faults, tokenSeen>>

\* The pass begins: `syncing` with every other column as it was listed.
MarkSyncing(w) ==
    /\ worker[w].pc = "listed"
    /\ row' = UpdateSyncState(row, [worker[w].plate.sync EXCEPT !.state = "syncing"])
    /\ Step(w, [worker[w] EXCEPT !.pc = "marked", !.next = Interval])
    /\ UNCHANGED <<repo, request, started, faults, tokenSeen>>

Fetch(w) ==
    /\ worker[w].pc = "marked"
    /\ Step(w, [worker[w] EXCEPT !.pc = "fetched", !.seen = repo])
    /\ tokenSeen' = (tokenSeen \/ repo.token = "match")
    /\ UNCHANGED <<row, repo, request, started, faults>>

Saw(w, token) == worker[w].seen # NoRev /\ worker[w].seen.token = token

\* The columns of a failed pass.
Failed(w, metadata) ==
    [state |-> "failed", next |-> worker[w].next,
     failures |-> MoreFailures(worker[w].plate.sync.failures),
     verified |-> FALSE, verifiedAt |-> FALSE, metadata |-> metadata]

\* The fetch failed: the failure is recorded and the pass returns.  The branch
\* leaves the visibility as it is and clears the stored manifest.
RecordFetchFailure(w) ==
    /\ worker[w].pc = "fetched"
    /\ Saw(w, "unreachable")
    /\ row' = UpdateSyncState(row, Failed(w, NoRev))
    /\ Step(w, IdleWorker)
    /\ UNCHANGED <<repo, request, started, faults, tokenSeen>>

\* json.Marshal failed, whatever the token was.
RecordEncodingFailure(w) ==
    /\ worker[w].pc = "fetched"
    /\ Saw(w, "unencodable")
    /\ row' = UpdateSyncState(row, Failed(w, NoRev))
    /\ Step(w, [worker[w] EXCEPT !.pc = "hiding"])
    /\ UNCHANGED <<repo, request, started, faults, tokenSeen>>

\* A slip: a manifest that did not change is not persisted again.
SaveManifest_SkipUnchanged(w) ==
    /\ worker[w].pc = "fetched"
    /\ Saw(w, "match")
    /\ LET plate == [worker[w].plate EXCEPT !.sync.metadata = worker[w].seen.rev]
       IN  IF plate = worker[w].plate
           THEN UNCHANGED row /\ Step(w, [worker[w] EXCEPT !.pc = "tagged"])
           ELSE /\ row' = Save(row, plate)
                /\ Step(w, [worker[w] EXCEPT !.pc = "saved", !.plate = plate])
    /\ UNCHANGED <<repo, request, started, faults, tokenSeen>>

\* syncPlateManifest saves the listed struct with the manifest's contents.
SaveManifest(w) ==
    /\ worker[w].pc = "fetched"
    /\ Saw(w, "match")
    /\ LET plate == [worker[w].plate EXCEPT !.sync.metadata = worker[w].seen.rev]
       IN  /\ row' = Save(row, plate)
           /\ Step(w, [worker[w] EXCEPT !.pc = "saved", !.plate = plate])
    /\ UNCHANGED <<repo, request, started, faults, tokenSeen>>

\* syncPlateManifest's two tag statements; the second violates the foreign key
\* when the plate is gone.
DeleteTags(w) ==
    /\ worker[w].pc = "saved"
    /\ row' = [row EXCEPT !.tags = {}]
    /\ Step(w, [worker[w] EXCEPT !.pc = "untagged"])
    /\ UNCHANGED <<repo, request, started, faults, tokenSeen>>

CreateTags(w) ==
    /\ worker[w].pc = "untagged"
    /\ \/ /\ row.exists
          /\ row' = [row EXCEPT !.tags = @ \cup {worker[w].seen.rev}]
          /\ Step(w, [worker[w] EXCEPT !.pc = "tagged"])
       \/ /\ ~row.exists
          /\ Step(w, [worker[w] EXCEPT !.pc = "manifestFailed"])
          /\ UNCHANGED row
    /\ UNCHANGED <<repo, request, started, faults, tokenSeen>>

\* A statement of syncPlateManifest fails.  The struct has its new contents
\* even when the Save is the one that failed.
ManifestFails(w) ==
    /\ faults < MaxFaults
    /\ \/ worker[w].pc \in {"saved", "untagged"}
       \/ worker[w].pc = "fetched" /\ Saw(w, "match")
    /\ Step(w, [worker[w] EXCEPT !.pc = "manifestFailed",
                                 !.plate.sync.metadata = worker[w].seen.rev])
    /\ faults' = faults + 1
    /\ UNCHANGED <<row, repo, request, started, tokenSeen>>

\* The error branch of syncPlateManifest.
RecordManifestFailure(w) ==
    /\ worker[w].pc = "manifestFailed"
    /\ row' = UpdateSyncState(row, Failed(w, worker[w].seen.rev))
    /\ Step(w, [worker[w] EXCEPT !.pc = "hiding"])
    /\ UNCHANGED <<repo, request, started, faults, tokenSeen>>

\* A failure that cannot be recorded is ignored, and the pass goes on to hide
\* the plate.
FailureNotRecorded(w) ==
    /\ faults < MaxFaults
    /\ \/ worker[w].pc = "manifestFailed"
       \/ worker[w].pc = "fetched" /\ Saw(w, "unencodable")
    /\ Step(w, [worker[w] EXCEPT !.pc = "hiding"])
    /\ faults' = faults + 1
    /\ UNCHANGED <<row, repo, request, started, tokenSeen>>

\* The verdict of a pass that read a manifest.
Verdict(w) ==
    LET matched == Saw(w, "match")
    IN  [state |-> IF matched THEN "synced" ELSE "unverified",
         next |-> worker[w].next, failures |-> 0,
         verified |-> matched, verifiedAt |-> matched,
         metadata |-> worker[w].seen.rev]

RecordVerdict(w) ==
    /\ \/ worker[w].pc = "tagged"
       \/ worker[w].pc = "fetched" /\ Saw(w, "mismatch")
    /\ row' = UpdateSyncState(row, Verdict(w))
    /\ Step(w, [worker[w] EXCEPT !.pc = "recorded"])
    /\ UNCHANGED <<repo, request, started, faults, tokenSeen>>

\* A slip: the visibility starts as Go's zero value and an encoding failure
\* leaves it so.
DesiredVisibility_ZeroValue(w) ==
    CASE Saw(w, "match")       -> "public"
      [] Saw(w, "unencodable") -> ""
      [] OTHER                 -> "private"

\* A slip: the visibility follows the listed is_verified, not the manifest.
DesiredVisibility_FromListed(w) ==
    IF worker[w].plate.sync.verified THEN "public" ELSE "private"

\* A slip: the branch that read the token keeps the visibility it found.
DesiredVisibility_KeptOnMatch(w) ==
    IF worker[w].pc = "recorded" /\ Saw(w, "match")
    THEN worker[w].plate.visibility ELSE "private"

\* What the pass wants the plate's visibility to be.
DesiredVisibility(w) ==
    IF worker[w].pc = "recorded" /\ Saw(w, "match") THEN "public" ELSE "private"

\* setVisibility, the last write of a pass: nothing when the listed struct has
\* that visibility already, else a Save of the struct as it was listed.
SetVisibility(w) ==
    /\ worker[w].pc \in {"recorded", "hiding"}
    /\ row' = IF worker[w].plate.visibility = DesiredVisibility(w)
              THEN row
              ELSE Save(row, [worker[w].plate EXCEPT
                                !.visibility = DesiredVisibility(w)])
    /\ Step(w, IdleWorker)
    /\ UNCHANGED <<repo, request, started, faults, tokenSeen>>

\* The process dies, or a statement whose error ends the pass fails (marking,
\* recording, setVisibility): both forget the struct and poll again.
Abandon(w) ==
    /\ worker[w].pc # "idle"
    /\ faults < MaxFaults
    /\ faults' = faults + 1
    /\ Step(w, IdleWorker)
    /\ UNCHANGED <<row, repo, request, started, tokenSeen>>

WorkerStep(w) ==
    \/ ListDue(w)
    \/ MarkSyncing(w)
    \/ Fetch(w)
    \/ RecordFetchFailure(w)
    \/ RecordEncodingFailure(w)
    \/ SaveManifest(w)
    \/ DeleteTags(w)
    \/ CreateTags(w)
    \/ RecordManifestFailure(w)
    \/ RecordVerdict(w)
    \/ SetVisibility(w)

Fault(w) ==
    \/ ManifestFails(w)
    \/ FailureNotRecorded(w)
    \/ Abandon(w)

-----------------------------------------------------------------------------
(***************************************************************************)
(* The API's handlers.  Each one loads the plate, checks the caller, works *)
(* on the copy, and saves it.                                              *)
(***************************************************************************)
Serve(r, state) == request' = [request EXCEPT ![r] = state]

\* The load and the checks on it.  VerifyRepository refuses a plate that is not
\* pending and loads no associations; GetByID preloads the tags.
Load(r, kind) ==
    /\ request[r].pc = "idle"
    /\ started < MaxRequests
    /\ row.exists
    /\ kind = "verify" => row.status = "pending"
    /\ Serve(r, [pc |-> "loaded", kind |-> kind,
                 plate |-> IF kind = "verify" THEN WithoutTags(row) ELSE row])
    /\ started' = started + 1
    /\ UNCHANGED <<row, repo, worker, faults, tokenSeen>>

SaveEdit(r) ==
    /\ request[r].pc = "loaded"
    /\ \E plate \in Edits(request[r].kind, request[r].plate) :
          row' = Save(row, plate)
    /\ Serve(r, IdleRequest)
    /\ UNCHANGED <<repo, worker, started, faults, tokenSeen>>

\* MoveToOrganization writes its two columns and nothing else.
MoveToOrganization(r) ==
    /\ request[r].pc = "loaded"
    /\ request[r].kind = "move"
    /\ \E o \in Orgs \cup {NoOrg} :
          row' = IF row.exists THEN UpdateOrganization(row, o) ELSE row
    /\ Serve(r, IdleRequest)
    /\ UNCHANGED <<repo, worker, started, faults, tokenSeen>>

\* One of the two attempts reads the token.  Nothing is encoded here, so that a
\* manifest the worker's pass would break off on may be the one that holds it.
VerifyFetch(r) ==
    /\ request[r].pc = "loaded"
    /\ request[r].kind = "verify"
    /\ repo.token \in {"match", "unencodable"}
    /\ Serve(r, [request[r] EXCEPT !.pc = "matched", !.plate = Verified(@)])
    /\ tokenSeen' = TRUE
    /\ UNCHANGED <<row, repo, worker, started, faults>>

VerifySave(r) ==
    /\ request[r].pc = "matched"
    /\ row' = Save(row, request[r].plate)
    /\ Serve(r, IdleRequest)
    /\ UNCHANGED <<repo, worker, started, faults, tokenSeen>>

\* Remove deletes the plate's children table by table, then the plate, which
\* the foreign key refuses when tags have appeared again.
RemoveChildren(r) ==
    /\ request[r].pc = "loaded"
    /\ request[r].kind = "remove"
    /\ row' = [row EXCEPT !.tags = {}]
    /\ Serve(r, [request[r] EXCEPT !.pc = "emptied"])
    /\ UNCHANGED <<repo, worker, started, faults, tokenSeen>>

RemoveRow(r) ==
    /\ request[r].pc = "emptied"
    /\ row' = IF row.tags = {} THEN Absent ELSE row
    /\ Serve(r, IdleRequest)
    /\ UNCHANGED <<repo, worker, started, faults, tokenSeen>>

\* A request that ends before its next write: the caller may not do this, both
\* attempts of a verification missed the token, or a statement failed.
Refuse(r) ==
    /\ request[r].pc # "idle"
    /\ Serve(r, IdleRequest)
    /\ UNCHANGED <<row, repo, worker, started, faults, tokenSeen>>

RequestStep(r) ==
    \/ \E kind \in Kinds : Load(r, kind)
    \/ SaveEdit(r)
    \/ MoveToOrganization(r)
    \/ VerifyFetch(r)
    \/ VerifySave(r)
    \/ RemoveChildren(r)
    \/ RemoveRow(r)
    \/ Refuse(r)

-----------------------------------------------------------------------------
Next ==
    \/ EditRepository
    \/ Tick
    \/ \E w \in Workers : WorkerStep(w) \/ Fault(w)
    \/ \E r \in Requests : RequestStep(r)

Spec == Init /\ [][Next]_vars

\* The worker's loop has no exit and the clock advances.  Nothing makes an
\* author fix a manifest or a user send a request.
Fairness == WF_vars(Tick) /\ \A w \in Workers : WF_vars(WorkerStep(w))

FairSpec == Spec /\ Fairness

-----------------------------------------------------------------------------
(***************************************************************************)
(* Safety.                                                                 *)
(***************************************************************************)

\* The sync columns of one struct agree with each other: a verdict comes with a
\* next sync, `syncing` with one that has passed (so that a pass cut short is
\* listed again), and is_verified with the verdict and with verified_at.
Coherent(c) ==
    /\ c.state = "none" => c.next = Null /\ ~c.verified
    /\ c.state = "syncing" => c.next = 0
    /\ c.state \in Verdicts => c.next # Null
    /\ c.state = "synced" => c.verified
    /\ c.state \in {"failed", "unverified"} => ~c.verified
    /\ c.state = "failed" => c.failures > 0
    /\ c.verified = c.verifiedAt

\* However stale copies overwrite each other, the row never mixes the sync
\* columns of two passes into a combination no pass has written.
SyncColumnsCoherent == Coherent(row.sync)

\* Until some fetch has read the plate's token in the repository, nothing has
\* verified the plate and the worker has not touched it.
UnprovenPlateUntouched == ~tokenSeen => row.sync.state = "none"

\* The worker makes a plate public only in a pass that read the token itself: a
\* stale copy never brings back a plate whose token that pass did not see.
OnlyMatchPublishes ==
    [][\A w \in Workers :
          (/\ worker'[w] # worker[w]
           /\ started' = started /\ request' = request /\ faults' = faults
           /\ row.visibility # "public" /\ row'.visibility = "public")
             => Saw(w, "match")]_vars

(***************************************************************************)
(* Convergence: once the repository stays as it is and the requests are    *)
(* over, one worker brings the plate where the manifest says.  It can take *)
(* two passes, since SetVisibility overwrites the verdict of the first.    *)
(***************************************************************************)
Stable(outcomes) ==
    <>[](repo.token \in outcomes /\ row.exists /\ row.sync.next # Null)

\* A token that stays in the manifest verifies and publishes the plate for good.
MatchPublishes ==
    Stable({"match"}) => <>[](row.sync.verified /\ row.visibility = "public")

\* A pass that crashed between its two tag statements is made good by a later one.
MatchRestoresTags == Stable({"match"}) => []<>(row.tags = {repo.rev})

\* A token that stays away hides the plate and withdraws its verification.
MismatchHides ==
    Stable({"mismatch", "unencodable"})
        => <>[](~row.sync.verified /\ row.visibility = "private")

\* A repository that stays unreachable withdraws the verification.
UnreachableUnverifies == Stable({"unreachable"}) => <>[]~row.sync.verified

(***************************************************************************)
(* What the documentation says and the code does not do.                   *)
(***************************************************************************)

\* docs/how-it-works.md: a plate of a private organization stays private.
PrivateOrgStaysPrivate ==
    row.org \in PrivateOrgs /\ row.status = "approved" => row.visibility = "private"

\* docs/how-it-works.md: a pass that misses the token ends in `unverified`.
MismatchEndsUnverified ==
    [][\A w \in Workers :
          (/\ worker[w].pc = "recorded" /\ Saw(w, "mismatch")
           /\ worker'[w].pc = "idle" /\ row'.exists)
             => row'.sync.state = "unverified"]_vars
=============================================================================
