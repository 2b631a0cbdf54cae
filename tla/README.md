# A TLA+ model of Kikplate

Kikplate is a registry of project templates ("plates") that live in GitHub
repositories. An author submits a repository, puts a token into its
`plate.yaml`, and verifies it; from then on a worker reads the manifest again
and again and keeps the registry's record of the plate in step with it. This
directory models the part of the program in which time, concurrency and failure
matter - the worker, the services that write the database, and the pages of the web
front end, whose requests overlap with what their users do meanwhile - checks it with
TLC on small instances, and proves its main safety properties with TLAPS for every
instance.

Files:

| file | what it is |
|------|------------|
| `PlateRow.tla` | one row of the `plate` table and the SQL statements sent for it |
| `PlateSync.tla` | the sync worker and the API handlers over that row, and their properties |
| `PlateSync_proofs.tla` | theorems about `PlateSync` |
| `Membership.tla` | what the organization service promises about members, without requests or rows |
| `OrgMembership.tla` | members, invitations and the requests over them, statement by statement |
| `OrgMembership_proofs.tla` | theorems about `OrgMembership`, the refinement of `Membership` among them |
| `Identity.tla` | users, their accounts and one-time tokens, and the requests of the auth service over them |
| `Identity_proofs.tla` | theorems about `Identity` and `ConnectionPool` |
| `PlateEngagement.tla` | bookmarks and ratings of a plate at the server, and whatever else writes their columns |
| `PlateButtons.tla` | the bookmark button and the rating card of one tab above `PlateEngagement` (theorems about both in `PlatePage_proofs.tla`) |
| `ConnectionPool.tla` | the connections the requests of one API process share, and the guard that pings |
| `QueryClient.tla` | the part of TanStack Query that the pages use: queries and mutations |
| `OrganizationsPage.tla`, `OrganizationsPage_proofs.tla` | the organizations tab of the account page |
| `PlatesPage.tla`, `PlatesPage_proofs.tla` | the plates tab, verification, and the form that submits a plate |
| `PlatePage.tla`, `PlatePage_proofs.tla` | the page of one plate: its tabs, its tree of files, its generation form; the theorems are about this module, `PlateEngagement` and `PlateButtons` |
| `ExplorePage.tla`, `ExplorePage_proofs.tla` | searching and filtering plates, and the two search boxes |
| `Session.tla`, `Session_proofs.tla` | who is signed in, the profile, and the deletion of the account |
| `MC*.tla`, `*.cfg` | instances for TLC |
| `PROJECT.json` | components, runs, mutants, the map from definitions to source lines, findings, hazards, theorems |

Paths below are relative to `src/`.

---

## 1. Inventory

Two processes of the server share one PostgreSQL database and nothing else, and a web
front end runs in the browsers:

* `app:serve` (`api/command/serve.go`) - the HTTP API. Handlers decode a request
  and call a service; services call repositories, one SQL statement per call.
* `app:sync` (`api/command/sync.go`) - the worker. The Helm chart gives it
  `sync.replicaCount`, so there may be several, and a rollout overlaps two.

* the front end (`web/`) - Next.js pages, some rendered on the server, most of them
  React components over hooks of TanStack Query.

Worker and API fetch `plate.yaml` from GitHub. Neither takes a lock or checks a version
column. There are three transactions over more than one statement: those of
`SubmitRepository` and `ReplaceTags` ignore the handle they are given, so that their
statements commit one by one; only `DeleteMe` uses its own. The usual shape of a
write is *load a struct, work (perhaps for seconds), save every column of the struct*.
The usual shape on a page is *send a request, go on when it is answered, with whatever is
open by then*. Those two shapes are the subject of this project.

| component | state | operations | hard behaviour | what makes it correct |
|---|---|---|---|---|
| Plate row (`api/model/plate.go`, `api/repository/postgres/plate.go`) | status, visibility, organization, sync columns, tags, counters | `Create`, `Update` (gorm `Save`), `UpdateSyncState`, column updates, `Delete`, `ListDueForSync` | `Save` writes all columns and inserts when no row matches | columns written together stay together |
| Sync worker (`api/command/sync.go`) | one listed struct per plate, in memory | poll, mark, fetch, save manifest, replace tags, record verdict, set visibility | stale copies, crash between statements, several workers, retry after failure | a plate ends up as its manifest says; nothing is published without the token |
| Plate handlers (`api/service/plate`) | one loaded struct per request | submit, verify, update, move, archive, approve, reject, review, bookmark, badge, remove | check-then-act over an exchange with GitHub; multi-statement deletes; counters beside rows | an edit does not forge a verdict; counters agree with rows |
| Organizations (`api/service/organization`) | members, invitations | create, update, delete, leave, invite, revoke, remove, accept, decline | accept is three statements; foreign keys against delete | members come from offers; roles come from who offered |
| Accounts (`api/service/auth`) | users, accounts, verification and reset tokens | register, verify e-mail, request and perform reset, OAuth login | read-then-mark of one-time tokens; cooldown counted before the insert; find-or-create | nobody gets in unproved; a token is spent only on a saved effect; one account per identity |
| Generation service (`api/service/generator`) | generation rows, files on disk | generate, status, download | crash between `pending` and the outcome | every generation ends |
| Generator library (`pkg/generator`) | none | conditions, coercion, template walk, zip | pure algorithms | agree with a reference definition; stay inside the target |
| Events and mail (`api/events`, `api/service/email`) | none | emit, listen | goroutine per handler: unordered, lost at exit | none stored |
| Database (`api/lib/db.go`) | pool, reconnect flag | connect, ping guard, transactions | pool exhaustion under nested statements, retry while others go on | requests finish |
| Organizations tab (`web/.../account/OrganizationsManager.tsx`, `hooks/useOrganizations.ts`) | lists as last answered, dialogs, a form | create, edit, delete, leave, invite, remove, revoke, accept, decline | requests outlive their dialogs; loads overlap changes | lists agree with the tables; errors and answers reach what they are about |
| Plates tab and submission (`web/.../account/OwnedPlates.tsx`, `plates/PendingVerification.tsx`, `submit/SubmitRepositoryForm.tsx`) | the list, two dialogs, errors of their own | submit, verify, move, remove | plates that share a name; late answers | nothing goes without its own confirmation |
| Page of a plate (`web/app/(main)/plates/[slug]/page.tsx`, `PlateHeaderTabs.tsx`, `PlateContentTabs.tsx`) | what the server rendered, two copies of the tab, open folders, inputs | follow the hash, open folders, type, generate | rendered again under the user's hands | the two copies agree; no input is left over |
| Bookmarks and ratings (`BookmarkButtonClient.tsx`, `PlateRatingCard.tsx`) | the button's and the card's own copy | toggle, rate, rate again | an own copy beside the server's | the button tells the truth |
| Exploring (`PlateGridClient.tsx`, `PlateFilters.tsx`, `HeroSearch.tsx`, `NavbarSearch.tsx`) | filters, page, what is typed | search, filter, turn pages | answers that are not there yet; an address read once | no empty page hides plates |
| Session (`hooks/useAuth.ts`, `AuthService.ts`, `EditProfileModal.tsx`, `DeleteAccountModal.tsx`) | token, the answer of `/me`, dialogs | sign in and out, choose a username, edit, delete | another tab replaces the token | whose profile is shown, and whose account is deleted |
| HTTP layer, configuration, CLI, other pages, deployment | none over time | | | not modelled |

Interaction in one picture:

```
 author ──edits──▶ GitHub ◀──fetch── app:sync ──┐
                     ▲                          ├─▶ PostgreSQL (plate, plate_tag, …)
 pages ──HTTP──▶ app:serve ──fetch (verify)─────┘
                     └──▶ goroutines ──▶ mail
```

`PROJECT.json` lists every component with its status, and under `hazards`
the places in this code where a test would hardly reach.

---

## 2. `PlateRow`: what the processes share

A row is a record with `exists`, `status`, `visibility`, `org`, `tags` and
`sync`; `sync` holds the columns of `PlateSyncState`
(`api/repository/repository.go:24`), which one `UpdateSyncState` writes together.
The operators are the SQL statements, each atomic as PostgreSQL makes it:

* `Save` - gorm's `Save`: every column of the struct; when the `UPDATE` matches
  no row gorm inserts the struct, with the associations preloaded in it.
* `UpdateSyncState` - `Updates(map)` of the sync columns; of no row when the row
  is gone.
* `UpdateOrganization` - the two columns of `MoveToOrganization`.
* `DueForSync` - the `WHERE` of `ListDueForSync`. A `NULL` `next_sync_at` is not
  due, because SQL's comparison is not true.

A time is kept as the number of clock ticks until it passes (`0` has passed,
`Null` is SQL `NULL`), which makes `next_sync_at <= NOW()` exact and keeps the
state finite without bounding the clock. `consecutive_failures` saturates at
`MaxFailures`: the code only tests and resets it.

## 3. `PlateSync`: the worker and the handlers

### Worker

`worker[w]` is what the worker holds while it is in `syncOnePlate`: the struct
`ListDueForSync` returned, the `nextSync` computed at the start of the pass, and
the manifest it read. A pass is the path

```
ListDue ─ MarkSyncing ─ Fetch ─┬─ RecordFetchFailure ──────────────────────────────▶ idle
                               ├─ RecordEncodingFailure ───────────────┐
                               ├─ (token missing) ─── RecordVerdict ─┐ │
                               └─ SaveManifest ─ DeleteTags ─ CreateTags ─ RecordVerdict ─┤
                                       └─ ManifestFails ─ RecordManifestFailure ──────────┴─ SetVisibility ─▶ idle
```

one action per statement or exchange, in the order of the code. What the model
keeps from the code and what a reader should look for:

* `SaveManifest` and `SetVisibility` save **the struct as it was listed**, with
  one field changed - not the columns `UpdateSyncState` has just written.
* The fetch-failure branch returns without touching the visibility and clears
  the stored manifest; the encoding and manifest branches hide the plate.
* `MarkSyncing` writes every sync column of the listed struct back.
* `ManifestFails`: a statement of `syncPlateManifest` fails; the struct already
  carries the new contents. `FailureNotRecorded`: the error of recording a failure
  is dropped (`_ =`) and the pass goes on. `Abandon`: the process dies, or a
  statement whose error ends the pass fails; both forget the struct.

### Handlers

`request[r]` is a request between its load and its last statement. `Load` covers the read and the
checks of every handler; `Update`, `Archive`, `Approve`, `Reject`, `SubmitReview` are what the
handler makes of its copy and `SaveEdit` the save; `MoveToOrganization` writes two columns only;
`VerifyFetch` and `VerifySave` are `VerifyRepository`, with the exchange with GitHub between the
check for `pending` and the save - it compares the token and never marshals the manifest, so that
one the worker cannot encode is verified all the same; `RemoveChildren` and `RemoveRow` are
`Remove`, whose last statement the foreign key refuses when a pass has written tags in the meantime.
`Refuse` ends a request anywhere before its next write, for every reason there is (not permitted,
both attempts missed the token, a failed statement).

### Environment

`EditRepository` gives the repository any manifest - any token, any contents, a
manifest `json.Marshal` refuses, or none that can be fetched. `Tick` is the
clock.

### Abstractions

* One plate. A pass never reads another plate's row; other plates of a batch only
  delay a pass between listing and marking, and that delay is arbitrary here.
* A manifest is a token outcome and one value for all its contents, so the tags
  of a manifest are one element of `tags`. Manifests without tags are not
  distinguished.
* `ListDueForSync` also returns rows that have been `syncing` for two minutes. The
  two minutes are not counted: a row in `syncing` may be listed at any time, which
  includes every schedule the code has.
* The branch of `syncOnePlate` for a plate without repository or branch is left
  out: `SubmitRepository` always sets both and no handler clears them.
* Of `Remove`'s children only the tags are modelled; the others (members, badges,
  reviews, generations) behave alike.
* A failed statement wrote nothing; a lost acknowledgement of a committed one is
  not modelled.
* The texts, the slug and the mails are left out; the counters are in `PlateEngagement`.

## 4. `Membership` and `OrgMembership`: who belongs to an organization

`Membership` is the promise: a role is held because somebody who could manage the
organization at the time, or when the request began, offered that role to that
account; the owner's membership does not end. Its state is the roles, the offers
ever made, and the accounts that could ever manage.

`OrgMembership` is `api/service/organization/organization.go`. `members` is the
`organization_member` table as a function of the account, which its unique index
makes it; `invitations` is the set of `organization_invitation` rows; `exists` and
`hasPlates` are what is needed of the organization's own row. `request[r]` is what a
request holds between its statements. A row's `id` is the number of the request that
created it: `Save` goes by the id, so the model must tell a row from another one of
the same account or address.

| code | actions |
|---|---|
| `InviteMember` | `LoadToInvite`, `CreateInvitation` |
| `RevokeInvitation` | `LoadToRevoke`, `DeleteInvitation` |
| `RemoveMember`, `Leave` | `LoadToRemove`, `DeleteMember` |
| `AcceptInvitation` | `LoadInvitation`, `ReadMember`, `WriteMember`, `SaveAccepted` |
| `DeclineInvitation` | `LoadToDecline`, `SaveDeclined` |
| `Update` | `LoadToUpdate`, `SaveOrganization` |
| `Delete` | `LoadToDelete`, `DeleteOrganization` |
| `DeleteExpiredPending` at the head of the two lists | `DeleteExpiredPending` |
| an error return, or the end of the process | `Interrupt` |
| the clock, plates moving in and out | `Expire`, `MovePlates` |

What to look for:

* No transaction joins the statements of `AcceptInvitation`. `SaveInvitation` and `WriteMember` use
  gorm's `Save`: a row that is gone is inserted again, unless the organization is gone or - for a
  member - the account has got another row in the meantime.
* `CreateInvitation` fails on the unique index over pending addresses, whether or not the pending
  one has expired.
* `LoadToDecline` asks for the address only. An accepted invitation can be declined.
* `Create` drops the error of making the owner a member, so the initial state has the owner's row or
  not.
* An owner may accept an invitation to the own organization and then has the role of the invitation;
  `owner_id` keeps the rights. `Membership` allows it.

Abstractions: one organization, because no statement concerns two; its creation is
the initial state, since two creations racing for a name are settled by a unique
index; expiry is kept for pending invitations only, of which alone the code asks it; who may
see an organization, the mails and the names are left out.

## 5. `Identity`: users, accounts and one-time tokens

`Identity` is `api/service/auth/auth_service.go`. A *user* signs in; an *account* is what
plates and organizations refer to, and a user may have one per provider. `users` is the
`user` table by id, `accounts` and `tokens` are sets of rows (`tokens` holds
`email_verification` and `password_reset`, told apart by `kind`), and `request[r]` is what
a request holds. A row's id is again the number of the request that made it.

| code | actions |
|---|---|
| `Register` | `LoadToRegister`, `CreateUser`, `CreateVerification` |
| `VerifyEmail` | `LoadVerification`, `ReadUser`, `SaveUser`, `MarkUsed`, `FindAccount`, `CreateAccount` |
| `LoginLocal` | `LoadToLogin`, `FindAccount`, `CreateAccount` |
| `OAuthCallback` | `LoadIdentity`, then `SaveAccount`, or `FindOAuthUser`, `CreateOAuthUser`, `CreateAccount` |
| `SetUsername` | `LoadAccount`, `ReadUser`, then `SaveUser`, or `CreateNamedUser`, `SaveAccount` |
| `UpdateProfile` | `LoadAccount`, `SaveAccount`, and with a picture `ReadUser`, `SaveUser` |
| `DeleteMe` | `LoadAccount`, `CountRemaining`, `CommitDelete` |
| `RequestPasswordReset` | `LoadToRequestReset`, `CreateReset` |
| `ResetPassword` | `LoadReset`, `ReadUser`, `SaveUser`, `MarkUsed` |
| an error return, a panic, or the end of the process | `Interrupt` |
| the clock against `expires_at` | `Expire` |

What to look for:

* `SaveUser` saves **the whole row as it was read**: a picture saved late brings an old
  password or an inactive user back, and inserts a user again whom `DeleteMe` has deleted.
* A token is looked up, acted on, and marked in three statements, so two requests can act
  on one token.
* Only `DeleteMe` uses its transaction. It runs at PostgreSQL's default level, so its count
  of the other accounts sees what others have committed by then and nothing else: two
  accounts of one user deleted at once each count the other, and the user stays.
* The index on `user.email` counts the empty address too.
* A statement that would break a foreign key or the index is not an action: it fails, and
  the request ends by `Interrupt`.

A password is `first` while it is the one its user was created with and `later` once a
reset has chosen it. Three history variables remember what the properties compare with:
`proved` (users created active, or whose verification link was opened), `mailed` (users a
reset was mailed to) and `done` (tokens whose effect was saved).

Abstractions: usernames, the texts of a profile, and the JWT are left out; the
counts by which `RequestPasswordReset` limits resets are not kept, so a reset may always be
requested; an address is one value, so its spelling is not compared; what `DeleteMe` deletes
besides accounts, users and tokens belongs to other components, and where a foreign key of
theirs stops it, it is an `Interrupt`; a token created inside its last two statements is
taken as created before them. `LoginHeader` has no caller.

---

## 6. `QueryClient`: what the pages share

The hooks of `web/src/presentation/hooks` are those of TanStack Query, which is not in
the repository; `QueryClient` is external and follows how the hooks use it.

* A *query* keeps the last answer of its key (`cache`). It is asked for again when a
  component that uses it is mounted and its data are not fresh, and when it is
  invalidated while it is in use. A load that is under way is then cancelled and begun
  again, unless it is the first of its key, which is left as it is: what it brings can be
  older than the change. `late` marks that case.
* A *mutation hook* observes the last request it sent: `isPending` and `error` are that
  request's. A request (`calls[i]`) is sent, applied by the server or not, and answered
  or not, and answers overtake each other. Being closed or unmounted stops no request.

`MaxCalls` bounds the requests of a behaviour. Lists are loaded any number of times.

## 7. `OrganizationsPage` and `PlatesPage`: tabs with dialogs

Both compose `QueryClient` with the state of their components, one user in one browser tab, and
the tables of the server as far as the tab lists them (`server`).

| code | `OrganizationsPage` |
|---|---|
| `handleCreate`, `handleUpdate`, `startEditing`, `cancelEditing` | actions of the same names |
| the removal dialog | `OpenRemove`, `TypeOrgName`, `DismissRemove`, `onConfirmRemoveOrganization` |
| the leaving dialog | `OpenLeave`, `DismissLeave`, `onConfirmLeaveOrganization` |
| `OrganizationMembersModal` | `OpenMembers`, `CloseMembers`, `onInvite`, `RemoveMember`, `Revoke` |
| invitations of the user | `AnswerInvitation` |
| the server, and its answers | `Apply`; `Succeed` with `Touched` (`onSuccess`) and `Continue` (after the `await`), `Fail` |
| the lists | `ServeList`, `DeliverList`, `LoseList` |

| code | `PlatesPage` |
|---|---|
| the tabs of the account page, the submission form | `Navigate`, `ChooseOrganization`, `handleSubmit` |
| `PendingVerification` | `handleRetryVerification` |
| the removal dialog | `OpenRemove`, `TypePlateName`, `DismissRemove`, `onConfirmRemove` |
| the organization dialog and the move dialog | `OpenOrganization`, `SelectOrganization`, `CloseOrganization`, `OpenMove`, `TypeMoveName`, `DismissMove`, `onConfirmMoveOrganization` |
| the server, and its answers | `Apply`; `Succeed`, `SucceedSubmit`, `Fail`, with `ContinueRemove` and `ContinueMove` |
| the list | `ServeList`, `DeliverList` |

What to look for:

* A dialog can be dismissed while its request is under way: *Escape* and a click outside
  work, *Cancel* does not. The organizations tab then resets the hook, the plates tab does not,
  and keeps its errors in state of its own.
* A handler that continues after its `await` closes what is open *then*.
* What confirms a removal is a name. Names of organizations are unique, names of plates are
  not: `Name` maps plates to names, and the instance has two plates of one name.

Abstractions: what is typed is kept only as far as a dialog compares it; the search of
accounts to invite, pagination, the badge dialog and the texts of forms are left out; other
users of the same organization do not act while the page is open, so that what the lists
should say is what the user's own requests made of it; a lost list of plates is
asked for until it arrives.

## 8. `PlatePage`: a page that is rendered again

The server renders the page from what the API and GitHub answer (`Rendered`, where any
fetch may fail), and two components show it, each with a tab of its own. `header` and
`content` are those tabs, `hash` is the address, `expandedPaths` the open folders,
`downloadValues` the form of the schema, `asked` a generation under way.

| code | actions |
|---|---|
| opening or reloading the page | `PlateDetailPage` |
| `router.refresh` after a rating | `Refresh`: new props, with the effects that depend on them (`Reset`, `Sync`) |
| `setHashWithoutScroll`, links, Back and Forward | `setHashWithoutScroll`, `HashChange` |
| the tree of files | `toggleFolder`, `expandAll`, `collapseAll` |
| the form of the schema | `SetField`, `SetModule`, `handleGenerateDownload`, `Generated` |
| a push, or a pass of the worker | `Push` |

`FileTree` is `buildFileTree` as a recursive function over `Listed`, the entries in an order that
has every path after the shorter ones; the lists of a commit are finite, and no path is empty
(`PlatePageAssumption`). `typed` and
`restored` are history: what was typed since the inputs were last filled, and whether a
refresh put back an address that only the content read.

Abstractions: texts are present or not; the coercion of inputs (`coerceInputValue`), the
rendering of markdown, the side column, and that answers of GitHub are kept for an hour
(`revalidate: 3600`) are left out - an old answer is a `Rendered` of an older plate; the page
that says an error occurred, where a server fetch throws, has no state.

## 9. `PlateEngagement` and `PlateButtons`: bookmarks and ratings

`PlateEngagement` is the server: `requests[i]` is a request of one account, from its sending over
its statements to its answer, and `members`, `reviews`, `count` and `average` are the tables.
`copies` are whole plate rows that somebody has read and may save, `removing` says which rows a
removal of the plate is at, `deleted` which accounts are gone.

| code | actions |
|---|---|
| `SetBookmark` | `ReadMember`, `WriteMember`, `CountBookmark` |
| `SubmitReview` | `LoadPlate`, `CheckReview`, `CreateReview`, `ListReviews`, `SavePlate` |
| an error return, or the end of the process | `Interrupt` |
| the worker (`sync.go:94`, `:304`), `Update`, `Archive`, `Approve`, `Reject`, `VerifyRepository` | `LoadCopy`, `SaveCopy`, `DropCopy` |
| `DeleteMe` (`auth_service.go:711`) | `DeleteMe` |
| `Remove` | `RemoveMember`, `RemoveReview`, `RemoveFails` |

`PlateButtons` composes it with the state of the two components in one tab of the account `Me`:
`bookmarked`, `userRating` and what goes with them. `pages` are renderings of the page, each as
the server read it at some moment: on their way, or kept by the router of Next.js, which is not in
the repository, for as long as it likes.

| code | actions |
|---|---|
| the server renders the page | `ReadPlate` |
| the page is opened, left and opened again | `Mounted` |
| `router.refresh` | `Refreshed` |
| `BookmarkButtonClient` | `handleBookmarkToggle`, `BookmarkAnswered`, `BookmarkLost` |
| `PlateRatingCard` | `ChooseStars`, `submitRating`, `RatingAnswered`, `RatingLost`, `ChangeRating` |
| the server, everybody else | `Elsewhere` |
| other accounts, other tabs of the same account | `OtherTabs` |

Neither handler has a transaction, a lock or a unique index under it, and other writers save the
plate's row as a whole, so the promises are conditional. The histories record *which* step has
put something wrong, and each property names all of them:

* `CountIsBookmarks` holds until an interruption falls between the row and the counter, two toggles
  of one account overlap, a toggle overlaps a review (which saves the counter it loaded), a whole
  row is saved whose counter has changed since it was read, or a bookmark's row is deleted with its
  account or by a removal of the plate that breaks off. Nothing counts again, so the counter stays
  wrong.
* `AverageIsOfReviews` holds from every review that meets no other one, and until a review meets
  another one, is interrupted before its save, or finds none left, a whole row is saved whose
  average has changed, or a review is deleted.
* `OneReview` excepts accounts two of whose reviews overlap: both pass the check.
* `BookmarkShown` holds from every page that was read in full while no toggle of the account was
  under way and from every answer to a toggle that no other one of the account crossed, and until a
  toggle from elsewhere takes a step, the answer to the button's own is lost after the server began
  with it, it fails between the row and the counter, the row is deleted, or a rendering is shown
  that is older than one of these. The `catch` leaves the heart as it is, and the component reads
  its properties only when it is mounted (`BookmarkButtonClient.tsx:22`).
* `RatingShown` excepts ratings that were refused, which the card shows on purpose, and deleted
  ones.

Abstractions: one plate; comments of reviews, `uuid`s and times are left out; a rating is a number of
stars; an average is kept as the reviews it is computed from; a request of another tab that the
server has not begun with can as well be sent later, and is.

## 10. `ExplorePage`: lists, pages and search boxes

`filter`, `page` and `pageSize` are the state of `PlateGridClient`, `list` and `options` its queries,
`query` and `found` those of the search box that is shown, `at` and `going` the navigation.

| code | actions |
|---|---|
| answers of the list and of the options | `ListAnswered`, `ListFailed`, `OptionsAnswered` |
| `PlateFilters`, `ExploreFilterChips`, `clearAllFilters` | `TypeSearch`, `BadgesDropdown`, `CategoriesDropdown`, `TagsDropdown`, `Chip`, `clearAllFilters` |
| pages | `PreviousPage`, `NextPage`, `GoToPage`, `ChoosePageSize` |
| `HeroSearch`, `NavbarSearch` | `TypeQuery`, `Focus`, `Close`, `ClearQuery`, `QueryAnswered`, `QueryFailed`, `handleKeyDown`, `SearchAll`, `SeeAllResults`, `SampleQuery`, `HeroResult`, `NavbarResult` |
| links, and their arrival | `Follow`, `Arrive` |
| an owner elsewhere | `RemovePlate` |

How plates match is the server's business: `Total` gives the number for each filter, and removals
lower it. The boxes do not look at that number but at the plates they got (`NavbarSearch.tsx:19`,
`HeroSearch.tsx:33`), and the server takes plates of private organizations out of the five or six a
box asks for after it has counted and cut them (`read_ops.go:119-165`): `Withheld` are the queries
of which nothing need be left, though plates match. A box also says that nothing was found when its
request failed. That a box tells the truth is therefore not claimed. Left out: the sub-searches
inside the dropdowns, the switch of the search tips, and the cards themselves.

## 11. `Session`: who is signed in

`token` is `localStorage`, which every tab shares; `me` is the query `/me`, whose key does not
name the token; `calls` are the requests of forms, each with the token of the moment it was
sent. `replaced` records that another tab, a page opened with a token, or the login form used
over a session has put another token under what is shown: the front end does not ask `/me` anew
at once, and no property claims that it does.

| code | actions |
|---|---|
| `useMe` | `FetchMe`, `ServeMe`, `MeFails`, `MeArrives`, `MeIsOld` |
| `LoginForm`, `useLogin` | `handleSubmit`, `LoggedIn`, `LeaveForm` |
| `useLogout` | `handleLogout` |
| the page a provider or a mailed link leads to | `CallbackHandler` |
| the storage event | `HandleStorage` |
| loading and leaving pages | `Load`, `Navigate`, `RedirectForUsername` |
| the page that asks for a username | `SetUsername`, `UsernameSet`, `LeaveForm` |
| `EditProfileModal` | `OpenEdit`, `TypeUsername`, `CloseEdit`, `handleSave`, `UsernameSaved`, `SaveProfile`, `ProfileSaved`, `Saved` |
| `DeleteAccountModal` | `OpenDelete`, `TypeConfirm`, `CloseDelete`, `handleDelete`, `Deleted` |
| the server, lost answers | `Apply`, `Fail` |

The hooks that change the profile return the promise of their invalidation, so what follows the
`await` follows the next answer of `/me` (`Reloaded`): the dialog sends its second request, with the
token of then, and closes only after it; the forms leave their page after it. A failed load counts,
since `/me` is not tried again.

Abstractions: where another change starts the load of `/me` anew, the client stops waiting at once,
and the model waits for the load that was begun; passwords, providers, display names and pictures
are left out (`saved` stands for a changed profile); a row of another account changes only by
requests of this tab; a request that reaches the server only after the document was loaded anew is
left out; so are registration, verification, password resets and the cookie that mirrors the token
for rendering on the server.

## 12. `ConnectionPool`: waiting for connections

`handler[r]` is what a request, one of `Handlers`, is about to do, what it holds of the pool (none,
one or two connections) and how many pings it has tried; `up` says whether PostgreSQL answers, `due`
whether `checkInterval` has passed, `checking` is the flag of the guard.

| code | actions |
|---|---|
| `Transaction(...)` of `SubmitRepository`, `ReplaceTags`, `DeleteMe` | `BeginTransaction`, `Commit`, `StatementFails` |
| a statement | `Acquire`, `Run`, `StatementFails` |
| `ensureConnected` | `SkipCheck`, `StartCheck`, `PingAnswered`, `PingTimesOut` |
| clients that go away, the database, the clock | `Cancel`, `Outage`, `Elapse` |

What to look for:

* A transaction of kind `ignored` holds one connection and takes a second for every
  statement; one of kind `used` runs its statements on its own.
* gorm runs the guard inside its callbacks: before a query takes its connection, but after
  the `BEGIN` that gorm puts around a single write, and even when that `BEGIN` failed. A
  ping needs a connection too, so a guard may wait for what the requests before it hold.
* While one request checks, the others go on without.

`database/sql` and gorm are not in the repository; `Acquire`, `Released` and their like are
external. Reading `lastCheck` and setting `checking` are taken as one step. Opening
the database with its five attempts, and the migrations, happen before anything else runs
and are left out. What a statement does to the tables is the other modules' matter.

---

## 13. What the runs check

| run | instance | what it shows |
|---|---|---|
| `sync` | 1 worker, a private organization, 1 fault, 1 request (move, archive, verify or remove), fairness; 886,556 states | `TypeOK`, `SyncColumnsCoherent`, `UnprovenPlateUntouched`, `OnlyMatchPublishes`, `MatchPublishes`, `MatchRestoresTags`, `MismatchHides`, `UnreachableUnverifies` |
| `org_membership` | an owner, two accounts with one address (symmetric), 2 requests at once, 4 in all; 763,510 states | `TypeOK`, `AcceptedHadJoined`, `AnsweredStaysAnswered`, `ImplementsMembership` |
| `identity` | one address, two identities (one with the address, one without), 2 requests at once (symmetric), 5 in all; 509,603 states | `ProofComesFirst`, `PasswordWasMailed`, `SpentTookEffect` |
| `organizations_page` | 2 organizations in several starting tables, 2 requests; 1,112,179 states | `ListsAgree`, `ErrorOfDialog`, `ClosesNoOlderForm` |
| `plates_page` | 2 plates of one name, 1 organization, 2 requests; 464,803 states | `ListsAgree`, `ErrorIsRecent`, `TypedInItsDialog` |
| `plate_page` | a repository that gains a license, a folder and another schema; any fetch fails; 37,620 states | `TypeOK`, `TabHasContent`, `TabsAgree`, `AllReachable`, `NothingStale` |
| `plate_engagement` | 2 accounts, 3 requests at the server or 3 toggles in the tab, 1 row held, 1 fault; 1,035,106 states | `ButtonsTypeOK`, `CountIsBookmarks`, `AverageIsOfReviews`, `OneReview`, `BookmarkShown`, `RatingShown` |
| `explore_page` | up to 9 plates, pages of 1 and 4, 2 removals, one query whose plates are withheld; 17,316 states | `PageInRange`, `SearchTakesEffect` |
| `session` | 2 accounts, 2 names, 2 requests of forms; 1,113,925 states | `MeAgrees`, `DeletesTheConfirmed` |
| `connection_pool` | 3 requests, 2 connections, 2 further pings, fairness; 125,468 states | `SomebodyGoesOn`, `EndsBelowLimit`, `ChecksEnd` |
| `doc_private_org`, `doc_mismatch` | as small as the case allows | a statement of the documentation, violated |

The type invariants of `Identity`, `OrganizationsPage`, `PlatesPage`, `ExplorePage`, `Session` and
`ConnectionPool` are proved and need no run (in `Session` as the lemma that the invariant `SInv`
holds).
The handlers `sync` leaves out of its instance (update, approve, reject, review) and several
workers are covered by the theorems about `PlateSync`, which hold for any set of kinds,
requests and workers.

**Safety.** `SyncColumnsCoherent` says that, however stale copies overwrite each
other, the row never mixes the sync columns of two passes: a verdict comes with a
schedule, `synced` with `is_verified`, `failed` with a count, and - the part
crash recovery hangs on - a row in `syncing` has a `next_sync_at` that has passed.
`UnprovenPlateUntouched` says that before some fetch has read the plate's own
token nothing gives the plate a verdict or starts a pass over it.
`OnlyMatchPublishes` says that a worker's write makes a plate public only in a
pass in which that worker read the token; a stale save never republishes.

`AcceptedHadJoined` says that an invitation reads `accepted` only when somebody has
joined with it, wherever requests over it overlap or stop.
`AnsweredStaysAnswered` says that no whole-row save of an old copy brings an answered
invitation back to pending. `ImplementsMembership` is the refinement: whatever copies
of rows the requests carry - an invitation revoked while it is accepted, a member
removed between `ReadMember` and `WriteMember`, a row inserted again - every role comes
from an offer by a manager to that account.

`ProofComesFirst` says that no interleaving of stale user rows makes a user active, or
opens a local account, before the address was proved. `PasswordWasMailed` says that a password a
user was not created with goes back to a reset that was mailed to this user: no copy of
another row and no token of another kind carries one there. `SpentTookEffect` says that a
request that breaks off between its statements leaves its token usable, never used up for
nothing. That a token acts *once* is not claimed: two requests that read it together both
act.

Two things the organization service does not promise, and no property claims: that an invitation
admits once (after a crash between `WriteMember` and `SaveAccepted` it is pending
still, and admits the account again after its removal), and that a manager who loses
the role in the middle of a request is stopped.

**The pages.** `ListsAgree`, of both tabs, is about the keys that hooks invalidate: once
every change was answered, no list counts as fresh that a change has made wrong, although
loads and changes overlap in any order. The one exception the library leaves - a first load that
is under way when the change is answered - is in the statement. `ErrorOfDialog` says that an
error shown in the dialog of one organization is the answer to a request about that
organization, although hooks know of requests only and dialogs are dismissed while they
wait; that hangs on the `reset` of the hook at every dismissal. The plates tab promises less, and
`ErrorIsRecent` says what: the error of the plate of the dialog, or of the one call in flight
when the dialog opened. `ClosesNoOlderForm` says that a late answer closes the edit form of
another organization only when that form was opened while the answer was under way, which
the code does allow. `TypedInItsDialog` says that a plate
is removed or moved only after its name was typed into its own dialog since that was opened,
although two plates share the name.

`TabHasContent` and `TabsAgree` relate two components that never speak to each other: under
whatever hash, failed fetches and refreshes, the content never shows an empty tab while there
is a full one, and the tab that is marked is the tab that is shown, but for the one
refresh that restores an address without an event. `AllReachable` compares the tree built
from GitHub's list with the paths of that list: no file is lost under a folder the list leaves
out, and no folder stays open that is gone. `NothingStale` says that a generation
is asked for with what was typed for the schema on the page, or its defaults.

`CountIsBookmarks`, `AverageIsOfReviews` and `OneReview` say what the counter, the average and the
reviews are worth, statement by statement, and name the steps that put them wrong (section 9):
toggles of *different* accounts never do, a counter is late by exactly the toggles written and not
yet counted, and bookmarks never disturb the average, which the next undisturbed review puts right.
`BookmarkShown` carries that to the screen, as far as lost answers and outdated renderings leave it:
an answer that no other toggle crossed puts the heart right whatever was shown before. `RatingShown`
says that the card shows a rating of the account's own or one that was refused or deleted, however
old the rendering it was mounted with.

`PageInRange` says that no page beyond the last is shown, although pages are turned while
their number is unknown. `SearchTakesEffect` says that a search from a box shows in the list,
although the page reads its address only once; it holds because no box is shown where the
page is mounted already.

`MeAgrees` says whose profile is shown: that of the account of the token, as the server has it,
across reloads, sign-outs and late answers. `DeletesTheConfirmed` says that the account that
is deleted is the one whose name was shown and typed. Both except a token that was
replaced under the page (section 11).

**Liveness of the worker.** A pass that changes the visibility undoes its own verdict and
schedule (`SetVisibility` saves the listed columns), so that a plate reaches the
state of its manifest at all is not obvious. The four properties say that it
does, each under the assumption (`Stable`) that from some point on the
repository's answer stays of one kind and the plate exists and has been verified
once. They survive one crash or failed statement anywhere and one racing request.

**Waiting for connections.** `SomebodyGoesOn` is the safety part of the next paragraph: as long
as fewer transactions that ignore their connection are open than the pool has connections, and no
connection is free, one of those that hold one is not waiting for another, so that not
everybody waits for everybody. It breaks when `DeleteMe` stops using the connection of
its transaction, as the other two do.

**Liveness of the pool.** `EndsBelowLimit` says that every request ends as long as fewer
transactions that ignore their connection are open than the pool has connections, whatever the
database does and whoever pings. The condition is needed: without it TLC shows two
submissions that hold the two connections and wait for each other, until a client
gives up. `ChecksEnd` says that the flag of the guard is always put back, also when no connection
is left for the ping; a flag that stayed would switch the guard off for good.

**Fairness.** `WF(Tick)` - time passes. `WF(WorkerStep(w))` - `Run` is a loop
without exit, a fetch times out after 15 seconds, every error of a pass is logged
and the loop goes on; that a statement returns at all is assumed of the database
driver. In `ConnectionPool` the same is assumed (`WF(Execute)`); pings time
out and the guard does not block (`WF(Ping)`, `WF(Guard)`); `database/sql` hands a
connection that is put back to one of those who wait, drawn at random, so who waits while
connections come back again and again gets one (`SF(Connect)`). Clients need not go away, the
database need not come back. `ListDueForSync` takes a batch in the order of `next_sync_at`, so a due
plate is not passed over for ever. Nothing else is fair: no author has to
fix a manifest, no user has to send a request, no request has to finish.

**Bounds and why they are enough.** The properties compare one row with the
copies of it; two actors suffice for every pairwise interleaving, and the proofs
below drop the bound for the safety part. `Interval = 1` tells *due* from *not
yet due*. `MaxFailures = 1` tells no failure from some. One value in `Revs`
suffices where tags are only compared with the current contents; old contents are
the same value there, and a plate without tags is what `MatchRestoresTags` is
about. `MaxFaults = 1` puts a crash at each point of a pass; faults must be finite
for convergence. In `PlateSync`, `MaxRequests = 1` lets a request overlap any part of
any pass. In `OrgMembership` four requests, two at a time, reach the longest story the
code has: an invitation is cleaned up while it is being accepted, its address is
invited again, and the acceptance saves the old row beside the new one; two accounts with
one address (which OAuth login creates) tell an offer to an address from one to an
account. In `Identity` five requests, two at a time, are enough for a registration, its
verification, a reset requested and performed, and a fifth request with an old copy across
any of them, and for two accounts of one user deleted at once.

On the pages, what can go wrong needs one request that is late and one that is sent meanwhile, so
two requests of forms are enough; loads are not bounded. Two organizations, plates or accounts are
what a dialog can confuse. `explore_page` has pages enough for a window of numbers that leaves some
out, and removals that empty the last page. In `session` a second request is explored beside a token
replaced under the page only if one of the two is of the login form (`Bound` of `MCSession`): until
`/me` is loaded anew nothing is claimed there. `plate_engagement` needs three requests at the
server: a third finds what two overlapping ones left behind; two beside a whole row, one before and
one after it is read. `Bound` of `MCPlateButtons` explores the server with the tab idle, and the tab
with two requests of any kinds or three toggles, any of which may come from another tab. In
`connection_pool` two connections and three requests are the smallest pool that can be exhausted
while somebody else waits; the code has 25 connections and five further pings, and two of these tell
*again* from *the last time*.

Deadlock checking is on for `sync`, `plate_page`, `explore_page`, `session` and
`connection_pool`. It is off for `org_membership`, `identity`, `organizations_page`,
`plates_page` and `plate_engagement`: when the bounded requests are used up, nothing
may be left to happen.

**One worker only.** With two workers convergence fails: two workers with
different old copies can undo each other's saves for ever. The code has no claim
that would prevent it. For several workers there is safety only, which is proved.

**What the code does and the documentation does not say.** The two `doc_` runs
each check one sentence of the documentation, and TLC shows the run of the code
that violates it:

* `PrivateOrgStaysPrivate` (`docs/how-it-works.md:114`) - the worker sets
  `public` without loading the organization, although `Update`,
  `MoveToOrganization` and `VerifyRepository` all respect it.
* `MismatchEndsUnverified` (`docs/how-it-works.md:128`) - the pass that finds the
  token missing records `unverified` and then saves the old verdict back; the next
  pass, due at once, leaves `unverified`.
Further differences that follow from the modules and need no run of their own:
`docs/how-it-works.md:143` has no way out of *Archived*, but a pass that listed the plate before saves
the old status back (`api/command/sync.go:304`), and so does a verification of a pending plate
(`api/service/plate/verify.go:94`); `docs/architecture.md:118` calls removal a hard
delete, but such a pass inserts the plate again (the same line); `docs/database.md:77` lets plates
alone keep an organization from being deleted, but its owner's member row does as well
and nothing deletes that row (`api/service/organization/organization.go:276`);
`docs/database.md:53` calls provider identities unique, but two overlapping first logins
create two accounts and no index forbids it (`api/service/auth/auth_service.go:286`).

Differences that were only read: `docs/architecture.md:197`
and `docs/how-it-works.md:129` speak of a back-off, the code retries after the same
interval; the state machine of `docs/how-it-works.md` lets an owner verify an
`UnverifiedPrivate` plate again, `api/service/plate/verify.go:25` refuses every plate
that is not `pending` (the worker itself brings such a plate back);
`docs/database.md` calls `plate_review`, `plate_member`, `plate_badge`, `plate_tag`
and `account` unique per pair where the migrations of `api/lib/db.go` create no such index;
`docs/configuration.md:217` lets the header mode create an account, but
`api/handler/middleware/header_auth.go` only resolves one and nothing calls `LoginHeader`;
`DeleteMe` meets a foreign key, and fails, for an account that has an organization with
members or a generation; `DeleteExpired` of the tokens has no caller; `Register` keeps an
address as typed while `RequestPasswordReset` looks for its lower-case form.

**Mutants.** Each property of a passing run has a mutant of a modelled definition,
written before it as a slip (`Name_WhatSlips`, with a comment that says what the code would
do): a guard that is dropped, a reset that is forgotten, an order that is swapped, a column that is
skipped. TLC finds the property violated under it.

**Further hazards.** `PROJECT.json` lists the hazards that matter most. Of the same kinds, and
seen in the models: a verification's account is created in a statement after its token
was used (`auth_service.go:192`); the last two accounts of a user counted at once (`:724`);
users created by a login that stops before its account (`:441`); limits of resets counted before
the reset is stored (`:758`), for an address compared in lower case (`:745`); a user read again
after its token (`:174`); a user created before its verification (`:93`); a member read before
the acceptance writes it (`organization.go:479`) and the rights of a manager read before a member is
removed (`:391`); whole-row saves of approvals (`lifecycle_ops.go:311`) and the children of a removed
plate deleted one table at a time (`:148`); two toggles of one account (`:194`); handlers of
events started in any order (`events/emitter.go:29`); a generation stored before it is rendered
(`generator/service.go:92`); forms and dialogs of the organizations tab that open while another
request waits (`OrganizationsManager.tsx:58`, `:489`, `:499`, `:560`); a submission that moves the user
to the plates tab from wherever they are (`SubmitRepositoryForm.tsx:50`); a profile saved by two
requests of which the second may fail (`EditProfileModal.tsx:38`).

---

## 14. What is proved

`PlateSync_proofs.tla` proves, for all sets of workers, requests, organizations
and manifests and for all bounds, from `RowAssumption` and `SyncAssumption` alone:

| theorem | statement |
|---|---|
| `TypeCorrect` | `Spec => []TypeOK` |
| `SyncColumnsStayCoherent` | `Spec => []SyncColumnsCoherent` |
| `UnprovenStaysUntouched` | `Spec => []UnprovenPlateUntouched` |
| `OnlyMatchPublishesAlways` | `Spec => OnlyMatchPublishes` |

The argument, in three layers:

* `TypeInv` = `TypeOK` and *a worker past its fetch remembers what it read*.
  Without the second part `Verdict` and `SaveManifest` could take contents from
  nowhere, and the type would not be preserved.
* `CoherenceInv`. `Coherent(row.sync)` is not inductive: any old copy may be saved
  over the row at any later time. It becomes inductive when every copy in memory
  is coherent too, and when a copy a worker holds was due when it was listed - so
  that `MarkSyncing`, which writes the copy's `next_sync_at` with the state
  `syncing`, writes one that has passed. The clock keeps both.
* `UnprovenInv`: while no token has been read, every worker is idle and no handler
  holds a verified copy. It needs `CoherenceInv`: a row that was never synced has
  no `next_sync_at` and is not due.
* `OnlyMatchPublishes` needs only `TypeInv`: of the worker's statements `Save`
  alone writes the visibility, and a worker's `Save` takes it from its copy or from
  `DesiredVisibility`.

`OrgMembership_proofs.tla` proves, for all sets of accounts, addresses and requests and for
every bound, from `OrgAssumption` alone:

| theorem | statement |
|---|---|
| `OrgTypeCorrect` | `Spec => []TypeOK` |
| `AcceptedAlwaysJoined` | `Spec => []AcceptedHadJoined` |
| `AnswersStay` | `Spec => AnsweredStaysAnswered` |
| `MembershipImplemented` | `Spec => ImplementsMembership` |

* `JoinedInv` adds to `AcceptedHadJoined` that a request past `WriteMember` holds an
  invitation somebody has joined with; `SaveAccepted` needs it.
* `IdInv` says that ids are given out once: rows and copies of one id differ in their
  status only, none has an id of the future, and an id a request is about to insert is
  not in use. Without it a saved copy could land on another, answered row, and
  `AnswersStay` would fail.
* `RosterInv` carries the refinement: every stored or held invitation was offered to
  every account with its address, everybody who can manage is in `managers`, and a
  removal under way is never of the owner. Under it `CreateInvitation` is `Offer`,
  `WriteMember` is `Join`, `DeleteMember` is `Depart`, and every other step stutters.

`Identity_proofs.tla` proves, for all sets of addresses, identities and requests and for every
bound, about `Identity` from `IdentityAssumption` alone:

| theorem | statement |
|---|---|
| `IdentityInvariant` | `Spec => [](TypeOK /\ IdentityInv)` |
| `IdentityTypeCorrect` | `Spec => []TypeOK` |
| `ProofAlwaysFirst` | `Spec => []ProofComesFirst` |
| `LaterPasswordWasMailed` | `Spec => []PasswordWasMailed` |
| `SpentAlwaysTookEffect` | `Spec => []SpentTookEffect` |

* None of the three properties is inductive: any copy may be saved at any later time.
  `Sound` says of one request what its copies must satisfy *with respect to the histories*: a
  copied row is active only if the user is in `proved`, has a later password only if
  the user is in `mailed`, and so on for the account and the token it holds.
* The histories only grow (`HistoryGrows`), so a copy stays sound however old it
  gets; and a table whose new rows come from sound copies keeps the properties
  (`SoundRow`).
* `ResetsWereMailed` ties the token table to the history: a reset token is of a
  user it was mailed to. `LoadReset` needs it, and it fails when the kinds of token are mixed
  up.
* Types and invariant are proved together, because the address an OAuth login looks for is
  of its type only as long as the request holds an identity of a provider.

The proofs about pages, each from the assumption about the constants of its module and for
every number of requests:

| module | theorems | inductive invariant |
|---|---|---|
| `OrganizationsPage_proofs` | `OrganizationsPageTypes`, `...ListsAgree`, `...ErrorOfDialog`, `...ClosesNoOlderForm` | `OrgsInv` |
| `PlatesPage_proofs` | `PlatesPageTypes`, `...ErrorIsRecent`, `...ListsAgree`, `...TypedInItsDialog` | `PagesInv` |
| `PlatePage_proofs` | `PlatePageTypes`, `...TabHasContent`, `...TabsAgree`, `...NothingStale`, `...AllReachable` | `PageInv`, `TabsInv`, `InputsInv` |
| `ExplorePage_proofs` | `ExploreTypes`, `ExplorePageInRange`, `ExploreSearchTakesEffect` | `PagesKept`, `SearchLeaves` |
| `Session_proofs` | `SessionMeAgrees`, `SessionDeletesTheConfirmed` | `SInv` |

* `OrgsInv`. That lists agree is not inductive: an answer under way will be delivered later, and a
  request that was applied but not answered has changed a row no hook has invalidated yet.
  `Agree` says of each list, and of the answer on its way, that it is right or that a request
  which touches *this* list is still to be answered; what a request does not touch it does not
  change (`Untouched`), and with every request answered `ListsAgree` follows. `ToManagers` is
  needed because the lists of an organization are given only to who manages it. For the
  dialogs: a hook observes a call of its own (`ObservesOwn`), and what the hook of an open
  dialog observes was sent from it (`DialogSent`), which the resets keep.
* `PagesInv` is the same for one list, with `OneDialog` (dialogs are modal), `TypedInDialog` (what
  is typed was typed for the open dialog), and `WaitsForObserved` and `InTime` (a hook is
  busy until its one call is answered, so an error that arrives is that call's).
* `TabsInv` says that the row of tabs shows what the hash says and the content shows the same, and
  that the content has something to show; `SameTab` is the lemma that both choose the same tab from
  the same hash. `InputsInv` ties the inputs to `typed` and to the defaults of the schema.
* `PageInv` adds to the types that the open folders are folders of the tree on the page; a refresh
  with other entries opens the top folders of their tree instead. `AllReachable` also needs what
  `buildFileTree` makes of *any* finite list: `FilesBelowFolders` says that every path of the list
  is in the tree, below folders of the tree. Insertion by insertion, that is so of the
  entries inserted so far, because `ListedOrder` has every path after the shorter ones and so no
  file replaces a folder that already has something in it.
* `PagesKept`: while nothing is removed the list is that of the filter or empty, and the page is
  within the pages of the filter, so whatever arrives has it. `SearchLeaves`: a search is on its
  way only to a page that is not mounted.
* `SInv`: a load of `/me` knows whose token it carries (`MeOK`), and unless the token was
  replaced everything kept or under way is about the account of the token (`TokenOf`); `Fresh`
  adds the requests applied and not yet answered; dialogs are open only over details that are
  shown (`DialogsOK`).

The theorems about `PlateEngagement` and `PlateButtons`, in `PlatePage_proofs.tla`, hold for any set of
accounts and any number of requests, whole rows held, renderings and interruptions, from
`PlateEngagementAssumption` and `PlateButtonsAssumption` alone:

| theorem | statement |
|---|---|
| `EngagementInvariant` | `EngagementSpec => []EngagementInv` |
| `EngagementTypes` | `EngagementSpec => []EngagementTypeOK` |
| `CounterCorrect` | `EngagementSpec => []CountIsBookmarks` |
| `AverageCorrect` | `EngagementSpec => []AverageIsOfReviews` |
| `OneReviewEach` | `EngagementSpec => []OneReview` |
| `ButtonsInvariant` | `ButtonsSpec => []ButtonsInv` |
| `ButtonsTypes` | `ButtonsSpec => []ButtonsTypeOK` |
| `ButtonsAreClient` | `ButtonsSpec => EngagementSpec` |
| `ButtonCorrect` | `ButtonsSpec => []BookmarkShown` |
| `CardCorrect` | `ButtonsSpec => []RatingShown` |

No property is inductive, because a request decides on a row, a counter or a list that it read
some statements ago. Each part of `EngagementInv` says what such a reading is still worth:

* `BookmarkRows`: as long as no toggle of an account has met another or the deletion of its row, all
  its rows agree, and what a toggle read is what they still say. `CountInv` counts them: the counter
  is late by the toggles written and not yet counted, and while the counter is sure no toggle is
  under way beside a review, so that the counter a review loaded, and will save, is the one there
  is.
* `AverageInv`: a review that met no other one (`alone`) is the only one under way, and the list it
  read is the table. `OneReviewInv`: an account whose review is past the check has none.
* A whole row that is saved needs nothing of the invariant: `SaveCopy` compares what it writes with
  what there is, and notes the difference.
* `ShownInv` says what the answer on its way (`AnswerInv`) and the renderings (`PagesInv`) will tell
  the button: a sure button waits for its own toggle alone, and a rendering that is current was read
  of rows that have not changed. `RatingInv` says that every rating on its way to the card, with an
  answer or a rendering, is in the table, or was refused or deleted.
* `ButtonsAreClient`: the tab sends requests and does nothing else at the server, so that what is
  proved of `EngagementSpec` holds beside the buttons.

The theorems about `ConnectionPool`, in `Identity_proofs.tla`, hold for any finite set of requests
and any size of the pool, from `PoolAssumption` alone:

| theorem | statement |
|---|---|
| `PoolTypes` | `PoolSpec => []PoolTypeOK` |
| `OneCheckAtATime` | `PoolSpec => []OneChecks` |
| `NothingLeaks` | a request that is over holds no connection, and all together never more than the pool has |
| `NoCircleBelowLimit` | `PoolSpec => []SomebodyGoesOn` |

* `HandlersInv` says what a request holds at each point of it: nothing before it begins and after
  it ended, on whichever path, one connection in a transaction at its commit, two only around a
  statement of an `ignored` transaction.
* `OneChecks`: the flag of the guard is up exactly while one request pings, so it is never left up.
* `WithinLimit` needs that a step changes what one request holds by what it takes from the pool
  (`Held` counts those that hold one and those that hold two).
* `NoCircleBelowLimit`: if all connections are lent to requests that wait for another, then each
  of these holds one and is `ignored`, so that there are as many of them as connections.

**Induction over data.** The sums behind counters and averages, the order of `Listed` and the tree
of files are defined by recursion over numbers, and the induction theorems of the library take
an operator as a parameter, which the provers cannot instantiate. `LeastNatural` takes
their place: a set of natural numbers that is not empty has a least element, from `WFMin` and
`NatLessThanWellFounded`. A proof applies it to the set of numbers at which the claim fails,
and the step below the least of them refutes it.

**Only model-checked** are the liveness properties - `MatchPublishes`, `MatchRestoresTags`,
`MismatchHides` and `UnreachableUnverifies` of the worker, `EndsBelowLimit` and `ChecksEnd` of the
pool - because TLAPS does not prove properties under fairness, which speak of `ENABLED`. Every other
property of a passing run is proved. The `doc_` runs are counterexamples and have nothing
to prove.

---

## 15. Plan

Done, in this order: `PlateRow` and `PlateSync`; `Membership` and `OrgMembership`; `Identity`;
`QueryClient` with `OrganizationsPage` and `PlatesPage`; `PlatePage`; `PlateEngagement`,
`PlateButtons`; `ExplorePage`; `Session`; `ConnectionPool`. Left, each with its instance, its
mutants, and - where marked - proofs:

1. What a submission and a replacement of tags leave behind when a statement in the middle
   fails; badges.
2. The limits on password resets, with a clock.
3. The documentation page, whose answers can arrive in another order than its links were followed
   (`web/app/(main)/docs/page.tsx:40`).
4. The generation row over a crash, and the generator library's conditions and coercion as
   operators against reference definitions.
5. Proofs: an abstract specification of engagement (a set of bookmarks and a set of reviews) that
   `PlateEngagement` implements while nothing is disturbed or doubled, and one of the guard of the
   pool.

## 16. Not modelled

The HTTP layer, configuration, logging and wiring keep no state over time. Mail is
sent by goroutines nothing waits for and changes no stored state. Search and listing
only read; what pages make of their answers is modelled. The CLI is a sequential client of the
API. Of the front end, the pages of documentation, statistics, registration, verification of an
address and password reset, the public profiles, and the component library are left out, and of the
modelled pages what the sections above name as left out. The generation service renders one
archive per request, and the generator library is made of pure functions that its own tables of tests
enumerate. Templates of the Helm chart and the compose file matter here only in that they
allow several workers.
