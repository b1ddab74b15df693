# Verification of nexus-assets

TLA+ models of the asset ledger in this repository, the TLC runs that check
them on small instances, and theorems about them that TLAPS proves for every
value of the constants. `PROJECT.json` links each definition to the lines it
models, each property to a mutation of the code that breaks it, and each known
hazard to the properties that would catch it.

## 1. The system

A Go server (`cmd/nexus`, `internal/`) over one SQLite database, and a React
client (`web/src`). Every write goes through `store.Write`: one connection, one
`BEGIN IMMEDIATE` transaction. Reads go to a pool of other connections and see
the last commit. So transactions are serial, and the interleavings that matter
are those between **a read on the pool (or of the clock) and the transaction
that uses what it said**. The models follow that: a transaction is one step,
what a handler does before it is a step of its own, and other requests run in
between.

### Inventory

| Component | State it keeps | Operations | What is hard | What makes it correct |
|---|---|---|---|---|
| Status rules `internal/model` | the matrix; the configured statuses | CanTransition, ValidateTransition, DeriveTransferKind | custom statuses mixed with a fixed matrix, a terminal switch that may change | no way round the matrix of the built-ins |
| Transfers `internal/transfer` | `asset_transfers`, the triple (status, holder, owner) of `assets` | Apply, Edit | clock read before the lock, batches, corrections of the newest event | the history replays to the asset; batches are all or nothing; history is immutable |
| Save pipeline `internal/asset` | `assets`, `asset_unique_values`, the search index | Save = Prepare + Persist, Delete, DeleteMany | version guard, stale preparation, the triple and the attributes in one row | no lost update; a save that moves the triple is recorded |
| Recompute `internal/asset/recompute.go` | attributes, unique values | Recompute, RecomputeField | a plan made outside the transaction | no two live assets share a unique value |
| Statuses `internal/schema/status_store.go` | `statuses` | create, update, delete | count, then delete | a status in use stays |
| Schema `internal/schema` | categories, fields, bindings, groups, vendors, models | create, update, move, bind, unbind, delete | inheritance along paths, dependencies of computed fields, keys shared by three kinds of binding | one field per key on a chain; dependencies stay bound |
| Computed fields `internal/compute` | none | TopoSort, evaluation | cycles | an order exists or a cycle is named |
| Holders `internal/holder` | `holder_entities` | create, update, delete, set the default stock point | every check is outside the transaction | a proper tree, one default stock point, nothing in use deleted |
| Import `internal/importer` | none of its own | preview, commit | a whole file in one transaction | all rows or none |
| Accounts and roles `internal/auth`, `internal/authz` | `users`, `roles` | disable, enable, set role, delete role | two administrators acting on each other | an active administrator remains |
| Sessions and keys `internal/auth` | `sessions`, `api_keys`, token versions | issue, rotate, revoke, resolve | two refreshes at once, a retry after a lost answer | a token is exchanged once; a revoked family stays revoked |
| Audit `internal/audit` | `audit_events` | record, list | recorded after the change | append-only |
| Printing `internal/printing` | none; an external service does | print, poll | retry with an idempotency key | a job ends |
| HTTP `internal/httpapi` | none | handlers | several writes in one request | each handler's order of checks and writes |
| Browser session `web/src/lib/api.ts`, `features/auth` | the access token, a refresh in flight; a cookie shared by pages | request, refresh, retry, sign in, sign out | six requests failing at once, two pages refreshing with one cookie, an answer lost | every request settles; a page whose session is over shows the door |
| Asset list `routes/Assets.tsx`, `features/assets` | filters, page, selection, armed question | filter, page, tick, select all, delete and move batches | an answer of an earlier question on screen, a walk over a list that changes, an address that must come back | the number confirmed is the number deleted; leaving and returning asks the same |
| Editing a device `routes/AssetDetail.tsx` | the cached device, the form, the question about defaults | open, refill, type, pick a model, save | a refetch under an open form, defaults copied twice | nothing unseen is overwritten |
| Role editor `features/roles` | the switches as they were when opened | open, click, save | a save by somebody else meanwhile | a save flips what was clicked |
| Field dialog `routes/Fields.tsx`, `features/fields` | the rule as opened and as typed, the ticked boxes, a save of several requests | tick, untick, save, recompute, undo | a save that fails half-way, two dialogs, boxes whose answers overtake each other | after a save the devices have the numbers the rule gives; a tick is a binding |
| Print dialog `features/print` | the plan, chosen labels, jobs shown | plan, press, poll | a call that timed out and was served, a press repeated | "all done" is true; nothing prints that was not shown |
| Import dialog `features/import` | category, file, report | choose, preview, commit | an answer for what is no longer chosen, a commit repeated | what is written was reported on |
| `cmd/nexus verify` | none | replays timelines, checks the unique index | - | its assertions are the invariants here |

The browser adds a second kind of interleaving: **between a request and its
answer the person, or somebody else, does something**. There a request is sent
by one step and answered by another, and the answer is applied to whatever the
page holds by then.

Components call each other in one direction: handlers call services, services
call `store`. They interact through shared tables. A transfer reads the default
stock point holders keep and the statuses the schema keeps; a save reads fields
and bindings; deleting a holder, a status, a category or an account counts
assets that a transfer may be about to move. None of these references to an
asset's holder or status is a foreign key, so only the application keeps them.

The hazards, each at its line and with the properties that cover it or the
reason none does yet, are in `PROJECT.json`.

## 2. Modules

| Module | Models |
|---|---|
| `StatusMachine` | the status rules as operators over a configured set: matrix, terminal switch, kinds of event |
| `TransferLedger` | Apply, Edit, saving through a form, creation, import, deletion, the status table, the default stock point |
| `CustodyRecord` | the abstract specification: who has what and an account of how it came to be so |
| `HolderTree` | companies, departments, locations: hierarchy, default marker, deletion |
| `SchemaTree` | categories, fields, vendors, models, and what binds a field to each of them |
| `AttributeStore` | the attributes of assets, their unique values and their search index: saves, imports, recomputation, a schema that changes under them |
| `BrowserSession` | refresh families on the server, and the pages of one browser that share a cookie |
| `Accounts` | accounts, roles and switches, with the dialog that edits a role |
| `AssetList` | the list of devices: filters, pages, selection, select all, batches |
| `AssetForm` | the dialog that edits a device, against the row on the server |
| `FieldEditor` | the dialogs that edit one computed field: its rule, its recomputation, its boxes |
| `Fields` | the composition of `SchemaTree` and `FieldEditor` |
| `PrintDialog` | the print dialog, the handler behind it, a print service with a queue |
| `ImportDialog` | the import dialog and its two requests |
| `Console` | the composition of `Accounts`, `AssetList`, `AssetForm`, `PrintDialog` and `ImportDialog`: the pages of one person |
| `TransferLedger_proofs`, `HolderTree_proofs`, `SchemaTree_proofs`, `AttributeStore_proofs`, `BrowserSession_proofs` | the theorems about the module each is named after |
| `Fields_proofs` | the theorems about `FieldEditor` and about `Fields` |
| `Pages_proofs` | the theorems about `Accounts`, `AssetForm` and `AssetList` |
| `Console_proofs` | the theorems about `PrintDialog`, `ImportDialog` and `Console` |
| `MCTransferLedger`, `MCHolderTree`, `MCFields`, `MCAttributeStore`, `MCBrowserSession`, `MCConsole` | instances for TLC |
| `MCSchemaTree` | a small instance of the schema, for the move that leaves paths behind |

`TransferLedger` EXTENDS `StatusMachine` and instantiates `CustodyRecord` with
a refinement mapping. `AttributeStore` EXTENDS `SchemaTree`: a step of the
schema is a step of `SchemaTree` together with what it does to the assets, and
what both modules have is called `Store...` in the second (`StoreNext`,
`StoreSpec`, `StoreTypeOK`). `Console` EXTENDS its pages, `Fields` its two
parts. `BrowserSession` stays apart, because it sees only requests that are refused, and of those the pages see
nothing but an answer that comes later.

Definitions such as `...Unchecked`, `...Alone`, `...Quietly`, `...Any`,
`...Upwards`, `...Swapped` or `...Blank`, each before the definition whose name
it varies, are the same code with a plausible mistake. No action uses them.

### TransferLedger and the code

| TLA+ | Code |
|---|---|
| `assets[a]` : state, home, home's owner, version | a row of `assets`; `Unborn`/`Deleted` are ids with no row |
| `timeline[a]` | the rows of `asset_transfers` of the asset in rowid order; `at` is `created_at`, `original` what an event first said |
| `statuses` | key to `terminal`; the only column a rule reads |
| `applying[w]` | what `Apply` holds when it asks for the lock: request, fallback, batch id, `now` |
| `ApplyPrepare`, `ApplyCommit`, `ApplyRefuse` | `createTransfer` and `Apply` before the transaction; the transaction; its rollback |
| `Edit` | `Edit`, `batchMembers`, `editOne`, all in one transaction |
| `OpenForm`, `SaveForm`, `CloseForm` | GET, then PATCH with the version that was read; a refusal or giving up |
| `Create`, `Import` | `Persist` without a previous row; `importer.check` over a file |
| `DeleteAssets` | `Delete`, `DeleteMany`; the history goes with the row (ON DELETE CASCADE) |
| `DeleteStatusCheck`, `DeleteStatusCommit` | the count on the pool, the delete in a transaction that does not count |

Instants are integers; `ReadClock` lets two readings be equal, and the newest
event is the greatest `(at, position)`, as `ORDER BY created_at DESC, rowid
DESC` has it. Batch ids are fresh, as UUIDs are. Left out: notes, due dates,
who acted, `edited_at`, the confirmation typed before a deletion, attributes.
The events of one import share an instant: each row reads the clock again
in the code, but they belong to different assets and are their first events, so
only an order between assets is lost.

### HolderTree and the code

Each handler has a `job`: what it holds between its reads and its write.
`Create` is check and commit; `Update` is look, rename or move, one `UpdateClimb`
per ancestor read by `descendsFrom`, commit; `Delete` reads the marker, counts
assets, counts children, commits. `Refuse` is any refusal, of a check or of the
foreign key. `named[a][c]` says which entity the column `c` of asset `a` names
(holder, home, or a reference field); `Name` and `Unname` stand for transfers
and saves, which do not look the entity up. `Founding` is the tree at the start,
and may hold departments without a company: migration 005 says it left them.

`Name` admits a deleted entity as well as a live one, because the request that
names it may have been composed before the deletion. Entity names and their
uniqueness among siblings are left out; `UNIQUE(type, name, parent_id)` can only
refuse a write, never make one.

### SchemaTree and the code

| TLA+ | Code (`internal/schema`) |
|---|---|
| `categories[c]` : parent, path, display key | a row of `categories`; the path is materialised when the row is written |
| `fields[f]`; `KeyOf`, `Computed`, `Unique` | a row of `field_definitions`; what never changes of it is a constant of its id |
| `bound` | `category_fields`, `model_fields`, `vendor_fields` in one set of pairs |
| `CreateField`, `Bind` | `field_store.go`, `binding.go`, `device_binding.go`; several fields and targets are bound one after another in one transaction, and all the bindings made before are seen |
| `Unbind`, `UnbindDevice`, `UpdateField` | the same; the dependencies are checked on a category, on a device nothing is |
| `DeleteFieldCheck`, `DeleteFieldCommit` | the look at referrers on the pool, the transaction that looks at nothing |
| `CreateCategory`, `UpdateCategory`, `DeleteCategory` | `category_store.go`; a move writes the path of the category alone |
| `CreateModel`, `UpdateModel`, `DeleteModel`, vendors | `model_store.go`, `vendor_store.go` |

Which fields a device has (`FieldsForAsset`) is the union of what its
category's path, its model and the model's vendor bind. `HasCycle` and
`Computable` say by closure and by existence what `compute/dag.go` finds by
working through a queue: the loop of `TopoSort` itself is not modelled, only
what it decides.

### FieldEditor and the code

| TLA+ | Code (`web/src/features/fields`, `routes/Fields.tsx`) |
|---|---|
| `rule`, `hung` | the template of one computed field, and what it is bound to |
| `numbered[t]` | the rules by which the devices under a category, a model or a vendor got their value; empty where there are no devices |
| `editors[e]` | a dialog: the rule as opened and as typed, the side, the ticked boxes, a confirmation that is asked |
| `saves[e]` | `save` of `FieldEditor.tsx`, request by request: `PatchRule`, `LookAhead` (the recomputation as a trial), `WriteCategory` for each category, `UndoRule` where values collide |
| `calls[c]` | one request of `onFormChange`: sent, done or refused by the server, then answered or lost |
| `ServeBind`, `ServeUnbind` | `BindCategory`, `BindDevices` and their opposites as far as one field decides them; refusals for other fields' sake are a choice |

A rule and a value are told apart by nothing but which rule it is. Whether two
values collide is a choice made at the trial, and again for a category only if
somebody wrote since the trial. `moved`, `alone` and `sole` are history: no
guard reads `alone` or `sole`.

What the code does and the properties therefore name as exceptions:

* A field on models or vendors is never computed again: `categoriesBinding`
  finds it no roots. Its devices keep the numbers of the rule before.
* `PATCH` carries the rule whether or not it was edited, so that a dialog
  opened before a colleague's save puts the old rule back, without computing.
* The undoing writes the rule as of the opening of the dialog.
* A request that fails after `PatchRule` leaves the new rule with old numbers;
  the dialog stays open, and saving again repeats both.

### AttributeStore and the code

| TLA+ | Code |
|---|---|
| `rows`, `slots`, `found` | `assets`, the live rows of `asset_unique_values`, `asset_search_values` |
| `Prepare`, `Persist` | the two halves of a save (`asset/pipeline.go`, `asset/persist.go`) |
| `Import` | `importer.check` and `Commit`: each line is prepared in the transaction that writes them all |
| `RecomputeCategory`, `RecomputeField`, `PlanRecompute`, `WriteRecomputed` | `asset/recompute.go`: entry, plan on the pool, the writes of one subtree |
| `Configure` | any step of `SchemaTree`, with the rows it takes from assets (a field deleted takes its values) and those that hold it back (a category, a model or a binding in use) |
| `SwitchSearch` | the switch of a field in `UpdateField` and its back-filling |
| `Delete` | `Delete`, `DeleteMany` |

`renumbering` is one recomputation: the categories still to do, the plan of the
one under way, and in `wiped` the keys whose field was deleted since the plan.
`wiped` is history, for a property to name: the deletion of a field takes out
what values there are by then without a new version of the row
(`field_store.go`), and the recomputation compares no version when it writes (`recompute.go`), so that a
plan made before the deletion puts the deleted value back.

Two abstractions carry the module. A value is told apart by how it was typed
and what it is stored as, so that two spellings of one value meet in the index.
And `Prepare` reads the schema as of one moment: the code reads on the pool
three times, and a schema that changes between two of these reads is not shown.

### BrowserSession and the code

`flights[s]` is a `POST /auth/refresh`: sent, looked up on the pool
(`RotateRead`), written (`RotateWrite`) or failed, then answered (`Refreshed`,
`NotRefreshed`, `Refused`) or lost (`Lose`). `pages[t].refreshing` is the
promise of `api.ts` that requests of one page share; two pages have one cookie
and two promises. A token that was already replaced revokes its family, unless
it was replaced moments ago. `SignIn`, `SignOut`, `Reload`, `Disable`,
`Enable`, `ResetPassword` are the handlers that start or end families.

Time is a choice made when a token is looked at. There is one account and one
browser; a sign-out is one step; rotation and the account look-up after it are
one step, and so are the look-up and the insertion of a sign-in.

### The console's pages and the code

| Module | State | Steps |
|---|---|---|
| `AssetList` | `list`: filters, window, answer on screen, ticked devices, anchor, armed question, walk; `fleet` on the server | what is clicked in `Assets.tsx`, `Pager.tsx`, `ActionBar.tsx`, `SelectAllBanner.tsx`; the answers; what colleagues do; `Leave` and `Return` by the address |
| `AssetForm` | `row` on the server; `form`: the cached device and the form's values; `question` about a model's defaults; `save` under way | `AssetDetail.tsx`, `ModelPicker.tsx`, `DynamicForm.tsx`, and the PATCH with its version guard |
| `Accounts` | `users`, `roles`; `handlers`: what each request has read; `editor` | every handler of `handlers_users.go`, `handlers_roles.go` as look-up and write; the arrival through single sign-on; `RoleEditor.tsx` |
| `PrintDialog` | `dialog`, `press`, `jobs` of the service, `labels` of categories | `PrintDialog.tsx`; `printAssets` one job at a time; the queue, which is external |
| `ImportDialog` | `wizard`, `preview`, `commit`, `imported` | `ImportDialog.tsx`; `importPreview`, `importCommit` |

`Matching` builds the rows a filter keeps one after another, as a recursive
function over the devices from the newest on, and a walk (`list.walk`) counts
how often it has met each device, since a list that shrinks or grows under a
walk by offset makes it pass over some or meet some again.

Fields named as history (`touched`, `chose`, `opening`, `unsure`, `mixed`,
`of`, `left`, `ended`, `forked`, `unheard`) are read by properties only; no
guard depends on them.

`Console` lets one page be open at a time. Each is a route of its own, or a
dialog over one, that loses its state when it is left; they share no state that
is modelled, so their steps commute and nothing is lost by taking them apart.
What two of them do to one table is in the modules of the server.

## 3. Runs

| Run | Question | Result |
|---|---|---|
| `ledger_race` | one asset, two overlapping transfers, a form, corrections, deletion, a custom status that comes and goes | pass, 224 650 states |
| `ledger_batch` | two assets imported, sent out, returned, corrected in batches; refinement of `CustodyRecord` | pass, 175 628 states |
| `holders` | two overlapping requests over four entities and the columns of an asset | pass, 688 842 states |
| `schema` | two categories, three fields of which two share a key, a model and a vendor, any order of defining, binding, moving, deleting; two dialogs on one field | pass, 208 849 states |
| `values` | two assets, a save, imports, a recomputation, and the schema changing under them | pass, 269 916 states |
| `client` | two pages, two requests, three tokens, answers lost, resets and revocations; liveness | pass, 111 904 states |
| `console` | the list, the form, the role editor with two handlers, printing, importing | pass, 801 059 states |
| `ledger_snapshot` | is the asset always where its newest event says? | violated |
| `ledger_status_delete` | is a status in use never deleted? | violated |
| `holder_delete` | is an entity in use never deleted? | violated |
| `schema_move` | does a category inherit the fields of its ancestors? | violated |
| `defaults` | are the defaults of a model copied once? | violated |

`client` checks for deadlock. The other runs say `CHECK_DEADLOCK FALSE`, since
their explorations end at a bound (ids used up, `MaxEvents`, `MaxClicks`,
`MaxRequests` and the like) where the program would go on.

What the passing properties say:

* `HistoryReplays`: a history committed in the order of its timestamps chains
  (`from` of each is `to` of the one before) and ends where the asset is. This
  is what `nexus verify` replays. It is conditional on the order because the
  order can fail, which `ledger_snapshot` shows.
* `MatrixHolds`, `RetiredLeftOnlyByCorrection`: no event breaks the matrix of
  the built-ins, as written or as corrected, and a retired asset comes back
  only by correcting its newest event. Both across changes of the status table.
* `VersionNamesRow`: a form whose version is still current shows the current
  row, so the version guard alone prevents lost updates of these columns.
* `HistoryIsImmutable`: a correction touches the newest event's destination
  only, and keeps what it first said however often it is corrected.
* `BatchMovesAllOrNone`, `BatchCorrectedTogether`, `CheckInGoesHome`: batches.
* `KeepsCustody`: the ledger implements `CustodyRecord`. A step enters, moves,
  corrects or strikes a set of assets as a whole and leaves the rest alone; a
  move records where the asset was; what is struck never returns.
* `TreeIsProper`, `DefaultStockIsOneLocation`: although every check runs on
  reads that may be stale when the write happens.
* `SidesExclude`, `KeysStayDistinct`: a field hangs on categories or on
  devices; a device that has one field per key keeps one, until a category is
  moved or a model given another vendor, which the code does not check.
  `InputsStayBound`, `DisplayKeysStayUsable`: what a template reads, and what a
  category is shown by, stays, but for the steps that are named as exceptions:
  moves, a field that stops being required, a deletion whose check was stale.
* `SavesAreWhole`: a save of a rule that is answered leaves all devices of the
  field's categories numbered by one rule, the one there is, if nobody else
  touched the field or recorded a device meanwhile.
  `TicksAreTrue`: a dialog with nothing under way ticks exactly what the field
  hangs on, if nobody else bound it, no answer was lost, and no two of its
  requests were of one box or of two sides.
* `IndexesStayBacked`: the unique values and the search hits of an asset are
  those of its attributes, through saves, recomputations and the search switch
  thrown between the halves of a save; the deletion of a field alone takes a
  value from under its entries.
  `ValuesChangeWhenAsked`: what was typed changes by a save that asks for it
  and by the deletion of its field; but a recomputation may write over a save
  that came after its plan, or bring back what a deletion took out after it.
  `TwinsAreExplained`: two assets come to have one unique value only by a
  change of the schema or by a preparation that it has outdated.
* `EndedStayEnded`: no token of a family that was revoked on purpose works.
  `ReplaysAreExplained`: a page loses its session to the theft alarm only after
  a rotation that was not heard of, or one of another page.
  `RequestsSettle`, `DoorIsShown`: every refused request is answered, and a
  page whose refresh is refused shows the sign-in form or has a session again.
* `AdminRemains`, `RolesStayWhileUsed`, `SwitchesAreExplained`: of accounts.
* `CountIsHonest`: the number that is typed before a deletion is the number of
  devices it takes. `QuietWalksTakeAll`: select all takes all that match when
  nobody disturbs it. `FiltersComeBack`: the address brings the question back.
* `NothingUnseenIsOverwritten`: a save of the form writes over nothing that
  the person had not been shown.
* `AllDoneIsTrue`, `PrintsAreExplained`, `ImportsAreExplained`: of the dialogs.

The five violations are disagreements of the code with a document, quoted in
`PROJECT.json` under `findings`: `data-model.md` section 7 item 2, FR-011 of
`specs/004`, the rule of deletion in `docs/rules/domain.md`, FR-020 on
inherited fields (a moved category keeps its children on their old paths), and
`docs/rules/schema.md` on defaults (a value that was emptied is filled from the
model again by the next save).

### Bounds, and why they are enough

* Two transfer handlers: the hazards are between one handler's reads and one
  other commit. Handlers are interchangeable and symmetric in `ledger_race`.
* `MaxClock = 2` gives three instants: enough for equal, ordered and inverted
  readings of two handlers plus the creation. In `ledger_batch` all instants
  are equal, so that the order by rowid decides and histories are in order.
* `MaxEvents = 3`: creation, a move, and one more, so "newest", "previous" and
  "older" all exist. `MaxVersion` 3 or 4: a form may be stale by two writes.
* One custom status: only its being absent, live, terminal or condemned counts.
* Two batches and two assets: a batch whose members diverge, and a second one.
* Two holder requests and four entities, one of them free to be created: a
  company, an old department, a default location, and a fourth of any kind.
  One asset and one column: `Blocked` asks only whether some column names it.
* `schema`: `MaxRows = 4` of two categories, three fields, a model and a
  vendor, so that any four meet: a parent and a child with two fields of one
  key, a model and its vendor with one each. `MaxBatch = 2`: a batch whose
  second pair is refused because of the first. `MaxPath = 2`; `schema_move`
  needs a grandchild and has 3.
  Of the dialogs, `MaxEdits = 2`: two saves meet, or a save and a box, or two
  boxes, or a device recorded during a save. Two categories with no ancestry, a
  model and its vendor; two rules, of which one is put back. `Fields` looks at
  the schema or at the dialogs; the first has the second's effects among its
  own steps, so their product would show no more.
* `values`: `MaxVersion = 2`, one session and `MaxEdits = 1`: one change of the
  schema between any two of the steps of a save or a recomputation, starting
  from any of several schemas, with an asset saved before or without, and with
  the deletion of a field checked and about to be written (`MCSpec`).
  Two assets are what a collision needs.
* `client`: three tokens let one be current, one retired and one on its way.
  One sign-in besides the session at the start.
* `console`: three devices of which one is recorded late, pages of one or two,
  a walk of one at a time, so that a walk has three answers and can be
  disturbed. `MaxClicks = 5`: filter, tick, arm, delete, one more. Three
  accounts with two administrators and two handlers: each may act on the other.
  Two categories to print with two labels, two presses: a repetition after a
  lost answer. Two files, one of which cannot be repeated, four uploads: a
  preview, a commit that is lost, and both again.

### Fairness

Only `BrowserSession` states fairness, and only of what does not wait for a
person: `WF(Refresh(q))`, a refused request asks for a refresh in the handler
of its own answer; `WF(Goes(t))`, a refresh of a page goes on, is answered or
is lost. The last holds because a `fetch` ends, with an answer or an error, and
because the server's handler is given up with its caller. Nothing is assumed of
people, of resets, of sign-ins, nor of which of the outcomes is taken. The other
modules are about safety: their waiting is waiting for a person.

## 4. Proofs

The proof modules assume only the named assumptions of the modules: that inputs
have the types of the request records, that markers such as `Idle`, `None` and
`NoState` are no values of the data, that the founding tree is one an older
release could have written, that there is one administrators' role, that no
device is listed twice. TLC evaluates them in every run.

The theorems are about the specifications that start where the program starts
(`Spec`, `StoreSpec`, `ListSpec`, `ConsoleSpec` and the like) and do not depend
on the bounds. The runs `schema`, `values` and `console` start from states
further on, where their bounds would not let them come.

Most properties are not inductive as they stand. The argument names what was
added, and why.

The ledger (`TransferLedger_proofs`):

| Theorem | Argument |
|---|---|
| `LedgerTypeCorrect` | `TypeOK` is inductive. Steps that write the ledger are grouped by shape: `Appending` (Apply, SaveForm), `Entering` (Create, Import), `Rewriting` (a save that moves nothing), Edit, deletion; the lemma `LedgerSteps` says there are no others. |
| `HistoriesReplay` | inductive with `TypeOK`. `TailIsLast`: in a history in order the newest event is the last, which is what lets `Edit` write it into the asset. Appending an event out of order makes the premise false. |
| `MatrixAlwaysHolds` | `ValidFollowsMatrix` for the event that is written; older events do not change, or change as `Edit` validated. |
| `VersionsNameRows` | `Advances`: each step leaves a row alone, or moves its version on, or ends it; so a version a form has seen is never given to other content. |
| `HistoriesAreImmutable` | by the shapes: `Edit` writes the newest event of each member, keeps `original` if there is one and sets it otherwise; the others add behind or drop the whole history. |
| `RetiredIsLeftOnlyByCorrection` | `RetiredIsTerminal`: the built-in stays terminal, because only custom statuses are created, updated and deleted. With it no transfer and no form leads out of retired. |
| `BatchesMoveAllOrNone`, `CheckInsGoHome` | a handler ends by its transaction or its rollback (`EndsByAnswer`), and the transaction writes every asset it names or refuses. Of a check-in also `FallbackIsALocation`: what was read as the default stock point before the lock is a location or nothing. |
| `BatchesAreCorrectedTogether` | `BatchInv`: the batch id of a request under way is on no event and on no other request (`BatchesReserved`), so a commit cannot add an uncorrected event to a batch that was corrected; and a history is no longer than the range a correction looks for members in. |
| `LedgerKeepsCustody` | the refinement of `CustodyRecord`, step by step: each shape is an entry, a move, a correction or a striking of the record under the mapping, and a request that waits or is refused is a stutter. |

Holders (`HolderTree_proofs`):

| Theorem | Argument |
|---|---|
| `HolderTypeCorrect`, `OneDefaultStock` | inductive as they stand: the marker is cleared and set in one transaction. |
| `TreeAlwaysProper` | a handler about to write carries the result of an old check. The strengthening `ChecksHold` says what such a result is still worth: the kinds of the parent and of the entity cannot have changed (`KindsStay`), although either may be gone, which the foreign key catches. |
| `NeverACycle` | from the kinds: a parent's kind is strictly above, so a set closed under parent would have no company, department or location at the top. The check for cycles in `Update` is not needed for it. |

The schema (`SchemaTree_proofs`) and the dialogs over it (`Fields_proofs`):

| Theorem | Argument |
|---|---|
| `TypeCorrect`, `SidesExcludeEachOther`, `KeysStayDistinctAlways` | of any two bindings made by one request one was made in presence of the other (`PairOrder`), so its check saw the other; what each check keeps apart is said once (`GateKeepsSides`, `GateKeepsDevice`, `GateKeepsPath`). `BoundInv` adds that only live fields hang on live targets, without which a field created under an old id would inherit bindings. `StepKinds` sorts the steps by what they add, remove and move. |
| `DisplayKeysAlwaysUsable` | `SchemaInv` adds to `BoundInv` that only fields of the library are bound and that a path ends in its category, behind its parent (`Rooted`). The last is what makes the deletion of a category harmless: what is deleted stands at the end of its own path and, having no children, on no other. The premise that a device has one field per key, which the property had before, turned out not to be needed and was dropped. |
| `InputsAlwaysBound` | that a chain is `Sound` (what its computed fields read is bound on it, and they have an order) is kept by binding because the gate looks at every chain below the target (`GateKeepsSound`), by unbinding and deleting because no field on the chain still reads what goes (`LostIsUnread`), by an update because a changed rule is checked wherever the field is bound (`UpdatedSound`). No circle arises (`NoCircle`): the closure that `HasCycle` computes is closed under reading. |
| `SavesStayWhole`, `FieldTypes` | `AllOnCourse`: what a save that nobody interfered with has left to do is exactly what is numbered otherwise. Before the patch all is numbered by the rule as opened; while categories are written, only those still to do may have other numbers; and a collision is found by the trial, before anything is written, since its verdict stands as long as nobody else writes. |
| `TicksStayTrue` | `InStep`: the requests under way of a dialog are of different boxes of its side, and a box differs from its binding only where an answer has been given and not heard. `QuestionsFit` carries the side of the box a dialog asks about over the confirmation. |
| `FieldsStayTyped` | a step of `Fields` is a step of the schema or of the dialogs, and each keeps the other's variables. |

The assets' attributes (`AttributeStore_proofs`):

| Theorem | Argument |
|---|---|
| `StoreStaysTyped` | needs `Placed`: the category and the model of an asset are there as long as it is, since deleting either is refused while assets have it. |
| `IndexesStayBackedAlways` | `WritesFaithful`: what a save has prepared, or a recomputation planned, has in its entries only values that are in its own attributes. So whoever writes one with the other leaves indexes that say what the asset says, however old the preparation is. |
| `ValuesChangeOnlyWhenAsked` | `PlanInv`: a plan is of the row as it is or of an older version; of the row as it is it keeps whatever is not computed, unless the field was deleted since. An attempt to prove the property without that exception failed at the deletion, and TLC then showed the behaviour, from the initial states of `values` with a deletion pending: plan, delete, write. The property now names it. `CreationsFresh`: an asset that is being created is nobody else's, so that no plan is about it. |
| `TwinsAlwaysExplained` | with `SidesExclude`, taken over from the schema, since a field that hung on both sides would have two scopes. If both assets have their entries, the two entries are of one key, value and scope (`OneScope`, `GuardedEntry`), and the writer of the second looked at the first: `PersistMeets`, `ImportMeets`, and for the entries that one recomputation writes one after another `OrderMeets`. |

The browser's session (`BrowserSession_proofs`):

| Theorem | Argument |
|---|---|
| `SessionStaysTyped` | `Shape`: a page has at most one refresh under way, of its own requests, and whoever waits waits for that one; a family that tokens name has begun. |
| `EndedAlwaysStayEnded` | `FamilyInv`: a rotation under way remembers the right family of its token (`Recalled`), and a family has one token that works, until a rotation forks it (`OneLive`). Ending a family removes that one; a rotation that had read before may write after, and that is a fork. |
| `ReplaysHaveReasons` | `ReplayInv`: a token on its way back is known to the server and to nobody else (`NextIsSecret`), and a cookie that was rotated, where no answer has gone missing, is one whose answer is still to come (`CookieWitness`). |

The console's pages (`Pages_proofs`, `Console_proofs`):

| Theorem | Argument |
|---|---|
| `AdminAlwaysRemains`, `RolesAlwaysStay` | `guardLastAdmin` counts in the transaction that writes, so the other administrator it counts is there after it; a role that was counted free may have been given since, and it is the foreign key that refuses. |
| `SwitchesAlwaysExplained` | a handler writes switches that were sent long ago. The strengthening says what a dialog and a job hold is the role as it stands with the clicked switches flipped, unless another save has come in between. |
| `NothingUnseenIsEverOverwritten`, `SavesNeverMove` | the strengthening `Known`: a form whose cached version is that of the row shows the row, and the keys that nobody touched are as in the cached device. The version guard then gives the rest. |
| `ListStaysTyped` | `ListInv`. That a walk meets a device at most once more than colleagues stirred the fleet is not inductive by itself: a device that was met that often must also stand before the walk's offset (`WalkSound`). A deletion only brings it further to the front (`PlacesFall`); a recording may push it behind the offset, and is a stir that the bound counts (`WalkDisturbed`). |
| `QuietWalksAlwaysTakeAll` | the other half of `WalkSound`: while nobody disturbs it, a walk's total is the number of matching devices, and it has met all it has passed. |
| `CountIsAlwaysHonest` | the number that was typed is the number of devices in the batch (`ListInv`), the server takes a batch whole, and what is ticked once is counted once (`SumOfOnes`). |
| `FiltersAlwaysComeBack` | while a device is open that was opened from the list, the address it was given says what the list asked; `AddressOf` and `Seeded` undo each other. |
| `ImportsAlwaysExplained` | `ImportInv`: a report on screen and a commit under way are of what is chosen unless something was chosen since, and a file is written once unless an answer was lost. |
| `AllDoneIsAlwaysTrue`, `PrintsAlwaysExplained` | `PrintInv`: the press is of the dialog that is open or of one that is gone; the jobs it has queued are a prefix of its batches; the button can be pressed again only after an answer that was not heard in full; what the dialog shows of a job is what the queue has. |
| `AccountsStayTyped`, `FormStaysTyped`, `ImportStaysTyped`, `PrintStaysTyped` | the types of each page, with the relations between requests and dialogs that make them inductive. |
| `ConsoleIsItsPages`, `ConsoleStaysTyped`, `ConsoleKeepsItsPromises` | a step of the console is a step of one page and leaves the others' variables alone, so a behaviour of `ConsoleSpec` is one of `ListSpec`, of `FormSpec`, of `AccountsSpec`, of `PrintSpec` and of `ImportSpec`; what is proved of each page is then proved of the console. |

The theorems about the list need facts about recursive definitions: what
`Matching` has at each place, and that a sum over a set of ones is its
cardinality (`Count` is a fold). The library's induction theorems cannot be used
with the installed provers, but its well-foundedness theorems can: the smallest
number of devices, or the smallest set, at which a fact fails is one for which
it held just before (`WFMin` with `NatLessThanWellFounded`, or with strict
inclusion of finite sets). `Matching` was written with a recursive function
instead of `SelectSeq` for that reason.

Proved are thus all properties of the passing runs but two: `RequestsSettle` and
`DoorIsShown` are liveness under fairness, which needs ENABLED and is left to
TLC. The five properties that are violated are refuted by TLC, of course, and
nothing is proved of them.

## 5. What is left

In the order of what it would add:

1. `DependencyOrder`: the queue of `TopoSort` and the cycle that `findCycle`
   names, against `Computable` and `HasCycle`. `TimestampOrder`: the text order
   of `FormatTime` against the order of instants.
2. Splitting the three reads of `Prepare`, and the look-up and the insertion of
   a sign-in.
3. The timeline and the transfer dialog of the device page; two browsers of one
   account.

## 6. Not modelled

Queries, exports, templates, the overview, configuration, the migration runner:
they keep no state or format it. Expression evaluation, OpenID Connect and
SQLite belong to libraries; SQLite is present as the atomicity of a transaction
and the constraints it enforces. A crash in the middle of a transaction leaves
nothing behind, and there is no other state to recover, so there is no crash
action; a crash between two transactions is a handler that never takes its next
step, which every behaviour may contain.

Most lines of `web/src` are markup, wording (the two catalogues in `i18n` alone
are 1 760 lines), charts, style and primitives (buttons, inputs, tables,
popovers): they decide nothing that a property could be about, and no model
stands for them. The pages for categories, models, vendors, holders, statuses,
accounts, keys and the audit trail each send one request to a handler and show
its answer; the dialogs of roles and of fields stand for them, as one that sends
back what it read and one whose save is several requests. Of the field dialog
the creation, the deletion and the switches beside the rule are left out. That is why the map covers a small share
of those lines and most of the decisions.

API keys have neither family nor rotation. The audit trail is an insert after
the change it records. Of the form, the keys of fields that only some models
have are in `AttributeStore`, not in `AssetForm`; answers of earlier questions
that the list's cache would show again are left out. Polls that fail change
nothing that is decided. The service that prints, and the browser's own
behaviour, are modelled from how the code uses them.
