# TLA+ verification of the inventory backend

The repository is the backend of an inventory count (FastAPI, SQLAlchemy,
PostgreSQL). An administrator creates a *campaign*, freezes a *snapshot* of the
stock it expects, and makes one person responsible. That person opens a
*session* on a phone and sends *events* (scans, corrections, damage). The
submitted counts are *reconciled* with the snapshot, possibly after blind
*recounts*, approved, valued, documented and closed.

This directory holds TLA+ modules of that system, the TLC configurations that
check them on small instances, and theorems about them proved with TLAPS.
Paths below are relative to `src/`.

## 1. Inventory

### How the parts interact

All state is in PostgreSQL at READ COMMITTED; a request is a thread with a
database session of its own (`app/db/session.py`). Every command on a campaign
first takes the row lock of the campaign (`campaign_service.lock_campaign`),
then that of the session, then those of the recounts, and keeps them to its
commit. So commands of one campaign are serialised, and most are one atomic
step. What is not:

- an event **batch** is one transaction of several events, each with its own
  look at the clock and at the catalogue;
- `GET /campaigns/{id}` reads the campaign **without the lock** and may write
  `EXPIRED`;
- generating a **document** locks its campaign first and the settings row later,
  after having read it; the file is on disk before its row is committed;
- **imports** are requests of three transactions each; they change the catalogue
  and take no lock of a campaign;
- **uploads** of evidence look, wait for the body, write a file and commit a row
  with no lock at all;
- **resolving an unknown code** locks the code alone and asks for no status, so
  it comes between any two commands of a review;
- a request can fail, or its worker die, at any time before its commit;
- the clock passes the deadline between any two steps.

### Components

| Component | State | Operations | What is hard | What makes it correct |
|---|---|---|---|---|
| Counting engine (`services/counting/event_service.py`, `qr_service.py`) | event log, totals, unknown codes, extras, damages of a session | `process_event`, `process_batch`, `undo_event` | retries, batches that fail or expire half-way, LIFO undo in two domains of one row, codes that become products | quantities follow the log; damage ≤ count; an event counts once; a closed session is frozen; a failed batch leaves nothing |
| Campaign lifecycle (`services/inventory/campaign_service.py`, `assignment_service.py`) | campaign status, deadline, frozen flag; assignments | create, update, assign, unassign, start, cancel, reopen, expiry | expiry from every command and from an unlocked read, reopening | one responsible; statuses agree with the rows; history is final |
| Sessions (`services/counting/session_service.py`) | sessions | start, submit, cancellation with the assignment | hand-over in the middle of a count | one open session, of the responsible |
| Recounts (`services/inventory/recount_service.py`) | recounts | request, start, submit, cancel, reassign, reset by a reopening | any order of these with expiry | recount and session move together; none open under review |
| Snapshot (`services/inventory/snapshot_service.py`) | frozen items and their hash | choose a batch, preview, build | duplicates in the source, a batch that fails after it was chosen | frozen before the count starts, from one file |
| Unknown codes (`exception_service.py`) | resolution of a code | resolve | no campaign lock | a resolution is final |
| Damage evidence (`evidence_service.py`, `api/exceptions.py`) | a file and a column per damage | upload | a file and a row written apart, with the body awaited in between | a row's file exists |
| Reconciliation and approval (`services/reconciliation/*`) | items with selected quantity, source fingerprint, versions | prepare, select, override, approve | sources that change after preparation | what is approved is what was submitted |
| Valuation (`services/valuation/*`) | amounts per item and totals | calculate | rounding; recalculation after reopening | totals add up; computed from what was approved |
| Documents and closing (`services/documents/*`, `documents/engine/storage.py`) | exports with number and status; files; export profiles | generate, supersede, record a failure, clean up, close | a counter read before it is locked, a commit in mid-generation, files and rows apart | one document in force per type, its file there; closing needs all of them and freezes them |
| Settings and logo (`services/system/organization_service.py`) | one settings row with the next number; the logo's file | update, upload a logo | file and row apart; first call creates the row | the logo named is there |
| Imports (`services/imports`, `app/importers`) | batches, products, contacts, links, stock, movements | parse, claim the file, apply it, record a failure | overlapping imports of one file or one product, a commit not seen, a crash in between | a batch is its whole file or nothing; a file is imported once; nothing is erased |
| Users and permissions (`app/auth`, `services/auth`, `api/admin.py`) | users, roles | activate, grant, revoke | two removals at once | one active administrator always |

Document rendering (`app/documents`), routing and payloads (`app/api`),
declarations (`app/models`, `app/db`, `app/core`) hold no state of their own.

The hazards found while reading are listed, each at its line, in
`PROJECT.json`.

## 2. Modules

| Module | What it is |
|---|---|
| `CountEngine` | one session: event log and derived quantities |
| `CountLedger` | what a session promises: piles of quantities |
| `Ranks` | the elements of a sequence at some of its positions, in order |
| `CountEngineRefinement` | the mapping from `CountEngine` to `CountLedger` |
| `Ranks_proofs` | lemmas on `Ranks`, and induction on the natural numbers |
| `CountEngine_proofs` | theorems of `CountEngine`, its refinement of `CountLedger` among them |
| `CampaignLifecycle` | a campaign with its assignments, sessions and recounts |
| `CampaignLifecycle_proofs` | theorems of `CampaignLifecycle` |
| `Reconciliation` | the review of a campaign: reconciliation, approval, valuation, documents, closing, reopening |
| `Settlement` | what a review promises: an official count and its amounts |
| `Reconciliation_proofs` | theorems of `Reconciliation`, its refinement of `Settlement` among them |
| `DocumentEngine` | generations of documents, logo uploads, the settings row, closing: locks, files, failures |
| `DocumentRegister` | what the documents promise: numbers given once, types documented, campaigns closed |
| `DocumentEngine_proofs` | theorems of `DocumentEngine`, its refinement of `DocumentRegister` among them |
| `ImportFiles` | the parsers: from the rows of a file to products, movements and contacts |
| `ImportFiles_proofs` | what the parsers make of a file of any length |
| `Imports` | overlapping imports, and the campaigns that freeze what they leave |
| `Imports_proofs` | theorems of `Imports` |
| `Access` | users, roles and the last administrator |
| `DamageEvidence` | uploads of evidence by the users of `Access` |
| `DamageEvidence_proofs` | theorems of both |
| `MCCountEngine`, `MCCampaignLifecycle`, `MCReconciliation`, `MCDocumentEngine`, `MCImports`, `MCDamageEvidence` | instances for TLC |

The components meet in a few columns, and each module has the others'
effect on them as actions of its own: `CountEngine` sees the campaign's status,
the assignment and the catalogue, `CampaignLifecycle` the existence of sessions
and of the snapshot, `Reconciliation` the submitted sessions and what they
counted, `DocumentEngine` approvals (`Reapprove` stands for everything from an
expiry to the next approval), `Imports` the start of a campaign. `Imports` is
built on `ImportFiles`, and `DamageEvidence` composes the uploads with `Access`:
what a user may upload is what its roles grant at that moment.

### CountEngine

*State.* `log` is `inventory_count_events` in `server_sequence` order; `qty`
the `quantity` and `damaged_quantity` columns of `inventory_count_totals` and
`inventory_unknown_codes`, by *cell* (a product, or a code that is not one);
`rows` says which cells have a row; `extra` is `inventory_extra_items`.
`session`, `campaign`, `due` and `assigned` are what `_assert_open`,
`assert_campaign_active` and `_assert_actor_owns` look at. `batch` is the open
transaction with the rows it would roll back to.

*Actions.* `PostEvent` is `process_event` with `commit=True`; a refused event
changes nothing and has no action. `OpenBatch`, `BatchEvent`, `BatchReplay`,
`BatchReject`, `BatchCommit` and `BatchCrash` are the steps of `process_batch`:
an event is looked up by its uuid *before* the session's state is checked, so a
replay succeeds even on a closed session. `ExpireOnRequest` is
`assert_campaign_active` finding the deadline passed: it commits, with a batch's
flushed events if there are any. `UndoEvent` is `undo_event`. The remaining
actions are what the rest of the system does to the session, in as much detail
as the session can see; `CampaignLifecycle` has them in full.

*Abstraction.* A scanned code is a reference: `normalize_scanned_code` and the
rejection of unreadable codes are left out, as is `MULTI_QR_SCAN`, which counts
as `QR_SCAN` does. The inputs carry the fields of the signature that matter
here. Event metadata, damage descriptions and timestamps are left out, and so
are the `inventory_damages` rows, written with every damage event and read by
nothing here. A command other than the batch's own events waits for the lock
while a batch is open, and so needs `~batch.open`.

*Bounds.* `MaxEvents`, `MaxQty` (guards of `Write`) and `MaxBatch`. With
`MaxQty`, an event that would go over is neither recorded nor refused.

### CountLedger and the refinement

The ledger has a pile of quantities per cell and domain. A request pushes
quantities, an undo pops one, the tops are today's quantities, damage never
exceeds the count, and a closed session does not move. There are no events,
retries, batches or clocks in it. The mapping takes a pile to be the quantities
left by the events still in force, of the *committed* log: while a batch is
open, the log it would roll back to. Those events are picked out of the log by
their rank among the positions in force (`Ranks`), not by the recursive
`SelectSeq`, so that the mapping can be proved about. That `CountEngine` implements it says in
one formula that undo is LIFO per cell and domain, that a batch shows its events
at once or not at all (an expiry in the middle shows the first ones), and
that a retry or rollback pushes nothing.

### CampaignLifecycle

*State.* `status`, `frozen` (`snapshot_frozen_at`), `deadline` (none, future or
past: all the code compares), the rows `asg`, `ses`, `rec` of assignments,
sessions and recounts, and `get`, the campaign as each reader of
`GET /campaigns/{id}` has read it.

*Actions.* One per command of the services: `Assign`, `Unassign`,
`StartCampaign`, `UpdateDeadline`, `CancelCampaign`, `Reopen`, `StartSession`,
`Submit`, `RequestRecount`, `CancelRecount`, `ReassignRecount`, `Prepare`,
`Approve`, `Close`. `ExpireOnCommand` is `expire_campaign_if_due`, committed by
any command that then fails; `RequestRecountLate` the wider expiry in
`request_recount`. `GetRead`, `GetExpire` and `GetReturn` are the endpoint's
read, its unlocked write and its plain return.

*Abstraction.* Optimistic version numbers are left out: a stale version only
makes a command fail, and a command may always not happen here. Whether a user
has the permission, or exists, likewise. `Prepare`, `Approve` and `Close` carry
their conditions on the status, the rows and the snapshot; what else they need
(items, quantities, valuation, documents) is in `Reconciliation`, so here they
happen at least as often as in the code. `Init`
lets a draft have any deadline, a past one included, because `create_campaign`
does not compare it with the clock.

### Reconciliation

*State.* `status`; `snapshot`, the expected quantity of each product;
`submitted`, the submitted sessions; `recount`, whether one is open; `counted`
and `code`, what each session counted (`inventory_count_totals`) and its
`inventory_unknown_codes`; `source`, the sessions whose hash is
`reconciliation_source_sha256`; `row`, `inventory_reconciliations` by product;
`valuation`, whether `valuation_source_sha256` is that of today's rows;
`document`, by type, what the `GENERATED` document shows.

*Actions.* `Submit`, `RequestRecount`, `CancelRecount`, `Expire` and `Reopen`
are what counting does to a review, as far as it is visible here. `Resolve` is
`resolve_unknown`. `Prepare` (with and without `refresh`), `SelectDefault`,
`Override` and `Approve` are the reconciliation's commands, `Calculate` the
valuation's, `Generate` and `Close` the documents'.

*Abstraction.* A submitted session does not change any more
(`ClosedSessionFrozen` of `CountEngine`), so a fingerprint of the sessions is
the set of them. `counted` takes a resolved code in when it is resolved, which
is what `effective_map` sums up each time it is called; resolving a code of a
session that is not submitted yet comes to the same as resolving it at once
afterwards. The refusal of damage above the count is left out, since
`DamageWithinPhysical` says that it never happens, and damaged quantities with
it. The fingerprint of a valuation holds every row's `version`, which only grows
and grows with every change of a row, so that whether it is the present rows' is
all there is to know. An amount is the quantity it was computed from. The
snapshot is frozen, without which a campaign can be approved but not valued.
Left out: the clients' expected versions (a stale one only makes a command
fail), the refusal of several currencies, rendering and its failure, the
branding and profile of a document.

### Settlement and the refinement

The abstract specification has an official count, the amounts, and whether the
campaign is closed. A count is published whole and not touched until it is
withdrawn; amounts are written once, from the count official at that moment;
closing needs both. The mapping takes the rows' quantities to be official while
the status is `APPROVED` or `CLOSED`. It does *not* promise that the amounts are
of the present count: see `closed_is_valued`.

### DocumentEngine

*State.* `campaign` is the status and version of each campaign, `settings` the
one row of `organization_settings` with the logo's name and the counter,
`profile` whether the canonical export profile exists, `rows` the
`document_exports`, `files` and `logos` the two directories. `campaignLock` and
`settingsLock` are the row locks, held from step to step of a request until its
transaction ends. `tx` is what a request has read: the campaign's version, the
settings row, whether the logo could be drawn. `handed` is a ghost that
remembers who was given each number or image, for the properties alone.

*Actions.* `Open` is the beginning of `generate_document`, `ReadProfile`,
`MaterializeProfile` and `MaterializeConflict` are `get_profile`, which inserts
*and commits* the canonical profile on first use and so gives the campaign's
lock away. `ReuseExisting` and `FindNone` are `_find_existing`. `Allocate` takes
the settings row's lock, but the session returns the object it has read in
`Open`, so that the number and the counter written later are those of that first
read. `RenderAndWrite` follows, or `RenderRaises` and `RecordFailure`
(`_record_failure`), then `Insert` (the flush, which waits for the campaign's row
because of the foreign key, as the insert of a failure does), `Commit` with or
without an answer, `Rollback`, and the cleanup `LookBeforeRemoving` and
`RemoveFile`. Who waits for whom is `Waits`; of two that wait for each other
PostgreSQL ends one, whose statement fails: `Victim`. `WriteLogo`, `CommitLogo`, `RollbackLogo`,
`LookBeforeRemovingLogo` and `RemoveLogo` are `update_logo`. `UpdateSettings`,
`Close` and `Reapprove` are commands of one step. `Crash` ends a request between
any two. `LiveSpec` adds the fairness of section 3 to all this.

*Abstraction.* A document is what it shows: number, campaign, type, the
approval's version, the organization's name and logo, and who rendered it, which
stands for the hash of the file. The fingerprints are the fields they are made
of. `Source` leaves out what no command here changes. Only the canonical profile
is used. The settings row is there and configured from the start.

### DocumentRegister and the refinement

The register knows the numbers given, which campaign has a current document of
each type, and which campaigns are closed. A number is given once and only to
one document, a type once documented stays so, a campaign is closed only when
every type is documented. The mapping reads this off `document_exports` and the
statuses. Files, locks, the counter, failures and retries do not appear, so that
the refinement says that none of them shows.

### ImportFiles and Imports

*State.* `rows` holds the columns of products and contacts, `links` the
suppliers of products, `batches` the status of each batch, `stock` and `moves`
what each left, `campaigns` the chosen source and the frozen items. `tx` is a
request: its file, its place in it, and its session, as the rows it has read
(`base`) and as they are now (`mine`).

*Actions.* `FindActive`, `FindNone`, `Create`, `CreateRefused` and `FindWinner`
are the first transaction of `ImportOrchestrator.run`, with the partial unique
index deciding a race. `UpsertProduct` is one product, `UpsertContacts` the
contacts at once, as `upsert_batch` does it, `LinkSuppliers` the links. `Commit`
writes the columns that differ from what was read over whatever is there by
then, refuses duplicate keys, and may be answered or not; `Fail` is any
exception, `RecordFailure` the third transaction, `Die` the end of the process.
`SelectSource` and `Start` are the campaign's. `ImportFiles` translates the
parsers row by row, as a function of the number of rows read (`Reading`): which header makes which file, which rows are products or
movements, what a number that cannot be read does, and to which product a
movement belongs.

*Abstraction.* A cell is a model value, a number or `Bad`; a file's type is
decided by its set of headers. A statement that waits for another transaction is
decided at the commit, when that one has ended. The autoflush between
duplicates of one product changes only the order of writes within one
transaction, and is left out. Dates, the raw reference kept beside a link, the
preview and the dry run (which write nothing) are left out.

### Access and DamageEvidence

*State.* `known`, `active` and `roles` are users and their roles, `adminLock`
the row lock of the role ADMIN, `removal` each request to deactivate or revoke.
`evidence` is `inventory_damages.evidence_path`, `files` the directory,
`counting` the damages whose session is in progress, `upload` the requests;
`writers` is a ghost: the uploads that wrote under a name.

*Actions.* In `Access`, what can only add administrators (first request,
bootstrap, activation, assignment) and what takes other roles away are single
steps; removing an administrator is `LockAdminRole`, `CheckLast`, `Remove` or
`Abandon`. An upload is `BeginUpload` (permission and look), `WriteFile` or
`Refuse` once the body is there, `CommitEvidence` or `CommitFails`, and the
cleanup `LookBeforeUnlink`, `Unlink`; `Die` ends it anywhere. `Submit` ends the
session.

*Abstraction.* The checks of an image's content are one refusal. A request of a
user stands for one with a valid token. Permissions are those the roles grant.

## 3. Runs

| Run | Configuration | Question |
|---|---|---|
| `count_engine` | 2 references (one in the snapshot), any catalogue that contains it, 4 uuids (one foreign), 7 payloads, log ≤ 5, quantities ≤ 2, batches of 2 | do quantities and rows follow the log whatever is sent, retried, undone or rolled back, and does the session implement the ledger? |
| `batch_atomic` | the same, log ≤ 3 | is a batch atomic, as its docstring says? **No.** |
| `lifecycle` | 2 users, 3 assignments, 3 sessions, 2 recounts, 1 reader | do assignments, sessions, recounts and status agree under every order of commands? |
| `cancelled_final` | the same | does a cancelled campaign stay cancelled? **No.** |
| `counting_needs_snapshot` | the same | is there a snapshot before the first count? **No.** |
| `reconciliation` | 2 products, 2 sessions, 1 unknown code each, 2 documents | does a review cover all sessions, stay complete and value what was approved? |
| `approved_is_effective` | the same | is what is approved what the selected sessions counted? **No.** |
| `closed_is_valued` | the same, readers prompt | are the amounts and documents of a closed campaign those of its count? **No.** |
| `documents` | 3 requests, 2 campaigns, 1 type, 1 image, numbers ≤ 3, 1 reapproval | do generations that overlap, fail and die leave one document in force, its file, and closed campaigns alone? |
| `documents_end` | 3 requests, 1 campaign, 1 type, 1 image, numbers ≤ 3, no reapproval | does every request that was begun end? |
| `imports` | 3 requests, 4 files (contacts, master, mixed, one with a product twice), 1 campaign | is a batch its whole file or nothing, a file imported once, nothing erased, every import ended, a snapshot of one file? |
| `evidence` | 2 users, 2 roles, 2 removals, 1 damage, 2 uploads, 2 formats | does an administrator remain, and the evidence that a row names? |

*Why the bounds are enough.* Five events allow the longest interaction of the
engine's rules: count, count, damage, undo of a count (refused while the damage
stands) and undo of the damage, or a batch of two, its retry and two undos. One
reference in the snapshot and one outside, either known or not, give every kind
of cell. Three assignments, three sessions and two recounts allow a first
count, a recount handed over, and another after it; two users are enough for
"the same person again" and "somebody else". One reader suffices, since a
reader only keeps a copy of two fields and each acts alone. All names but the
foreign uuid are interchangeable, hence the symmetry sets; the runs of temporal
refutations without symmetry do not need them.

*Properties of `count_engine`*: `DamageWithinPhysical`,
`QuantityIsLastEffective` (a quantity is what the last event in force left),
`AuditChainUnbroken` (each event starts where the one before it on its row
ended), `AppliedOnce`, `ExtraMirrorsTotal`, `RowsAreLogged`,
`ClosedSessionFrozen` and `ImplementsLedger`. `RowsAreLogged` says that a session
has a total or an unknown row for exactly the cells its log tells of, and that
the history of an unknown code begins with a scan. An undo leaves its row with
zero, so rows only ever appear, and a batch is where they could appear without
their event: when it is refused, when its worker dies, and when it meets the
deadline, which commits half of it. None of these is exempt. A row left behind
would let a code that nobody scanned be corrected by hand.

*Properties of `lifecycle`*: `OneActiveAssignment`, `OpenSessionOfResponsible`,
`OpenRecountHoldsCampaign`, `RecountFollowsSession`, `ReviewHasSubmission`,
`HistoryIsFinal`.

*Bounds of `reconciliation`.* The model has no counters and the runs exhaust it.
Of the two products one is expected, with a quantity that may be negative (the
source can be wrong), and one is not in the snapshot, so that its row appears
only if it is counted or resolved to. A session either misses a unit or counts
what is expected and something besides; its code was not scanned, was scanned
and undone, or counts one unit. Two sessions allow a review, a recount or
reopening, and a second review that selects the other session, with a refresh in
between and a change of the universe; closing with two documents allows one of
them to be of another count than the other.

*Properties of `reconciliation`*: `ReviewIsOfAllSessions` (no session and no
recount behind a review's back, though `prepare` answers early when the sources
are the same), `ReviewStartsClean`, `ApprovalIsComplete`,
`IntactValuationIsTrue` and `ImplementsSettlement`.

*Bounds of `documents`.* Types are alike once the profile exists, so one type, of
the ERP kind, is enough; the profile may or may not be there at first. Three
requests allow a generation to hold the settings row, another its campaign, and
a third to upload a logo or to generate for the second campaign on a stale
counter. Three numbers let the counter move twice and be set back; one
reapproval lets a document be superseded. About 358,000 states.

*Properties of `documents`*: `OneOfficial`, `ClosedIsDocumented`,
`ClosedIsFrozen` (nothing is generated for a closed campaign, except by a
generation that gave its lock away), `SoleHolderKeepsFile` (the file of every
document, superseded ones too, is its own, if its number was handed to nobody
else), `LogoIsThere` (if one upload alone wrote it) and `ImplementsRegister`. The
exceptions are real, see below.

*`documents_end`* checks `RequestsEnd`: whatever was begun ends, answered or not.
The circle of waits that the code can reach is not exempt, it is the point of the
property: a generation whose campaign was unlocked by the commit of the export
profile holds the settings row and waits for the campaign, while another
generation of it holds the campaign and waits for the settings. PostgreSQL fails
the statement of one, and the request ends because the handler gives up its
transaction, and so its locks, on the way out. Did it try again with the settings
row still locked, the two would meet for ever. Three requests allow that circle
with a third waiting for either; one campaign is enough since a circle is always
of two requests of one campaign (`CirclesAreOfTwo`). There are as many numbers as
requests, so that the bound never keeps one from going on. No symmetry is
declared. About 86,000 states.

*Bounds of `imports`.* One file of each kind with the rows the parsers treat
specially (blank, without reference, with a bad number, a movement before any
product), and one with a product twice. Three requests allow a race for one file
whose winner fails before the loser looks, and two imports of a product over
each other with a third before them. Requests are alike, so `InOrder` lets them
begin in the order of their numbers and files. It depends on the files of begun
requests only, which no step but `Begin` changes: no step that fairness speaks
of is cut off by it. About 111,000 states.

*Properties of `imports`*: `AllOrNothing` (stock and movements of a batch are
counted against the rows of its file, independently of the parsers),
`OneImportPerFile`, `SnapshotOfOneFile` (also when the chosen batch has failed
since, or another file gave the same product), `NothingErased`, `ImportsEnd`.

*Bounds of `evidence`.* Two uploads of one damage, of the same or different
formats, meet in every order with two removals of two administrators, themselves
included. About 275,000 states.

*Deadlock* is not checked: a campaign that was cancelled, a session that was
submitted, requests that have all ended or a log at its bound really may come to
rest.

*Fairness.* Assumed in `imports` and `documents_end`. In the latter `Fairness` is
weak fairness of each request's own steps, as far as the code takes them by
itself, and of PostgreSQL's detection of deadlocks. Nothing is assumed of
beginning a request, of losing a connection, of dying or of any command. Weak
fairness is enough though a lock is free only now and then: a request takes the
settings row once and ends, so that after finitely many turns it is free and
stays so until who waits has it.

In `imports`, `FairSpec` adds that as long as some
import can proceed, one does. The thread of a request goes on by itself, a
statement that waits is released when the transaction it waits for ends, and the
database ends a circle of waits; each request has finitely many steps, so that
weak fairness of all of them together gives each its turn. Nothing is assumed of
beginning an import or of a process dying. With it, `ImportsEnd` says that
`run` brings every batch out of PROCESSING, whatever raises, unless the process
dies. Elsewhere every step is a person's command or a clock, and nothing in the
code schedules them; a campaign may be left alone for ever.

### What the violation runs show

1. **`batch_atomic`** — `process_batch` promises "un lote atomico". When the
   deadline passes between two of its events, `assert_campaign_active`
   (`session_service.py:91`) commits `EXPIRED` on the batch's own transaction,
   so the events before it stay although the client is told that the batch
   failed. The client's retry is answered by the idempotency check for the first
   event and refused for the second.
2. **`cancelled_final`** — `refresh_expiry` (`campaign_service.py:119`) writes
   `EXPIRED` by primary key on the strength of an unlocked read. If the campaign
   was cancelled in between it becomes `EXPIRED`, which can be reopened, though
   "Nunca se resucitan campanas EXPIRED/CLOSED/CANCELLED"
   (`recount_service.py:346`).
3. **`counting_needs_snapshot`** — a campaign that expires in `ASSIGNED` is
   reopened into `IN_PROGRESS` (`campaign_service.py:424`) without ever having
   been started. `start_campaign`, the only place that freezes the snapshot,
   takes `DRAFT` and `ASSIGNED`, so there will never be one: every product
   counted is an extra, and the campaign can be approved but not valued or
   closed.
4. **`approved_is_effective`** — `approve` compares the fingerprint of the
   sources with that of the preparation, but `source_fingerprint`
   (`comparison_service.py:59`) hashes the sessions only, and a resolved code
   changes what they counted. Resolved after the preparation to a product that
   has no row, its units are in no row at all; resolved after a selection, the
   selected quantity is without them. Nothing refuses the approval.
5. **`closed_is_valued`** — `close_campaign` "exige valorizacion + 3 documentos
   oficiales", but `reopen_campaign` leaves those of the first closing in place.
   Counted and approved again, the campaign is closed on the amounts and
   documents of its first count, and it cannot be valued again: `calculate`
   refuses, as the rows are not those of its fingerprint. The run assumes that
   no `GET` is answered late (`PromptSpec`), so that it shows the effect of
   reopening a *closed* campaign and not of `cancelled_final`'s race, which
   makes an approved one expire.

### What the passing runs bring to light

The properties of the last three components hold as they are stated; their
exceptions are behaviour of the code that a reader of it should know.

*Documents.* (1) Of two generations that read the settings row before either
commits, both are handed the same number: the second writes its file over the
first's and is then refused by the unique number. Hence `SoleHolderKeepsFile`
speaks of numbers handed once. (2) For the same reason a change of prefix during
a generation can set `next_document_number` back below numbers in use; every
later generation under that prefix then fails. (3) The first ERP document of an
organization commits in `get_profile`, which unlocks its campaign: the campaign
may be closed before the document is inserted, and the insert's wait for the
campaign's row, with the settings row held, can close a circle of waits, so that
PostgreSQL fails one of the two generations. Hence the exception `lost` of
`ClosedIsFrozen`; that both requests end is `RequestsEnd`. (4) A failed generation or upload may remove the file of
another that came to the same path between its look and its removal; only paths
with several writers are concerned.

*Imports.* (1) A commit that succeeds without an answer is followed by FAILED:
the effects stay, the file can be imported again, and a campaign that had chosen
the batch is refused at its start. (2) A process that dies leaves PROCESSING for
ever, and its file is "already imported" from then on. (3) "Already imported"
can name no batch, or one that fails afterwards. (4) Two imports of one product
write the columns each changed against what it had read, so a row can be mixed
of both. (5) A mixed file that names a product twice with a supplier not linked
yet always fails on the unique link. (6) Two contacts of one name become one,
though a comment in `contact_import_service.py:87` says that names are not
assumed unique; two imports of contacts at once duplicate them. (7) A file that
names a product twice is imported, and no campaign can start from it. (8) A
snapshot takes quantities from its batch, but names and prices from the products
as they are when the campaign starts.

*Evidence.* Two uploads under one name: the one that fails may remove the
other's file. Under two formats: the file that loses stays behind. An upload
begun before the submission, or before its user was deactivated, is finished
after it.

## 4. Proofs

All theorems hold for every value of the constants under the modules'
assumptions: `SnapshotAssumption`, `UuidAssumption`, `InputAssumption`,
`NoRowAssumption`, `BoundAssumption` for `CountEngine`, the ones naming
`None` as no row and no user for `CampaignLifecycle`, the types of the
possible snapshots, totals and codes for `Reconciliation`, which needs at least
one required document. `DocumentEngine` assumes a prefix, the ERP types to be
types, and its bounds to be natural numbers; `Imports` that an accepted file is a
sequence of rows with readable or unreadable numbers, references and names in
their columns, that a file of contacts is not longer than there are ids for, that
amounts are integers with 0 among them, and that `None` and the keys are told
apart; `Access` that ADMIN grants what administrators need. Nothing is assumed of
what the parsers return. The runs evaluate them all.

**CountEngine.** `TypeCorrect`, `ClosedSessionIsFrozen` and
`DamageStaysWithinPhysical` (which is inductive together with the same fact about
the rows a batch would roll back to) come first. The other properties are not inductive: that undo lands on the quantity
of the event below needs to know how the events of a row hang together.
`HistoryInv` therefore says of the log, its quantities and the extras — and, in
the same words, of those the open batch would roll back to — that

- `Once`: uuids are unique, undone events are earlier, are no undos, and are
  undone once;
- `AllLinked`: the events of a row form a chain of `before` and `after` that
  starts at 0 and ends in today's quantity;
- `EffectiveLinked`: so do the events *still in force*;
- `Mirrored`: extras mirror totals;
- the rows are the cells of the log, and `UnknownScanned`: the first event of an
  unknown code is a scan.

The two chains are one predicate, `Linked`, over two sets of events. Writing an
event extends both; an undo extends the first and shortens the second, where the
undone event is the last link and its `before` is the `after` of the one below.
`QuantityFollowsLog`, `AuditChainHolds`, `EventsAppliedOnce`,
`ExtrasMirrorTotals` and `RowsFollowLog` are its consequences; because the same
is known of what the open batch would roll back to, they hold through every
failure of a batch.

`KeepsLedger` is the refinement. A recorded event has the highest position of its
cell, so that it comes last in rank and the pile grows at its end; an undo takes
away the highest position in force, so that the pile loses its end
(`PickedAppend`, `PickedFront` of `Ranks_proofs`). That there is exactly one
position of every rank is an induction on natural numbers. The library states
induction with an operator as a parameter; `InductionOnNat` states it with a set
instead, from the least element of every set of naturals. `LedgerInv` adds two
facts to `HistoryInv`: a batch is open on an open session only, and what it has
written extends the piles it would go back to (`BatchGrows`), so that its commit,
or the expiry that commits half of it, is one step of the ledger.

**CampaignLifecycle.** `LifecycleInv` is the type invariant, `RowsInv` and
`StatusInv`. Beyond the properties it needs `RecountOfResponsible`: while a
recount is open the active assignment is of its assignee and an open session is
its result. Without it a first-count session could be submitted under an open
recount and leave it behind. `StatusInv` ties the status to the rows. The proof
that a step keeps `RowsInv` has a lemma per command; those that hand the
campaign to somebody else share `HandOver`. `OneResponsible`,
`SessionOfResponsible`, `RecountHoldsCampaign`, `RecountMovesWithSession` and
`ReviewKeepsSubmission` follow; `HistoryStaysFinal` is an action property, that
finished rows are never written again, from the same invariant.

**Reconciliation.** `ReviewInv` is the type invariant, the four invariants of
the run and three facts they rest on. `RecountHolds`: a recount is open only in
`RECOUNT` or `EXPIRED`, so that a review never has one. `RowsInUniverse`: every
row's product is in the universe, which only grows, so a refresh reaches every
row and forgets no approval. `BeforeValuation`: without a valuation there are no
amounts and no documents, so the first calculation makes all of them true. A
lemma per conjunct shows that every step keeps it, with one step per command.
`KeepsSettlement` is the refinement: initial states map to `SettlementInit`, and
each command to `Publish` (`Approve`), `Settle` (`Calculate`), `Conclude`
(`Close`), `Withdraw` (`Expire`, and `Reopen` of a closed campaign) or a
stutter. That a second calculation is a stutter is where the invariant is
needed: amounts are written again only over an intact valuation, and then they
are the same.

**DocumentEngine.** `DocumentInv` is the type invariant and four groups.
`LockInv`: who holds a lock is at a step that holds it. This gives
`CirclesAreOfTwo`: in a circle of waits of any number of requests there are two
generations of one campaign that wait for each other, one of which holds the
settings row and had committed its lock of the campaign away. So the model's
`Victim`, which looks at pairs, sees every deadlock, and a lost lock is the only
cause of one. `RowInv`: numbers in `rows` are unique, and a request
about to commit (`Prepared`) still has an insertable number and has seen every
official document of its campaign and type, since it holds the locks that keep
others out; from this follow `OneIsOfficial` and `ClosedStaysDocumented`.
`FileInv` connects requests, rows and files: whoever has a number is in `handed`,
whoever has rendered under a number handed once finds its file, and a cleanup
never reaches such a file while a row refers to it. `LogoInv` is the same for the
logo. `FileOfSoleHolder`, `LogoOfSoleUpload`, `ClosedStaysFrozen` and the
refinement `RegisterImplemented` follow; in the latter `Commit` is `Publish`,
`RecordFailure` is `Spoil`, `Close` and `Reapprove` are `Conclude` and `Reopen`, and
everything else is a stutter.

**ImportFiles.** What the parsers make of a file of *any* length, by induction
over its rows with `InductionOnNat`. `RowsAreKept`: each row of a product, each
movement below a product and each contact is kept once, in the order of the rows.
`MovementsHaveParents`: a movement is kept where a product is named above it, and
is the last such product's.

**Imports.** `ImportInv` has the shape of the requests and of the database,
`Begun` (where a request is says what its batch is, and who lost a race lost it
to another batch of the file), `SessionKeeps` (of the products a session has
read, none has lost a price, and all are there still) and `WholeOrNothing`.
`OneImport` follows from `Begun` with the unique index; `BatchesAreWhole` is
`WholeOrNothing`: a batch has what the parser made of its file or nothing;
`PricesAreKept` is the action property, from `SessionKeeps` at a commit without
conflict, where a product that is there must have been read.

`AllOrNothingHolds` says the same against the file itself: stock and movements
are as many, by product and quantity, as the rows that `AllOrNothing` counts in
the file. It joins `WholeOrNothing` with `RowsAreKept` and
`MovementsHaveParents`. `TableInv` is the invariant of the tables: the types of
rows, links and sessions, contacts that stay once they are there, `AllUpserted`
(a request has every product above its place in its session), `StockKnown`
(products in stock are there, since they were committed with it) and
`FrozenOfOneFile`. The pass of `upsert_batch` over a file's contacts is again an
induction, over the contacts read. `Typed` and `FrozenSnapshots` follow; the
latter needs that a request keeps its file (`FilesStay`), and a batch its stock
even when its status becomes FAILED after a commit that was not answered.

`ProcessingIsAtWork` and `StepsRunOut` are the part of `ImportsEnd` that is
safety. The first: a batch in PROCESSING has a request at work on it, or one that
died. The second: `StepsLeft`, the steps a request has left, is a natural number
that every step of its own lowers and that nothing raises once it has begun. That
these steps are taken, and the batch so leaves PROCESSING, is what fairness adds.

**Access and DamageEvidence.** `AnAdminRemains` rests on three facts: a request
past the lock holds it (`LockHeld`); one that has counted leaves an active
administrator other than its own user until it writes, since nobody else removes
one meanwhile and all the rest only adds (`AnotherRemains`); and before the first
administrator nobody has a role, so that no removal has begun (`NobodyYet`).
`EvidenceIsKept` needs that whoever holds a name has written it (`HoldersWrote`),
that a name in a row was written by somebody (`NamedWasWritten`), and that where
one upload alone has written, its file is there unless it has removed it with the
row not naming it, and it never removes it while the row does (`SoleWriter`).

**What the violation runs show is all there is.** A counterexample shows one way
to violate a property; that there is no other is a theorem. For each of the five
refuted properties, a specification of the same system without one kind of step
satisfies it, for every value of the constants:

| Theorem | Without | Holds |
|---|---|---|
| `ExpiryOutsideSuffices` | an expiry that commits on a batch's transaction | `BatchIsAtomic` |
| `CheckedExpirySuffices` | a reader's expiry over a status other than it has read | `CancelledIsFinal` |
| `StartedReopenSuffices` | reopening a campaign without snapshot | `CountingNeedsSnapshot` |
| `EarlyResolutionSuffices` | resolving a code while the campaign is under review or approved | `ApprovedIsEffective` |
| `KeptApprovalSuffices` | leaving `APPROVED` or `CLOSED`, by a late `GET` or by reopening | `ClosedIsValued` |

So it is enough to mend these steps of the code. `ExpiryOutsideSuffices` follows
from what the steps that end a batch do and `CheckedExpirySuffices` from the
statuses the commands take; the others need an invariant of their own: `CountingIsFrozen` (what
counts or has counted has a snapshot), `SelectionIsCurrent` (what is selected is
what its session counts by now, and what was counted has a row) and `ValuedOnce`
(no valuation outside an approval, and none that changes).

**Only model-checked.** `ImportsEnd` and `RequestsEnd` are liveness under
fairness: TLC's alone, since ENABLED is out of the provers' reach; `StepsRunOut`
and `CirclesAreOfTwo` are as far as they go.
The violation runs are counterexamples. Every other property of a passing run is
a theorem.

## 5. Not modelled

- *Rendering* of documents, *HTTP payloads* and the *read endpoints*: they
  transform data without keeping state.
- *Authentication*: verifying a signed token and calling the identity provider
  keep no state here; a user's request stands for one with a valid token.
- *First creation of the settings row*: two first requests can create two rows,
  and a first call inside a command commits that command. It happens once in the
  life of an installation; what a commit in mid-command does is modelled for the
  export profile, which is created in the same way.
- *Declarations* (`app/models`, `app/db`, `app/core`): locks, unique indexes and
  rollback are taken from them as guards and atomicity of the actions.
- *Valuation arithmetic* (rounding, mixed currencies), the client's expected
  versions and audit entries: no property here depends on them.

What could come next is the first creation of the settings row.
