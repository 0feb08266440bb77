# Verification of the network maintenance dashboard

TLA+ models of the service in `src/app`, checked with TLC and, for the parts named
below, proved with TLAPS for every value of the constants. The service watches the
switches and the clients of a network while equipment is replaced (a *maintenance*): an
endless loop collects what switches report, derives a history of every client from it,
and opens, resolves and reopens one *case* per client that people work on.

    tlc -workers 2 -config CasesRace.cfg MCCases     # one run
    tlapm CaseLifecycleProofs.tla                    # one proof module

`PROJECT.json` lists runs, mutants, the source lines behind every definition, findings,
hazards and theorems.

## The system

| Component (src/app) | State | Operations | Must hold |
|---|---|---|---|
| Cases: `services/case_service.py`, `api/endpoints/cases.py`, the pass in `services/scheduler.py` | `cases`, `case_notes` | sync_cases, update_ping_status, auto_reopen, auto_resolve, update_change_flags, update_case; the case page | each listed client has one case; what people do to it is not undone; it ends up agreeing with the ping; pages, export and counters agree |
| Client list: `api/endpoints/mac_list.py` | `maintenance_mac_list` | add, edit, remove, batch delete, clear, imports, pages, export | what belongs to a client goes with it and with no other; pages, file and figures agree |
| Client records: `services/client_collection_service.py` | `client_records`, `latest_client_records` | collect_client_data: place, load, save changes, clean up; detect_clients | the history reads back what was seen; a client is recorded at its port |
| Change detection: `services/case_service.py` | `change_flags` | compute_change_tags, timelines, details | tags say what was observed |
| Comparison: `services/client_comparison_service.py`, `api/endpoints/comparisons.py` | `client_comparisons` | checkpoint diffs, summaries, cards, regeneration | each MAC is compared once, each page shows the same numbers |
| SNMP rounds: `snmp/collection_coordinator.py`, `snmp/session_cache.py` | semaphore, community and negative caches, probe locks | run_round, get_target, save | a round ends; no needless probes |
| API collection: `services/data_collection.py` | slots, sessions, errors | collect with its attempts | an empty result has an error that explains it |
| Typed batches: `repositories/typed_records.py`, `services/retention.py` | `collection_batches`, `latest_collection_batches` | save_batch in both forms, cleanups | readers see the newest reports |
| Collection loop: `services/scheduler.py` | one asyncio task, stop event | rounds, idle waits, crash restart, stop | exactly one loop; it goes on |
| Device list and pings: `api/endpoints/maintenance_devices.py`, `services/scheduler.py` | `maintenance_device_list` | create, edit, import, delete; device ping job; statistics | an address is one device; every page says the same of it |
| Maintenance timer: `services/maintenance_time.py`, `api/endpoints/maintenance.py` | is_active, accumulated seconds, last activation | toggle, reset, auto-stop | active time is counted once |
| Deletion of a maintenance: `api/endpoints/maintenance.py` | all tables | delete_maintenance | nothing of it is left |
| Thresholds: `services/threshold_service.py` | module dictionary beside a row | load, update, reset | cache and row agree |
| Indicators, dashboard: `indicators/`, `services/indicator_service.py`, `api/endpoints/dashboard.py` | ignored indicators | evaluate, summary, details, toggle | verdicts follow from what was collected |
| Expectations: `api/endpoints/expectations.py` | uplinks, versions, port channels | create, edit, import, delete; how they are judged | an interface is used once; judged as asked |
| Client categories, contacts: `api/endpoints/categories.py`, `contacts.py` | categories, members; headings, contacts | create, edit, delete, import | members once; lines land where they say |
| Users: `services/auth_service.py`, `api/endpoints/users.py`, `auth.py` | `users`, tokens | create, edit, delete, register, start of the application | one PM per maintenance; the application starts |
| Parsers, fetchers, SNMP engine, uploads, reports, log, frontend, mock server, scripts, migrations | none that matters here | text, I/O, views | not modelled |

**How they interact.** One process runs one asyncio event loop. The collection loop runs
SNMP rounds, then API collections, then the client pass, maintenance after maintenance;
ping jobs and retention run on timers beside it; endpoints run whenever users call. They
share nothing but the database (MariaDB, REPEATABLE READ: a transaction reads a snapshot,
an UPDATE or DELETE sees the current rows), for SNMP the class-level caches and for the
thresholds a module dictionary. A session commits when the code says so or at its end, and
rolls back on an exception. Almost nothing is read with a lock, so what a call decided on
may be gone when it writes.

**What is hard.** Interleavings of the pass, jobs, users and list edits; transactions
repeated after a deadlock; rounds cut off in between; hashes, caches and answers that speak
for data that may be gone; slots and locks held by hanging devices; pages that are queries
of their own; names that are normalised here and raw there. PROJECT.json "hazards" lists
each at its line with the properties that cover it.

## Modules

| Module | Models | EXTENDS |
|---|---|---|
| `CaseLifecycle` | the life of each case under the pass, the sync endpoint, users and list edits; implements `CaseDesk` | |
| `CaseAges` | the cases with the age of `ping_reachable_since` | `CaseLifecycle` |
| `CaseBoard` | the case page: filters, order, pages, counters, export; notes | |
| `ChangeFlags` | tags, timelines and snapshot of a case, from change points only | |
| `ClientRecords` | the history of each client, its cleanup and its readers; implements `ClientHistory` | |
| `Locations` | the five rules that place a client, and detection | |
| `Comparisons` | checkpoints, diffs, summaries, cards; stored comparisons | |
| `ClientPages` | pages, filters, export and figures of the client list | |
| `ClientCategories` | client categories and their members | |
| `SnmpRound` | coroutines of a round, semaphore, probe locks, caches, saves | |
| `ApiRound` | attempts, tasks, slots and sessions of the API collection | |
| `ClientHistory` | abstract: one answer per client and time | |
| `CurrentView` | abstract: one current result per key | |
| `CaseDesk` | abstract: a case waits, is worked on or is closed, and who may move it | |
| `TypedBatches` | batches, pointers, hashes, savers, retention; implements `CurrentView` | |
| `CollectionLoop` | the loop, its phases and crashes, the client ping job, savers | `TypedBatches` |
| `MaintenanceTimer` | toggle, reset and auto-stop as read, compute, write | |
| `MaintenanceRemoval` | the deletion, statement by statement, beside writers | |
| `ThresholdCache` | dictionary and row | |
| `DeviceList` | rows, their validation, imports, crossing writes | |
| `DevicePings` | the device ping job and who reads its answers | |
| `Indicators` | verdicts, dashboard, ignored indicators | |
| `Expectations` | expected uplinks | |
| `Plans` | expected versions and port channels; how all three are judged | `Expectations` |
| `Contacts` | the address book and its import | |
| `Accounts` | users, roles, tokens, the start of the application | |
| `Sorting` | a set put in order: ORDER BY, sorted lists; used by `CaseBoard` and `Comparisons` | |
| `CaseLifecycleProofs`, `ClientRecordsProofs`, `SnmpRoundProofs`, `MaintenanceTimerProofs` | theorems | the module they are about |
| `TypedBatchesProofs` | theorems about batches, alone and under the loop | `CollectionLoop` |
| `SettingsProofs` | theorems about what users edit | `ThresholdCache`, `Accounts`, `DeviceList`, `Plans` (with `Expectations`), `ClientCategories`, `Contacts` |
| `CollectionProofs` | theorems about what is collected, shown by indicators, deleted | `ApiRound`, `Indicators`, `MaintenanceRemoval` |
| `PagesProofs` | theorems about what users are shown | `Locations`, `DevicePings`, `ClientPages`, `Comparisons`, `ChangeFlags`, `CaseBoard` |
| `MCCases`, `MCCasesLive`, `MCCaseAges`, `MCRecords`, `MCSnmp`, `MCService`, `MCIndicators` | constants of the runs | the module they instantiate |
| `MCTables` | composes the modules of `tables`, and their constants | eighteen modules |

A definition whose comment begins with "Mutant" is a plausible bug of the definition that
follows it. It is used nowhere; PROJECT.json pairs it with the property that it breaks.

### CaseLifecycle

A client is `new`, `listed` or `gone` (ids are never reused); a case is its status, owner,
last ping and whether `ping_reachable_since` is set. The pass is a program counter:
`syncRead`, `syncWrite`, `ping`, `reopen`, `resolve`, `flags`, one committed transaction
or one deciding read each. A deadlock sends it back to the start with the attempt counted;
the last one, or any other failure, ends it, and the round carries on. `update_case` is a
read that checks permissions, and a later commit of the columns it changed: SQLAlchemy
writes only those, so the model keeps the others (`Keep`). A call whose row was deleted
meanwhile fails, also when the client has a new case by then: that one has another id. The conditional bulk updates
test the rows as they are at the write, and so do the actions.

Where the pass's `sync_cases` creates nothing, it does not commit, and the pings are then
read from the snapshot it began with. A case this misses is pinged by the next pass; the
model reads current rows. Edits of a client's MAC are left out (`MacOf` is a constant).
`touched` (history) marks what others commit where the pass has no step left to see it: a
case made after the pings, closed after the statement that reopens, left waiting after the
one that resolves. Any other commit the pass still puts right. `CaseAges` adds the age of
`ping_reachable_since`, which decides nothing in the code.

`CaseDesk` is what those who work on cases may rely on. It has three states instead of six
(`Kind`), no pass, no transactions and no retries: cases appear once, with their default
owner; pings are heard; two sweeps close what waits and answers, and reopen what is closed
and does not; cases vanish with the calls about them; everything else is a call that was
allowed (`Allowed`) by the row it read and is written over the row of now. `ShowsDesk` maps
a loaded call to an open one, and one whose row is gone (`lost`) to none.

### ClientRecords

The collected state of a client is one value and the hash is that value; `rows` holds its
records, `latest` its pointer, `observed` (history) what each committed collection saw. A
collection loads (`Load`), saves what changed in one transaction (`Save`) and cleans up in
another (`Cleanup`); it may fail at either point, and list edits come in between. `AsOf`
is the checkpoint lookup of the comparison service. Time is the start time of rounds.
`ClientHistory` is what those who ask for a client at a time may rely on: one state or
none, told by rounds from the time they began at, never changed for earlier times, and
forgotten oldest first. `ShowsHistory` maps what is told to what `AsOf` answers.

### SnmpRound

Each target has a program counter, `ready`, `slot` (queued at the semaphore), `target`,
`lock`, `probe`, `collect`, `save`, `done`, and a step is what the coroutine does between
two awaits. The semaphore and the probe locks are held exactly in certain steps, so they
are read off the counters. The caches live in the class and survive rounds and a cancelled
loop; only a new process starts without them. What devices answer is free. What is stored
is the target it came from, which tells whose data a host has; `save_batch`'s hash and
batches are in `TypedBatches`. The loop runs one maintenance at a time,
and so does the model. `RoundStarts` splits the targets by the first cache (known devices
make the first phase); the caches change while the phases run.


### ChangeFlags and CaseBoard

`points` are the records that are kept and `observedSoFar` (history) all rounds; a round
records only what differs from the one before. `HasChange` is `_detect_change`, `CameBack`
`_get_transition_ts`. In `CaseBoard` the columns of a case just change; a list is a
filter, an order whose last ties the database breaks as it likes each time (`AsItLikes`),
and pages read by separate requests.

### TypedBatches, CurrentView, CollectionLoop

A saver is one `save_batch`: `SaverReads` the pointer, `SaverCommits`, or `SaverFails`. Two
forms: one appends a batch and moves the pointer, the ping job's rewrites its batch in
place and keeps rows the new result does not name. `CurrentView` is what readers may rely
on: one current result per key, replaced or merged by reports, forgotten by deletions;
`ShowsCurrentView` maps `shown` to the rows behind each pointer. `CollectionLoop` adds the
task as a program counter, its phases with the maintenances they still have to visit, the
client ping job, and which savers work for a visit. The savers of one API collection are
one gather (`SaverCall`): when a task raises (`Raises`), the rest are `left`, that is,
nobody waits for them and no cancellation reaches them, while the visit goes on or, after a
deadlock, the collection begins again beside them. Who is left is not started a second time
meanwhile; two tasks for one key are two savers.

### MaintenanceTimer and MaintenanceRemoval

A call (toggle, reset, or a job's auto-stop) reads the row, computes, and commits the
columns it changed, taking up to `MaxCall` ticks; `Second` ticks are a second, which the
column rounds down to. `count` (history) is the time the maintenance was really active, and
the slack that rounding and calls may add. In `MaintenanceRemoval` the deletion is a counter
over `Sweeps`, eleven statements; a statement sees what has committed, but for the ids that
the first queries read, and holds off later writers of its table (`Swept`). Foreign keys
refuse a statement (`RefusedBy`), which rolls back all of it.

### SNMP's neighbours: ApiRound, DevicePings, Locations

An attempt of `ApiRound` is a task per target; after a gather that raised, the tasks of the
old attempt go on with a closed client beside the new one's. `DevicePings` reads the list,
waits for each tenant's service and commits records, by hostname, and columns, by row, while
rows change. `Locations` applies the five rules to every set of candidates, in any order.

### What users edit: DeviceList, Expectations, Plans, ClientCategories, ClientPages, Contacts, Accounts, ThresholdCache, Indicators, Comparisons

Each is a table, or two, with one action per request; where a request checks, awaits and
commits, and another may come between, it is two actions, and the bound says how many may
be in flight: so are an import of members, which asks line by line and commits at its end,
and the request for one member. `Plans` judges versions, port channels and the uplinks of
`Expectations`; `asked` (history) is what the latest request for a row said. `Indicators`
has the verdicts as operators over what is stored, and the summary as the code computes it;
`trail` (history) is the last two different counters fetched from a device, kept while it is
relisted and while fetches fail. `Comparisons` has three ways to a number: the page of one
checkpoint, the bisection of the summaries, the cards. `ClientPages` reads pages as sets of
places a row may take, since ties come in any order. An `excused`, `loose`, `crossed`,
`twice`, `clean`, `stale` or `late` variable is history that names the exception of a
property: what the code leaves unguarded, and says so nowhere.

## Runs

| Run | Question | Bounds, and why they are enough |
|---|---|---|
| `cases_race` | What do concurrent users, the sync endpoint and repeated passes leave behind? | one client: cases of different clients meet only in list edits (`cases_live`); two calls in flight let one overtake another; two attempts give a retry and a give-up; three statuses reach every branch of `NewStatus` |
| `cases_live` | Does a case end up agreeing with the ping? What do clients of one MAC, list edits and two syncs do to one another? | two instances, one chosen at the start: one client, one call at a time, every status; two clients without calls, every pair of a removal and a sync |
| `snmp_round` | Probes, caches and termination over any number of rounds | three targets, two of one address, two of one hostname, two slots: waiting for a slot, for a lock, and a save that races another for the host |
| `service` | Does the loop go on, stop for good, leave paused maintenances alone, and bring lost data back, whatever its collections leave behind? | one maintenance, one API collection of two tasks that save under one host, the fewest of which one can raise and one be left; one attempt again (the code has two: the second adds nothing that the first does not leave); one crash: a second one finds the same state. The ping job runs beside it; its form of `save_batch` is in `tables` |
| `tables` | Do the tables keep what requests, jobs and readers rely on? | see below |
| `cases_mac`, `cases_flap`, `records_aged`, `snmp_same_host`, `timer_reset`, `dashboard_errors`, `accounts_start` | claims of comments and docs that the code does not keep | the smallest instance that shows each |

**The run `tables`** is a sum: the variables of its modules are disjoint, a behaviour of
all of them at once projects to one of each, and every property speaks of one module, so
`part` chooses one module at the start and the others stay as they are. `CheckpointsOnly`
and `StoredOnly` split `Comparisons`, `CollectionNext` and `IgnoreNext` split `Indicators`,
along variables that no property relates. Operators named `...Small` bound a part further:

| Part | Instance | Bound, and why it is enough |
|---|---|---|
| records | two clients of one MAC, two states, retention 2, clock 4 | records age, are deleted and written again |
| timer | two callers, one job, clock 3, two ticks a second | two calls in flight (`TimerSmall`): a commit overtakes one read |
| batches | one maintenance, two kinds, two items, two savers | both forms; savers at one key with different results (`BatchesSmall`), since others meet in nothing but ids |
| thresholds | two requests | every pair of a load, an update and a reset, with failing commits |
| api | two targets, one silent, one slot, three attempts | a broken gather beside two later attempts; `ApiSmall`: a third one when the first is through |
| devices | two rows, one address, two hostnames | one write crossing another (`DevicesSmall`) |
| links, plans | two rows, two spellings of an interface | both ends, swaps of rows, two lines in a file |
| categories | two categories, one MAC, two editors | a member added twice |
| collection, ignore | one device, three batches | growth, gaps and equal fetches; two toggles |
| accounts | three users, one maintenance | a PM, a root and a third one; one request overtaken |
| comparisons, checkpoints | two MACs, one of a category, two regenerations, ticks to 3 | records before, at and after a checkpoint |
| locations | three candidates of different rank | ties of two and of three |
| flags | two attributes, two values, three observations | a value, away, back again, with the other attribute changing between |
| board | three cases, two of one MAC | ties and page boundaries of every page size |
| contacts | four headings, two names, files of two lines | two of one name below different parents |
| pings | two rows, three kinds of them, one of two tenants served | a hostname on both sides, an address on two rows |
| pages | three clients, two of one MAC, two of one address, two categories | pages of one client, the smallest that can lose one |
| removal | three headings, two categories | nesting by one and by two, a reference client made anew |

Requests, savers and clients of one MAC share the values `s1` and `s2`, which nothing tells
apart (no CHOOSE ranges over them, no property names one): `SameSlots` is sound, and so is
the one of `cases_race`. Runs with liveness have no symmetry.

Bounds by name: `Requests`, `Callers`, `Savers`, `Viewers`, `Editors`, `Regenerators`
(slots in flight), `AskedStatus`, `MaxTries` and `MaxAttempts` (the code's own), `MaxNow`,
`MaxRound`, `MaxTime`, `MaxCall`, `MaxTick`, `MaxClock` (clocks), `MaxBatch`, `MaxRows`,
`MaxLinks`, `MaxPlans`, `MaxRowsMade`, `MaxLines`, `MaxStored`, `MaxUsers`, `MaxListed`,
`MaxContacts`, `MaxCategoryIds` (rows), `MaxCrashes`, `MaxSaves`, `MaxNotes`, `MaxCount`.
Runs whose clocks or ids end switch the deadlock check off; `cases_*` and `snmp_round` have
it on.

What the passing runs show:

- **Cases.** `PassSettles`: once a pass is through, whoever else wrote meanwhile, each case
  carries the newest ping unless the endpoint made it after the pings, is resolved while
  unreachable only if a user closed it after the statement that reopens, and waits while
  reachable only if a user left it so after the statement that resolves. So a reachable
  case is closed by the same pass, as `auto_resolve_reachable` says of itself and
  `models.py` does not (finding 2). `WorkUndisturbed`: only a user's call takes a case out of work or changes its
  owner. `ShowsDesk`: all of it together is what `CaseDesk` allows; thus a second sync never
  replaces the first one's case, and no sweep touches what is worked on.
  `WorkHasOwner` holds with one call at a time. `NoOrphanCase`, `ListedClientGetsCase`,
  `UnreachableStaysOpen`, `ReachableIsTaken`.
- **What a case shows.** `ChangesAsObserved`: tags and timelines from change points say what
  all observations say. `BoardAgrees`: export, counters and totals agree with the list, and
  turning pages shows each case of a MAC of its own once.
- **Clients.** `ShowsHistory`: storing changes alone tells the same as telling every round;
  `RecentPointerHasRow`; `PlaceIsBest`: the loops over the
  rules leave the port that a ranking would; `PagesAgree`: pages, file and figures agree
  while every member of a category has its client. `MembersOnce`.
- **Comparison.** `ListShown`: after the last regeneration each listed MAC is in one row.
  `SummariesAgree`: three ways to compute a checkpoint's numbers give the same.
- **Collection.** `ProbeOnlyUnknown`; `KnownFirst`: no known device is collected beside a
  probe or behind one; `RoundTerminates`, `AddressRetried`;
  `EmptyIsExplained`; `LoopGoesOn`, `StopIsFinal`, `QuietsDown`, `DataRecovers`;
  `CurrentHasBatch` and `ShowsCurrentView`; `PingsShown`.
- **Maintenances.** `ActiveTimeCounted`: unless a call wrote over another's commit, the
  timer is off by less than a second per pause, resume and reset.
  `DeletedIsGone`: a deletion nobody writes beside leaves thresholds and contacts without a
  heading at most, and no foreign key refuses it unless subheadings have subheadings.
- **Users' tables.** `DevicesDistinct`, `EndsUsedOnce`, `JudgedAsAsked`, `LinesLand`,
  `OnePM`, `CleanCacheInForce`, `IgnoreIsPerIndicator`, each with the crossing that it
  excuses. `JudgedAsAsked` is two bounds, since the docstrings and the code part between
  them (*Expectations* below): what fits a request exactly passes, and what passes has at least
  what was asked for.
- **Indicators.** `GrowthShown`: a device fails for growing errors exactly when the last two
  different counters fetched from it grew, over equal and failed fetches, cleanups and
  relisting, but for what it names: an empty batch between the two, or an equal fetch after
  a relisting or an empty batch, hides growth until the counter changes again
  (*Indicators* below).

## Fairness

`CaseLifecycle!Fairness`: a collection that completes and each step of the pass are
strongly fair, since the loop tries them again every few seconds, and a step that a
deadlock rolls back or a failed round skips is enabled again and again; the end of a pass
that lost a race of inserts is weakly fair. Neither users nor the sync endpoint are fair:
a call may stay in flight for ever.

`SnmpRound!Fairness` is weak throughout: a ready coroutine runs (asyncio's queue is FIFO),
the hard timeout fires, a transaction ends, a cache entry expires. Nothing is assumed of
the devices, nor that rounds begin. A coroutine takes a slot once per round and its timeout
gives it back, so weak fairness is enough for the semaphore, and a lock is given back by
the timeout of whoever holds it.

`CollectionLoop!ServiceFairness` is weak for the start, for the delayed restart and for the
task's own steps, which asyncio runs when they are ready; every wait in the loop has a
timeout. It is strong where the code tries again every few seconds: a round sometimes gets
its list, a saver sometimes finds its device answering and its transaction committed. Stop,
crashes, users and retention are not fair.

The other modules state no fairness: their properties are safety.

## Proofs

No assumption but those the modules state about their constants; TLC evaluates them on
every run. Each invariant below was checked with TLC before it was proved. "Number" bounds
such as `MaxRows` are arbitrary in the proofs.

- **CaseLifecycleProofs.** `TypeCorrect`; `PassInvariant` shows `PassInv` inductive, that
  is, what each finished step of the pass leaves true of the cases stays true, but for
  what the pass cannot see any more. `PassSettles` alone is not inductive: it says nothing
  until the pass is over.
  `NoOrphanCaseAlways` needs only that an insert takes cases of listed clients.
  `WorkUndisturbed` and `CaseNeverRecreated` (a sync never replaces a case that is there)
  are action properties, proved from the types by what each kind of step may do to a row.
  `ImplementsDesk` is the refinement, for any clients, users and calls in flight. It needs
  no more than types: each transaction maps to one step of the desk, a sync to `Opens` the
  clients it inserts for, a bulk update to a sweep over the rows of the moment, and what
  only the pass or a failed call sees to a stutter. A call keeps, from its read on, what it
  will write, so it was allowed when it was asked, whatever its case has become. `WorkAlwaysHasOwner` needs of each call in
  flight that the owner it saw is still the case's: with one call at a time only that call
  changes owners, and the pass takes none away.
- **ClientRecordsProofs.** `HistoryInv` is the invariant. `ReadBackTrue` is about records
  alone and says nothing of what a collection is about to compare with; the invariant adds
  that the pointer speaks for everything seen since, and that it is among the records
  while there are any, because the cleanup deletes the oldest first. `ImplementsHistory` is
  the refinement: a save maps to a report, since a record that is not written would repeat
  the newest one; a cleanup or a removal maps to forgetting, since the records that are left
  are the newest of those there were.
- **SnmpRoundProofs.** `ProbeInv`, a part of `RoundInv`: one probe per address, only of an
  address in neither cache, and the caches are disjoint. Disjointness alone is not inductive: an answer may
  come while the address has been written off, unless a probe excludes that. `DataIsKept`
  follows from the one step that writes data. `KnownFirst` says nothing of a coroutine that
  has not come to the caches yet; `RoundInv` says that who runs beside a first phase is
  known, which stays so as only a restart forgets a community and it ends the round. It also
  has that who is collected, or saves data, is known (`DataFromKnown`), and that the slots
  taken are never more than there are (`SlotsKept`, by counting `Busy` before and after a
  step). `StepsRunOut` is the safety half of `RoundTerminates`: a number that each step of a
  coroutine lowers, whatever devices, locks and saves do; `NeverStuck` adds that while a
  round is not over somebody is at a step that waits for nobody, or at a free slot.
- **TypedBatchesProofs.** `BatchInv` adds `SaversAgree` to types and `CurrentHasBatch`: of
  savers that rewrite in place there is one per kind, so what one read of its pointer still
  holds at its commit. Without it a second one could rewrite a batch under a hash it does
  not know. `ImplementsCurrentView` is the refinement: the initial state maps to nothing
  shown; a commit maps to a report, a cleanup or deletion to forgetting, all else, the
  deletion of old batches included, to a stutter, because the pointer's batch is spared.
  `DataKept` says in which ways alone current data of an active maintenance goes.
  Under `CollectionLoop` the savers are not on their own, and its crashes and cancellations
  end several in one step, which is no step of `BatchSpec`: `ServiceInv` adds which saver
  works for which visit, and that whoever works for none was left behind by a gather
  (`SavesForVisit`, theorem `VisitsInOrder`); each step is then one of `BatchNext` or such
  an end, and `ServiceBatches`, `ServiceShowsCurrentView` follow. `StopStays`: a stopped
  loop does not come back, and once it has ended no collector begins anything; those left
  behind finish, each for the maintenance it was begun for. That they do finish is
  `StopIsFinal`, which needs fairness.
- **MaintenanceTimerProofs.** `TimerInv`: start times are not in the future, a call nobody
  overtook still has the row before it. From it `ActiveHasStart`. `TimeInv` adds arithmetic: what the row shows is within `count.slack` of the
  real time, and within the slack less the age of any call in flight that nobody overtook,
  since its ticks are booked while it runs. `ActiveTimeAlwaysCounted` follows.
- **SettingsProofs.** These tables are checked by one statement and written by another, so
  the property alone is never inductive: the invariant says what a call between the two
  still knows unless another committed since, and then history marks the call.
  - `ThresholdInv`: while `clean`, at most one call is in flight, what it saw is what is
    stored, and the cache is that or not loaded. Thence `CleanCacheInForce`.
  - `AccountsInv`: the PM's place that an update asks for is free, or its target's own,
    until somebody else commits. `OnePM`, for any number of users and maintenances.
  - `DevicesInv`: a write that no other crossed is still valid against the rows of now, and
    the row it edits is still the one it read. `DevicesDistinct`.
  - `LinksInv`: a checked row is stored with the names the checks compared; otherwise two
    spellings of an interface would pass. `EndsUsedOnce`.
  - `PlansInv`: what is stored is what was asked, normalised, and keys are unique, so that
    judging by stored names is judging by asked ones. From it both bounds of
    `JudgedAsAsked`. It assumes that a
    device reports a port channel once and in one spelling (`PlanAssumption`): the code
    builds a dictionary by normalised name, and of two reports of one name would use the
    last.
  - `CategoriesInv`: a request nobody overtook still finds its category made and its MAC
    absent, be it of one member or of a file. `MembersOnce`.
  - `ContactsInv`: ids are used ones, in the book and in what an import read of it.
    `NoneDangling`: a contact is in a category that there is, and so is a category below
    another, since a deletion empties what refers to it and an import checks at its commit.
    `LinesLand` is an action property of one step that sorts a whole file; its lemma
    `OutcomeKnows` says what is known after each line, by a least line at which it is not.
- **CollectionProofs.** `ApiInv`: attempts before the last are over, an answering host
  fails only under a closed client, an empty batch stems from a failed task and is exactly
  where an error is stored. `EmptyIsExplained`. `IgnoreInv`: a toggle nobody crossed still
  has the list before it. `GrowthInv`: what is left of the batches of a device ends with
  the counters its history names, so `GrowthShown` may compare two of them; a device that
  is no longer pointed to keeps its batches, and its next fetch repeats the last one or
  adds to it. `RemovalInv`: tables the
  sweep has been through stay empty as long as nobody writes beside it, and what its first
  queries saw is what there is. `DeletedIsGone`.
- **PagesProofs.** Most of these properties are about answers computed from one state;
  their proofs are about operators, and the invariants are types and keys.
  - `PlaceIsBest`: each of the five loops leaves the candidates that none beats by that
    rule and all before it, for any rows in any order.
  - `PingsInv`: what the job would mark and record agree, `settled` rows are as it read
    them, and no other row has their hostname. `PingsShown`.
  - `PagesInv`: members are clients of the list or none, each once per category. The pages
    of a list are the places its rows may take, any order among ties; from this
    `PagesAgree`.
  - `ComparisonsInv`: a regeneration nobody overtook stores what it read; what is stored
    is one row per listed MAC. `ListShown`. `SummariesAgree` also needs that the records of
    a MAC put in order have their places go up with time, so that the bisection of the
    summaries ends at the last one up to a checkpoint.
  - `FlagsInv`: records are observations in order, and each observation since the oldest
    record that is left is told by the record before it: as change points condense a
    history, any comparison over one has its answer over the other. `ChangesAsObserved`.
  - `BoardInv`: finitely many cases, with the columns of their table, and notes of them
    only. In `BoardAgrees` each
    page is read by a query of its own; the place of a case whose MAC is its own does not
    depend on how the database breaks ties, so it is on one page by division.

Recursive functions and orders are within reach where the induction can be had from a least
counterexample: `LeastNumber`, from the library's well-foundedness of numbers, gives the
first line of a file, the first round of a bisection or the greatest id for which a claim
fails. Sequences put in order are functions of the place of each element (`Sorting`), since
the provers do not expand the community modules' sorting.

What the assumptions ask, beside types: ids of cases are numbers and MACs have ranks
(`BoardAssumption`), tags are numbered by importance from 1, as the CASE of `order_by`
numbers them; there are finitely many MACs and hosts; values that stand for "none" differ
from all others.

`PassInv`, `CaseNeverRecreated`, `HistoryInv`, `ReadBackTrue` (which `ShowsHistory`
implies), `RoundInv` with its parts, `NeverStuck`, `StepsRunOut`, `ServiceInv`,
`SavesForVisit`, `ChangePoints`, `DataKept`, `RunningHasStart`, `CurrentDataKept`,
`NoneDangling`, `NotesHaveCase` and the types of all modules are proved and no longer run.
The types are conjuncts of the invariants above, or theorems of their own where a proof did
not need all of them (`PlacesInvariant`, `PingsTypesHold`, `BoardTyped`, `ContactsTyped`,
`IndicatorsTyped`; `RemovalTypes` splits those of a deletion into the parts its invariant
has). Each was checked with TLC first.

**Only model-checked:** everything under fairness, as the prover has no liveness;
`LoopGoesOn`, `StopIsFinal`, `QuietsDown`, `DataRecovers`, `RoundTerminates`,
`AddressRetried` and, of cases, `ListedClientGetsCase`, `UnreachableStaysOpen`,
`ReachableIsTaken` (of `StopIsFinal` the safety half is the theorem `StopStays`).
Every invariant and every other action property of a passing run is a theorem. What the
runs refute cannot be proved.

## Findings

Each is a run that violates one property, with the quoted claim in PROJECT.json.

1. `CaseGoesWithItsClient`: removing a client deletes the case, with all that was written
   on it, of another client with the same MAC.
2. `ResolvedWhenStable`: `models.py` and a test have a case resolved only after ten minutes
   of reachability; the code never reads the column they speak of, and resolves at once.
3. `PointerHasRow`: a client unchanged for seven days loses its last record, and its
   pointer keeps it from being written again.
4. `OwnDataKept`: an old and a new device of one hostname overwrite each other's data.
5. `StoppedOnlyOver`: a job that found a maintenance over the limit stops it, and writes the
   old total back, although its timer was reset meanwhile.
6. `ErrorsShown`: collection errors are stored under one name and looked up under another,
   so the dashboard and the details of an indicator never see them.
7. `AlwaysStarts`: with two root users, or none beside a taken name, the application fails
   to start.

Seen while modelling, with no run of their own:

- *Cases.* A resolved case without owner is reopened as ASSIGNED; a user's call may resolve
  a case that became unreachable after it was read. The order of the case page is not total
  when cases share a MAC. A comment has unreachable cases first, but those never pinged
  precede them. "只有原作者" of a note is whoever has the display name.
- *Tags.* After retention took the record of an absence, a comeback is not flagged.
- *Comparison.* A client lost on both sides counts as changed, against the docstring's
  "兩邊都未偵測"; one that comes back does not, unless its ping differs. Stored comparisons
  compare a snapshot with itself. The diff's total counts clients, its rows MACs. A filtered
  list shows members of categories as not detected which are only filtered out.
- *Client list.* One member of a category without a client empties the "uncategorized"
  filter (NOT IN with NULL). A client moved to another tenant whose address was pinged in
  both is listed and exported twice. A page shows pings by MAC, the last client's for all.
- *Locations.* A MAC on two VLANs of one port ties all five rules and is recorded nowhere.
- *Contacts.* Parents are not checked: cycles vanish from the tree. With two categories of a
  name, creating one of that name fails.
- *Expectations.* "成員介面是否完全匹配期望清單" (port_channel.py:40, whether the members match
  the list completely): `_missing_members` looks for absent ones only, and a port channel
  with more members passes. "正向 hostname 匹配 … hostname 一致即可" (uplink.py:70, a neighbour's
  hostname is enough): the code also asks for the expected pair of interfaces, and an uplink
  seen at another one fails. "正規化後比較" (uplink.py:123): only what devices report is
  normalised, while `create` of an uplink stores the name as written (expectations.py:228),
  so that one asked for in a short spelling fails even when it is reported in that spelling.
  Nor does an import find such a row: a re-imported export adds one.
- *Indicators.* "delta = 最新變化點 crc_errors - 上一個變化點 crc_errors" (error_count.py:9, growth
  since the change point before): the code takes the batch before the newest. Once a device
  was taken off the list and put on it again, an equal fetch is stored as a new batch, and
  growth that was shown is hidden by it.
- *Client categories.* "每個歲修最多只能創建 5 個種類。" (categories.py:356, at most five): the
  limit counts rows with is_active = True, which no new category has (the column is NULL),
  nor are names in use found; a maintenance gets any number, several of one name too.
- *Device pings.* A device deleted during the job undoes its maintenance's whole round; a
  hostname on both sides with two addresses keeps either answer.
- *Maintenances.* A deletion leaves thresholds, and contacts without a heading; it can be
  refused when headings nest three deep or when somebody adds members or contacts meanwhile.
  Saving the configuration of a deleted maintenance makes a row without a name. A reference
  client is made with is_active NULL: it is never listed, its request answers with an error
  after the commit, and one that was removed cannot be added again.

## Not modelled, and why

- Parsers, SNMP encoding and walks, fetchers: text and I/O without shared state. Their
  outcomes are choices of `SnmpRound` and `ApiRound`.
- Reports, uploads, the system log, templates, time series, raw data: they read, or write
  files, and nothing else depends on them. The searches of the lists filter by text.
- Passwords, display names, `is_active` of users: they decide who logs in only.
- The frontend polls and keeps no state the service depends on. Mock server, scripts and
  migrations are not the service.
- Crossing requests on expectations and two deletions of a maintenance at once: nothing in
  the repository says what should hold.

## Plan

Done: the modules above, their runs, eight proof modules. Left:

1. The client pass inside `CollectionLoop`, now a phase without content there; its steps are
   in `CaseLifecycle` and `ClientRecords`.
2. A bound on the steps of a round as one number, which takes a sum over all targets
   (`StepsRunOut` has it for each).
3. Reports and the system log, should anything come to depend on them.
