# EdupageTasks in TLA+

EdupageTasks copies a pupil's homework from EduPage into a Vikunja project, one
way: a homework becomes a task, an edit at the source becomes a PATCH, a homework
that is over is closed.  A daemon (or cron) runs one *pass* after another.  A pass
talks to two servers that fail, time out and change under its hands, and keeps
what it knows in a SQLite database, committed item by item, so that it may die at
any moment.  That is what these modules are about: which task belongs to which
homework, what is still owed, and whether it is paid in the end.

Paths below are relative to the repository; `engine.py` and so on are in
`src/edupagetasks/`, `docs` is `docs/application.md`.

## 1. The system

| part | state | operations | what is hard |
|---|---|---|---|
| Sync engine, `engine.py` | none that outlives a pass; reads and writes the store | `run`: reconcile, `_fetch`, `_diff`, `_apply`; per step create / resume / patch / patch_done / reopen / touch / cancel / close / delete; retries, `_defer`, `_handle_gone`, circuit breaker | a failed call may have taken effect; crash between a POST and the row; several steps of one homework in a pass; data read once and used minutes later |
| Reconciler, `reconcile.py` | none; rewrites rows in one transaction | list tasks, group by marker, keep the earliest, strip the others, adopt / redirect / prune rows | runs before unfinished work is retried and must not drop it; the list is stale when used |
| State store, `state.py` | `homework_map`, `meta` (strikes, `last_sync_ts`), schema version | get / upsert / delete row, transactions, migration, read-only snapshot | durability between any two calls |
| Run lock, `lock.py` | a lock file, its flock, an owner record | `acquire`, `release` | the path may be removed and created anew between `open` and `flock`; holders are killed |
| Vikunja client, `vikunja.py` | none between two calls | list (paged), create, patch, delete, labels, buckets | pages shift while they are read; find-then-create of labels; two requests in one operation |
| EduPage client, `edupage.py` | a session | login (token rounds, form, two-factor, seeded session), child switch, history, merge, item parsing | partial, outdated or malformed answers; a session that shows a sibling; credentials sent once too often |
| Rendering, `render.py`, `markdown.py` | - | title, description, hidden marker, drift test | servers that strip the marker |
| Command line and daemon, `__main__.py` | signal flag | `run`, `daemon`, `check`, `seed-session` | signals during a pass, exit codes, freshness of the heartbeat |
| Configuration, encoding, notifications, logs | - | - | pure or best-effort |

How they interact: the daemon takes the run lock, logs in to EduPage, and starts the
engine.  The engine lets the reconciler bring `homework_map` in line with the
project's tasks, fetches the homework, compares item, row and task, and applies one
planned step after another through the Vikunja client, writing a row after each.
`pending_ops` in a row is the engine's queue: one operation that could not be done
and that the next pass retries.  The hidden marker in a description is the only link
from a task back to its homework when the database does not know the task.

What makes each part correct (section 6 says where the code falls short of it):

* engine and reconciler: a row leads to a task of its own homework and of no other;
  a homework has one task although calls are retried and answers are lost; no task
  is forgotten, unless Vikunja itself says that it is gone; nothing deferred is dropped;
  what the row says the task contains it contains; what a fetch showed as listed is not
  closed; a tick made by a person is not undone; the heartbeat means that no operation is
  queued; the breaker closes again; after the last failure everything is mirrored;
* lock: one run at a time, though a file that nobody holds may be removed at any moment;
* store: a transaction is all or nothing (taken from SQLite);
* clients: the payload is that of the configured child; refused credentials are not
  sent again; a living task is not overlooked unless another client deletes tasks
  meanwhile; people's labels stay; one label per title, one project per account;
* close policy: what is closed is due, the history was answered, and what the pass was told
  last of the homework is not that it is listed.  That it is gone from the source cannot be known: EduPage does
  not say whether a history is complete (docs:291-293), and run `truncated` shows what
  follows;
* daemon: a signal ends the loop after the pass; the heartbeat is older than anything
  about which the source was not asked; `check` raises no false alarm; health comes back.

## 2. Modules

| module | models | extends |
|---|---|---|
| `SyncData` | items, tasks, rows, planned steps; the row each operation leaves; what POST and PATCH leave | |
| `Reconcile` | `Reconciler`: winners, losers, stripping, `_sync_store` per homework | `SyncData` |
| `DiffPlan` | `_diff`, `_close_candidate`, `_deferred_plan`: the steps planned for one homework | `Reconcile` |
| `SyncEngine` | the state machine: world, database, a pass call by call, failures | `DiffPlan` |
| `SyncProperties` | type invariant, safety, action and liveness properties, the inductive invariant | `SyncEngine` |
| `MCSyncEngine` | sets for the `.cfg` files | `SyncProperties` |
| `SyncEngine_proofs` | theorems about the engine | `SyncProperties`, `TLAPS` |
| `TaskBond` | what the engine promises of one task per homework, without passes or failures | |
| `SyncPass_proofs`, `SyncTask_proofs`, `SyncBond_proofs` | a pass: what it closes, unticks and writes; one task per homework; the refinement of `TaskBond` | each the one before |
| `Mutex` | what a lock promises | |
| `RunLock`, `RunLock_proofs` | `lock.py` system call by system call, its properties, its theorems | |
| `Login` | `EduPageClient.connect`, request by request, and the session at EduPage | |
| `ClosePolicy` | `_close_eligible`: due date, grace, window, days out of sight | |
| `Fetch`, `MCFetch`, `Fetch_proofs` | login payload, history, merge, window, and what is closed on the strength of them | `Login`, `ClosePolicy` |
| `Daemon`, `MCDaemon`, `Daemon_proofs` | the daemon loop, cron, signals, heartbeat, `check`, the project of a run | |
| `Listing`, `MCListing`, `Listing_proofs` | lists page by page, labels request by request, among other clients | |

`Fetch`, `Daemon` and `Listing` each open up what `SyncEngine` takes as one step: the
fetch, the run around the pass, and two of the client's calls.  They are separate state
machines and not one product: what one of them hands to the next is named in its header
(`Daemon` takes the run lock as a mutex, which `RunLock` shows; `SyncEngine` takes a
fetch that brings all or a part of the homework and counts as covering or does not, which
`Fetch` produces, and lists that may miss a task, which `Listing` produces).

Operators called "Mutated form" next to a definition are that definition with a
plausible bug; `PROJECT.json` pairs each property with one that breaks it.

### SyncEngine and its code

State.  `src` is the homework as EduPage has it, `tasks` the project, `posted` how
many ids it has handed out, `inflight` POSTs whose client gave up but which the
server may still commit (identified by the number of the failed call).  `rows` is
`homework_map` (a row with its `pending_ops`), `strikes` is `breaker_strikes`,
`fresh` says whether the last pass stamped `last_sync_ts`.  Everything else is the
memory of a pass and is reset when it ends or dies: `pc`, the reconciler's list
`seen` and its duplicates `todo`/`deny`, `items` and `covered` from the fetch,
`plan`, and `job`, the step at hand with `row`, the row *as read before the retry
loop* (engine.py:532), the task `tgt` and the attempt `att`.  `owner` of a task and
`lost` are history variables: no action's guard reads them.  `lost` holds the homework
about whose living task Vikunja has misled the engine, in or since the last
reconciliation.

Actions, in the order of a pass:

| action | code |
|---|---|
| `StartPass` | `run`: strikes against the threshold |
| `ListTasks`, `StripDuplicate`, `SyncStore` | `Reconciler.run`, one duplicate at a time, then the one transaction |
| `FetchWindow`, `FetchTruncated`, `FetchLoginOnly` | `_fetch`: the history brings everything; it lacks a part and counts as covering all the same (engine.py:216); it fails or is empty |
| `Diff`, `DiffDeferredOnly` | `_diff`, or `_deferred_plan` when the breaker is open |
| `AbortPass` | the except branch of `run` |
| `LocalStep` | touch, persist_fingerprint, cancel_pending_create |
| `BeginStep` | `_apply_step` up to its first call |
| `FindById`, `FindAnchor`, `WriteIntent`, `Post`, `SaveId` | the create and resume branch of `_run_op`, `_post_and_attach` |
| `TaskCall` | PATCH, labels and bucket ("attach"), done bit, close or delete |
| `StoreResult` | the row written when the calls are through |
| `TaskGone` | 404 / 410 because the task is gone, `_handle_gone` |
| `StrayGone` | 404 about a label, a bucket or the project while the task lives: the handler does not tell (engine.py:599-602) |
| `CallFails` | a transient error, with the effect on the server or without, or later; then `RetryOrDefer` |
| `StepWithoutTask` | the assertion, attribute error or request for task "None" when an earlier step removed the row |
| `FinishPass` | `_finish_pass` |
| `Crash` | a kill, or an error no handler of the pass takes (authentication, permission) |

`TeacherEdits`, `DoneToggles`, `Moves`, `PersonDeletes`, `PersonTicks`,
`PersonEdits` and `LateCommit` are the environment, possible between any two steps.

What is abstracted.  Text, title, subject and date of a homework are one version
number, which is also the fingerprint; priority, labels and bucket are one bit
`derived` and assumed configured; a due date is the constant `PastDue`; the
`restore` field of a queued operation is omitted (it is a function of the
operation); strikes are capped at the threshold, the only thing asked of them.
Content 0 stands for text that the drift test recognises; a person's edit that keeps
the link is left alone by the code and not distinguished.  `adopt_content` is
accepted by the code and changes nothing, so no action has it.  A list of the tasks is
one step here, but it need not be complete: while the code reads pages, another client's
deletion can move a living task past the reader (`Listing` has the pages).  `Overlooks`
hides one task from a list, and `Shifts` says from which of the four lists of a pass: the
reconciler's ("list"), the diff's ("plan") and the two of a create ("byid", "anchor").
The fifth list, that of `_patch_task`, is read for labels only and belongs to `Listing`.
A fetched homework is what EduPage shows at the fetch, although the login payload is
older by the length of a reconciliation (`Fetch` has the difference).  A truncated history
and the types that the merge leaves out (edupage.py:184) are `FetchTruncated`.  A dry run changes
nothing and is left out; so are tasks moved to another project, a changed project
id and `teacher_cleanup`, which nothing calls.

### RunLock and its code

`path` is the inode that the file's name refers to, `owner` the holder of each
inode's flock, `fd` what each process has open.  `open`, `flock`, writing the owner
record and comparing inodes are separate actions; a failing write and a moved path
close the file again.  `Kill` is possible anywhere and makes the kernel drop the
lock.  `Unlink` removes a file that nobody holds: removing a *held* lock file defeats
any such lock, the code cannot see it, and no code of the program unlinks.  Where
`fcntl` is missing every acquire succeeds; that platform is the mutated form
`FlockFallback`.

### Login, Fetch and their code

`call` is the request that `connect` sends next; each action is one request with every
answer the code tells apart: `LoginPage`, `GetToken`, `SubmitLogin` (`_rpc_login` with
its token rounds), `FollowRedirect`, `TwoFactorPage`, `Poll`, `NotConfirmed`, `Complete`
(`_twofactor` with its deadline), `FormPage`, `SubmitForm` (the legacy form),
`Probe` (a seeded PHPSESSID), `SwitchChild`, `LoadUser`.  `RequestFails` is any error
that ends the connect.  `session` is EduPage's side: which student the session shows.
`SessionEnds`, `BrowserSwitches` and `Reseed` change it; the browser shares the cookie in
mode "session" only.

`Fetch` keeps the payload of the login in `snap`.  `MergeHistory` is `_fetch` with an
answer to the history, `LoginOnly` its except branch, `AbortMalformed` the malformed item
of the login payload that is met again in that branch, `PassDies` any other error, a link
that cannot be resolved, or a kill.  `Apply` leaves in `rows` what the close policy will
read: state, due date, last day seen.  Neither answer need be complete: `Held` cuts any
part off the payload and off the history, and what is left of the history still counts as
covering the window if it is not empty.  `answered`, `brought` and `shown` are history
variables: whether the history was answered, which homework it held, and what a pass was
last told of each homework.  A day
changes and a homework is edited only where the order matters: nothing before the payload
and nothing after the history reads the source, and the clock is read once.

Abstracted: the text of payloads and markers; the fields of an item but status, due
date, done mark and whether it is well formed; types are the two sets `Configured`
(`include_types`) and `Default`.  An empty `timelineUserProps` is treated like an absent
one (edupage.py:166-175), as `MergedDone` says.  A child is configured and is a
student of the account; without `child_person_id` the code sends no switch and reads
whichever student the login shows (edupage.py:190), of which there is nothing to promise.

### Daemon and its code

One daemon and one short-lived process (cron's `run --once`, or the run after
`seed-session`) share the state file.  `LoopTest`, `WakeUp`, `Signal` are `_cmd_daemon`
and `_SignalStop`; `Acquire`, `FindProject`, `CreateProject`, `BeginPass`, `Fetch`,
`Finish`, `Fails` are `_run_once` with `ensure_project` and the heartbeat of
`_finish_pass`; `Dies` is a kill or an error that nothing handles; `Fresh` is
`_meta_fresh`.  Time is a `Tick` that ages what is remembered: the heartbeat `beat`, the
oldest change `unasked` since which no stamped pass has asked the source, the clock
`began` that a run has read.  Ages
above `Old` are not told apart, which changes no comparison.  A run takes at most
`MaxRun` ticks, and nobody waits at the loop's test or at the lock.

Abstracted: a pass is its fetch and its end, which stamps or does not (`SyncEngine` has
its steps).  `Finish` claims that the source was asked, and no more: whether the answer
was complete and all of it has reached its tasks is not for the heartbeat to say, and is
not true in general (`truncated`, `dropped_op`, `crash_loses_edit`, a step that ended with
a 404).  Time does not run backwards; Vikunja commits no POST of a project after its time-out (a late
one would make a second project, as it makes a second task in `SyncEngine`).

### Listing and its code

Two operations of the engine, one page or one request at a time: `StartReconcile`,
`ListTasks`, `Prune` (`list_tasks` and the pruning of rows whose task is not listed) and
`StartPatch`, `ListMine`, `Ensure`, `ListLabels`, `UseFound`, `CreateLabel`,
`LabelsKnown`, `SetLabels` (the label part of `_patch_task`, with `ensure_label`,
`attach_label` and `replace_labels`).  `TaskGone` is a 404, about the task or about a
label.  `CallFails` loses a request or its answer; the operation starts over.  The five
actions of `Others` are people and other accounts' clients.

Assumed of Vikunja, and external: it lists in the order of the ids and uses no id twice.
With another order a task could be listed twice and be stripped as its own duplicate
(reconcile.py:109).

## 3. Runs

Every bound is a constant in a guard: `MaxContent` versions of a text, `MaxTasks`
ids, `MaxEdits` changes at the source, `MaxPersons` in Vikunja (other clients' deletions
that leave a list incomplete among them), `MaxFaults` failed calls or runs, 404s about
something else and fetches that are short, `MaxCrashes`, `MaxDay` days, `MaxOthers` steps
of other clients.
`RetryMax` and `BreakerThreshold` are 2: the least values at which a second attempt and a
pass below the threshold exist.  The steps of different homework share no row and, by
`OwnsItsTask`, no task, so the runs about one homework's history use one homework and
spend the bound on faults; `two` has the second one, which is where rows and tasks could
be mixed up.  `two` has no crash: a crash only discards the memory of a pass, and `marked`
and `live` have it; the theorem `OwnTask` has all of them together.

| run | instance | states | shows |
|---|---|---|---|
| `marked` | 1 homework, 3 edits, 1 person or deletion elsewhere, 3 faults, 1 crash, `mirror_done` off; lists shift at "list", "plan", "byid" | 2.94 M | `TypeOK`, `SingleTask`, `NoForgottenTask`, `CloseNeedsCover`, `HeartbeatMeansSettled`, `MappingKept`, `TickStands`, `KeepsBonds`; the inductive `OneInv` and `PassInv` |
| `two` | 2 homework, 5 ids, 2 faults with late POSTs, 1 edit, 1 person or deletion elsewhere, policy delete; all lists shift | 4.24 M | `OwnsItsTask`, `OwnInv` |
| `quiet` | 1 homework, 3 versions, 4 edits, 2 persons or deletions elsewhere, no faults; lists shift except at "list"; fair | 0.17 M | `FingerprintFaithful`, `EditsArrive` |
| `live` | 1 homework, 4 ids, 2 faults with late POSTs, 1 crash, 1 edit, 1 person or deletion elsewhere; all lists shift; fair | 0.85 M | `EventuallyMirrored`, `BreakerRecovers`, `DuplicatesRetired` |
| `lock` | 3 processes, 4 inodes | 7.7 k | `LockInv`, `MutualExclusion`, `ImplementsMutex` |
| `fetch` | 2 homework (one of a type that is only included by default, one without a due date), 2 children, both modes, 4 days, window and grace of 1, 2 edits, answers cut short; fair | 2.67 M | `FetchTypeOK`, `DoneFresh`, `RefusalStands`, `OneChild`, `CloseMeansUnseen`, `CloseIsDue`, `PassEnds` |
| `daemon` | cadence of 4 ticks, runs of 2, 2 faults; fair | 0.45 M | `TypeOK`, `AskedToHeartbeat`, `DaemonInv`, `OneProject`, `NoFalseAlarm`, `HeartbeatNeverBack`, `SignalStops`, `HealthReturns` |
| `listing` | pages of 2, 3 tasks and 3 labels at first, 3 steps of others, 1 fault | 1.09 M | `TypeOK`, `WantedAttached`, `OneLabelPerTitle`, `LetsGoAfterDeletion`, `HumanLabelsKept` |
| `lost_mapping`, `dropped_op`, `crash_loses_edit` | 1 homework each | | violations, section 6 |
| `truncated` | the instance of `fetch` | | violation of `CloseMeansGone`, section 6 |

Why the bounds suffice for their questions: a create that fails on both attempts, is
deferred and fails once more takes three faults; a crash on top of it, a removal and
a return of the homework take one crash and two edits; two POSTs for one homework
take one fault and an id each, so three ids (four with late commits) let a duplicate
of a duplicate appear.  The lock's worst case takes a holder, a contender that
opened a removed file, and one that opened its successor.  In `fetch` the fourth day is
the first on which a homework without a due date may be closed (out of sight for more
than window and grace), and a removal with a return takes two edits.  In `daemon` the
cadence is that of two runs, the tightest for which `NoFalseAlarm` can hold; with one
run less in it a skipped turn is an alarm.  In `listing` three tasks need two pages, a
deletion moves the third to the first page, and both titles of a patch, one of them
new, need a lookup.

`OneChild` is stated for mode "password", with a child configured.  In mode "session" a
person who chooses another child in the browser between `switchchild` and the history
makes the pass read the sibling's homework; the code cannot see it.  `CloseMeansUnseen`
holds in both modes, since it speaks of what the two answers said: the history was
answered, and what the pass was told last of the homework, by the history or, where that
does not hold it, by the login payload, is not that it is listed in the window.  It
needs the configured types to be among the default ones, since the merge reads the
items again without `include_types` (edupage.py:184, docs:343, 402-403).  It does not say
that the homework is gone from the source, nor could it: see `truncated`.

`NoFalseAlarm` counts a fetch that does not cover as a fault.  An empty history does not
cover, and a `window_days` above 30 never does (engine.py:216, docs:514-516): such a
configuration never stamps, and `check` calls it dead from the start.

`SingleTask` is checked where markers are kept, no POST is late and the list in which a
create looks for its marker is complete ("anchor" is not in `Shifts`), the only setting
in which the code can promise it; otherwise a second task is created, and
`DuplicatesRetired` says what is left: the reconciler retires it.  There, `NoForgottenTask`,
`MappingKept` and `KeepsBonds` say that a row lets go of a living task only if Vikunja
has said that it is gone: answered a step about its homework with a 404, or listed the
project without it.  A crash, a lost answer or a retry is no such reason.  What becomes of
a task that was let go is in `live`: the next pass that reconciles adopts it by its marker.

With `mirror_done` off (`marked`) the question is whether a person's tick survives; with it
on (`live`, `quiet`) whether the done bit arrives.  `FingerprintFaithful` and `EditsArrive` are checked without
failures only: with failures the code breaks them, see `dropped_op` and
`crash_loses_edit`.  Nor does the reconciler's list shift there: a row that it drops while
the homework is edited ends as in `crash_loses_edit`, since the task is adopted with its
old text.

Fairness.  `FairSpec` of `SyncEngine` adds `WF_vars(Progress)`: as long as a step of the
engine that needs no failure is possible, some such step is taken in the end.  The daemon
loop starts pass after pass, every request has a time-out and every retry loop a bound,
and a time-out is a fault, of which there are finitely many in a run.  `Fetch` asks the
same of `Client`; there failing requests are among the client's own steps, so `PassEnds`
holds whatever fails.  `Daemon` asks that time passes (`SF(Tick)`: it is blocked again
and again by processes that are at places without duration, cron's among them), that the
loop goes on and is started again after a death (compose.yaml: `restart: unless-stopped`),
and that a run takes its next step (`WF` for each process).  Nothing is assumed of the
teacher, of persons, of other clients, of late POSTs or of failures.  Liveness is about
what holds when these have stopped.

## 4. Proofs

`RunLock_proofs`, for any processes and inodes, from `None \notin Inode \cup Proc`:

* `LockInvariant`: `LockInv` is inductive.  Past `flock` a process owns the inode it
  has open, an owned inode is open at its owner, and past `_owns_path` it is the
  path's inode.  The last conjunct survives `Unlink` only because a held file is not
  unlinked, and `Open` because an inode number in use is not handed out again.
* `Exclusion`: two processes inside would own the inode of the one path.
* `LockImplementsMutex`: each step lets one process in, lets one out, or leaves the
  set of those inside alone.

`SyncEngine_proofs`, for any homework, bounds, `mirror_done`, `delete_policy`, marker
behaviour, late commits or not, from the three assumptions of `SyncData` and the one
of `SyncEngine`:

* `OwnInvariant`: `OwnInv` is inductive.  `OwnsItsTask` alone is not: a row gets its
  task id from the task list that the reconciler read, from the marker found by
  `_ensure_anchor`, from the row as read before the retry loop, or from the answer
  of a POST.  So every id held in a row, in the list, in `job.row` and in `job.tgt`
  must *lead home*: it was handed out, and its task, if it still lives, was posted for
  that homework.  Markers of live and of uncommitted tasks name their owner.
  `JobFits` ties the program counter to the operation at hand, and `Queued` says that
  a deferred row has an operation: without it a plan could hold a step that is none.
* `TypeCorrect` and `OwnTask` follow from it.

The argument: a step makes tasks only *grow* (`TasksGrow`): a task keeps its owner,
a new one gets a new id.  `LeadsOn` says that then every id still leads where it
led.  With that each action needs only what it writes: the frame lemmas take care of
the rows and the memory that it leaves alone, one lemma per action does the rest,
`NextOwns` collects them and a temporal step closes the induction.  `SyncedRowFacts`
and `StepsArePlan` are the facts about the reconciler and the diff that it rests on;
`Winner` needs `LeastElement`, since it is a choice.

`SyncPass_proofs` adds `PassInv`: the step at work is the first of its homework's plan,
what is to be closed was not shown as listed by a fetch that counted as covering, is past
due and stands alone in its plan, with its row as it was when the plan was made; and a
pending row has a step about its operation.  Nothing is assumed of what a fetch brings:
`FetchTruncated` and `FetchLoginOnly` bring any part, and cover or do not.

* `ClosesCovered` (`CloseNeedsCover`) and `HeartbeatSettles` (`HeartbeatMeansSettled`)
  follow.  The first one is about the way from the fetch to the call: a queued operation, a
  row that a 404 has dropped or a reopened homework must not turn into a close on it.  The
  second one is why the plan must have a step for *each* pending row: a pass
  stamps the heartbeat when its steps succeeded, which says nothing of a row without one.
* `TicksStand` (`TickStands`), for `mirror_done` off.  Two things can untick a task: a
  reopening, and a `patch_done` with an open done bit.  `TickInv` says that a plan has
  them as its *first* step only, and for the sake of the row it works from: one that was
  closed, or deferred over that very operation.  The row meant is the one the step has
  read (`RowOf`), since the retry loop does not read it again.  Later steps of the same
  homework are out by the order of the plan, POSTs by their new ids, and requests of
  other homework by `OwnInv`.
* `Faithful` (`FingerprintFaithful`), from
  `Calm == MaxFaults = 0 /\ MaxCrashes = 0 /\ "list" \notin Shifts`: no call fails or meets a
  stray 404, every fetch is complete, no process dies, and the reconciler's list is
  complete (the other lists may shift).  Edits, ticks and deletions by persons
  and by the teacher go on, in the middle of a pass too.  `CalmInv` says that a task has
  the text of its row's fingerprint, or a person's, *unless* the step that writes all of
  its text is still in the plan or at work.  For this to be inductive a create, a close
  and a delete must stand alone in their plan; what is marked must be the row's own task,
  so that the reconciler redirects nothing; and between two passes no row is pending.
  No part of `Calm` can be dropped: `dropped_op` has failed calls and no crash,
  `crash_loses_edit` a crash and no failed call, and a list that shifts drops the row.

`SyncTask_proofs`, under `Reliable == MarkersKept /\ ~LatePosts /\ "anchor" \notin Shifts`,
the setting in which the code can promise it (`lost_mapping` and `live` show the others).
404s about something else, short fetches and the other three lists are not excluded:

* `OneInvariant`: `OneInv` is inductive.  A homework has one living task, it carries its
  marker, and its row has its id, or is pending and the marker finds it, or holds *no* id
  and the homework is in `lost` (`RowKnows`).  That a misled row holds no other id is what
  keeps it from leading astray, and a create whose row was dropped looks for the marker
  again.  A plan or a step that ends a row (cancel, close, delete) stands alone, a close
  has a task, and a cancel only meets a homework without one, or in `lost`; a step at work
  that believes that there is no task is right (`JobKnows`), a stray 404 in the middle of
  a create included.
* `OneTaskEach`, `NoneForgotten`, `RowsKeepTheirTask` follow.

`SyncBond_proofs`, under the same condition: `EngineKeepsBonds`, the refinement.
`BondAsRow` says that the mapping makes sense where the invariants hold; `TasksMove` that
a step takes tasks, or gives the first one to a homework that is owed one; `DoubtLasts`
that `lost` changes only where the abstract step may say so; and each action maps to
`Record`, `Create`, `Bind`, `Lose`, `Forget` or `Stay` for each homework, with one `Create`
at most.  `Forget` needs the homework in `doubt`, which is `lost`: a bond is let go of with
its task alive only where a 404 or a list was wrong about it.

`Fetch_proofs`, for any homework, children, window, grace, deadline and number of edits:
`FetchInv` is inductive.  `LoginOK` counts the sends by the request at hand and keeps a
password session the wanted child's from the switch on; `InTime` ties the connect to the
pass; `KnowsSource` says that what was fetched is what the two answers said last, with
whatever they lack, and that a fetch counts as covering only if the history was answered;
`RowsAsShown` carries that over to the rows.

* `RefusalIsFinal`, `WantedChild`, `DueBeforeClosed`, `FreshMarks` follow, and, from
  `Configured \subseteq Default`, `UnseenBeforeClosed` (`CloseMeansUnseen`).

`Daemon_proofs`, for any cadence, longest run and number of faults: `DaemonInvariant`,
and from it `AskedBeforeStamp` (`AskedToHeartbeat`), `OneProjectOnly`, `NeverBack`.  A run
reads its clock *before* it fetches, and stamps that: what has changed since its fetch is
younger than its clock.

* `AlarmIsTrue` (`NoFalseAlarm`), by `Punctual`: asleep, a daemon without faults has a
  heartbeat no older than the time since its turn began (`SinceTurn`) plus one run; when
  it is up again, that plus a cadence.  A turn that found the lock taken is made up for by
  the run of cron that has it and will stamp its own clock; two runs fit into a cadence,
  so that this run is over before the daemon's next turn.

`Listing_proofs`, for any page size, labels, titles and other clients: `ListInvariant`
says that the ids a patch collects hold every label to keep and one for each title that
was ensured, and are on the task, or will replace its labels.  `LabelsAttached` and
`HumanLabelsStay` follow.

* `PagesComplete`: `PageInv` is inductive.  The reader's page number stands for a set: the
  things whose place in the list is on an earlier page (`PageNo` counts how many are
  smaller) have been read.  Ids only grow, so a creation moves nothing to an earlier page
  and a deletion does; that is why the promise is kept until `deleted` (tasks) or `raced`
  (labels), and that a page shorter than `PageSize` is the last one.
* `LetsGo` (`LetsGoAfterDeletion`) and `ListingTyped` (`TypeOK`) follow.
* `NoLabelTwice` (`OneLabelPerTitle`), if the server began with one label at most for each
  wanted title.  The engine does not clean up older duplicates.

Only model-checked is liveness, since fairness and `ENABLED` are outside the prover's
reach: `EditsArrive`, `EventuallyMirrored`, `BreakerRecovers`, `DuplicatesRetired`,
`PassEnds`, `SignalStops`, `HealthReturns`.  Every invariant and every action property
that a passing run checks is a theorem, under the conditions named above.

## 5. Hazards

The list with lines is in `PROJECT.json`.  In short:

* engine: the row read before the retry loop; two steps of one homework where one fails;
  death between POST and row; an edit between a crash and the resumed create; a lost or
  late answer to a POST; a task deleted between two steps; 404 loops; a breaker that must
  close although it plans nothing; a done bit written over a person's; a stale task list
  in the reconciler and in the diff;
* sources: a partial, malformed or outdated answer, and a truncated one that counts as
  covering; a login that is not followed by the switch to the child; credentials sent
  again after a refusal; a login that never ends; dates that no step refreshed;
* client: pages that shift while they are read; look-then-create of labels and of the
  project; labels set one by one and replaced as a whole; a 404 about a label, a bucket or
  the project taken for the task's;
* processes: the lock file's path changing under a contender; two runs at a time; a
  signal or a kill anywhere; a heartbeat that covers what was not asked for, or goes back.

Seven are on the list without a property.  A *held* lock file that is removed, the shared
cookie of mode "session", a type that only the configuration includes, a label that a
person attaches between reading and replacing a task's labels, and a label that a second
client creates between lookup and create are cases in which the code does not keep the
promise; no property can hold there.  A clock that is
set back makes the heartbeat lie in the future and `check` fail until time catches up
(__main__.py:49); ages have no sign.  A project configured by a number that does not
exist is created under another number, and again by the next run (vikunja.py:246).

## 6. Where code and documents disagree

Each is a run that ends in a counterexample.

* `lost_mapping`: on a server that strips markers, a label or bucket request fails
  after the id of a new task was saved.  The retry starts from the row as it was
  before the step, finds no marker, overwrites the row with a new intent and creates
  a second task; the first is forgotten.  docs:503-504 call the database
  authoritative for mapped tasks.
* `dropped_op`: a patch is deferred, then the `patch_done` of the same homework
  succeeds, clears `pending_ops` and stores the new fingerprint.  The patch is never
  sent.  docs:449-451: "never silently dropped".
* `crash_loses_edit`: the process dies after the POST; the homework is edited; the
  resumed create adopts the old task, sends labels only and stores the new
  fingerprint.  The edit is lost.  docs:310-311.
* `truncated`: a history lacks a homework that the source lists, and is not empty, so
  `covered_ok` is set (engine.py:216); the homework is overdue and unfinished, and is
  closed.  docs:415-416: "a partial or empty fetch never closes anything", and 410-411:
  "close only when it is both gone from the source AND overdue"; docs:291-293 concede that
  a history has no completeness signal.

Smaller ones, seen while modelling and without a run: `tombstoned` is produced by
the cancelled create (engine.py:538-548) while docs:234 call it reserved; the grace
is over after *more* than `grace_days` (engine.py:1077), docs:420 say at least; the
back-off is 2, 4, 8 (engine.py:609), docs:448 say 1, 4, 16; a deferred row becomes
`updated` (engine.py:56-62), docs:248 say its prior state; strikes add up over
passes while docs:457 speak of consecutive failures; the merge of the history
ignores `include_types` (edupage.py:184); a task deleted between two steps of its homework
loses its row by the 404 of the first, and the second runs into `assert row is not None`
(engine.py:664, 685), which ends the run, while docs:453-456 promise that a 404 is
reconciled away (`StepWithoutTask`; the next pass does create the task anew); a 404 about a
label, a bucket or the project drops the row of a task that lives (engine.py:601), and the
next pass adopts it by its marker, where markers are kept, while docs:453 speak of a
removed task; a label that a person attaches between the listing of the task and
`replace_labels` is lost, although docs:377 keep unrelated human labels; a run that only
deferred items exits with 0; tests/test_engine.py:913-918 and 877-907 expect strikes
reset and a heartbeat after a deferred-only pass, and a second attempt at the history,
which the code does not have; docs:124-126 and 446-447 promise a new login when the
session is lost, which the code has in the login RPC only.

## 7. Not modelled

* Configuration, encoding, notifications and logging: a file is read once, bytes are
  converted, a message is sent at best effort.  No step of the program depends on the
  order in which they happen; their values are constants here.
* SQLite itself, schema migration and the read-only snapshot: a transaction is one step.
* Dry runs and previews: they change nothing.
* In the Vikunja client: the search for a bucket and its view, a project configured by
  number, tasks that were moved to another project.
* In the EduPage client: `jsx_call` and `refresh`, which nothing calls, and the parsing of
  text into items beyond "well formed or not".
* `teacher_cleanup` and `adopt_content`, which nothing calls or which change nothing.

## 8. Plan

Done: the engine with its refinement of `TaskBond`, the lock, the fetch with login and
close policy, the daemon, paged lists and labels, and their proofs.  Left:

1. `Bucket`: the search for the kanban view and its "done" bucket, and a project that is
   configured by number.
2. The read-only snapshot of `state.py` against a pass that writes.
3. Safety facts that the liveness properties rest on, as theorems: that a pass makes
   progress (its plan, retries and strikes only shrink towards its end) and that no state
   under the daemon's lock is a dead end.
