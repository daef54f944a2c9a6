# MediaFlow: formal model

TLA+ modules, TLC runs and TLAPS proofs about MediaFlow, the media organizer under
`src/mediaflow`. The core is the durable Task scheduling kernel and the resident Workers
that advance organizing Tasks over it, with the operators who control and decide those
Tasks while they run. Around it four more parts of the program are modelled, each a
protocol of its own over the same database: the Files transfers with their path locks,
the notification outbox, the managed configuration revisions, and the Automation
scheduler that runs what those revisions publish.

## 1. The system

MediaFlow scans media sources, recognises them, plans where they belong and moves,
copies or links them. Work is a *Task* with one *TaskItem* per source. State is one
SQLite database; every actor (resident Workers, the scheduler, the HTTP service, the
command line) is a process that runs `BEGIN IMMEDIATE` transactions on it. So each
transaction is atomic, and what lies between two transactions of one operation is
where other actors come in.

### Inventory

| # | component | state it keeps | operations | how it meets the others | what makes it correct | hard behaviour | here |
|---|---|---|---|---|---|---|---|
| 1 | Task scheduling kernel (`domain/task_scheduling.py`, `application/task_scheduling.py`, `infrastructure/sqlite_runtime.py` 17669-20093) | `task_scheduling`: queue state, claim (Worker, token, generation, expiry), control request and revision, mutation marker; `tasks`, `task_items`, `task_results` | admit, claim, heartbeat, begin work, control, release, yield, requeue, resume, start/record/publish items, begin mutation | called by every Worker and by the operator's services | slots bounded, one owner, no effect repeated, a cancel stands | leases, takeover, two-transaction controls | `TaskKernel` |
| 2 | Task engine (`manual_task_engine.py`, `task_runtime.py`, `task_flow_settlement.py`) | none of its own: a pass in memory | `run_next` and the ways a pass ends | kernel, executions, organizer | each pass ends in waiting, paused, settled or yielded, honestly | exceptions at every line, stale reads | `TaskEngine` |
| 3 | Manual organize execution (`manual_organize_execution.py`) | `manual_executions`, `manual_execution_items` | admit, claim, run items, settle | engine, kernel, Storage | execution rows agree with items | technical stops | in part, `TaskEngine` |
| 4 | Media organizer pipeline (`media_organizer.py`) | - | one source: analyse, mark, execute, publish | kernel coordinator, executor | evidence survives failures | failed publications | in part, `TaskEngine` |
| 5 | Continuations (`manual_task_continuation.py`, `automatic_task_continuation.py`) | - | requeue a decided Task, analyse its items | kernel, reviews | decisions are carried out | decisions racing passes | in part, `TaskEngine` |
| 6 | Reviews, ignores, recovery (`recognition_review.py`, `metadata_review.py`, `recovery_*.py`, `processing_checkpoint.py`) | review rows, checkpoints, audits | open, resolve, ignore, admit recovery | items of the kernel | one decision per review, last ignore settles | late decisions | item effects, `TaskKernel` |
| 7 | File locks (`sqlite_runtime.py` 17409-17667) | `file_locks` with owner generation | acquire, adopt in place, rotate, release, reclaim | executions, transfers | a path has one owner, never a gap | takeover against late release | as transfers use them, `FilesTransfer` |
| 8 | Source ownership and hand-off (`sqlite_runtime.py` 13043-13820) | items across Tasks, `superseded_by_task_id` | claim item with ownership, hand off | kernel, discovery, transfers | one unfinished owner per source | concurrent entrances | planned |
| 9 | Files transfers (`direct_file_transfers.py`, `files_transfer_worker.py`) | `files_transfers`: claim, mutation boundary, progress | admit, claim, run, resolve expired | locks, Storage | an operation in flight is resolved, never repeated | crash in flight | Copy, `FilesTransfer` |
| 10 | Notification outbox (`notification*.py`) | `notification_deliveries` | emit, claim, complete, retry, dead-letter, requeue | post-commit observers | at least once, no lost or revived outcome | stale claims without a fence | `Outbox` |
| 11 | Automation scheduler (`automation*.py`, `cron.py`) | due state, occurrences | initialise, admit due, reset, record failure, run once | kernel admission, configuration | each due instant admitted at most once, none skipped silently | two schedulers, full queue | in part, `AutomationScheduler` |
| 12 | Configuration revisions (`configuration_*.py`) | revisions, Active pointer, audits | draft, validate, activate, recover | pinned by every Task | one Active, activated from its own base | concurrent editors | in part, `ConfigurationRevisions` |
| 13 | Unattended grants, authorizations | grants, authorizations | grant, revoke, expire, consume | admissions | one-shot, never after revoke | races with admission | publication authority, in 11 and 12 |
| 14 | Media discovery (`media_discovery.py`) | discoveries: version, claim, control | claim, scan, settle control | kernel (Files Tasks), ownership | bounded, fenced, resumable | long scans, control | later |
| 15 | Organizer executor (`organizer.py`, `conflict_resolution.py`) | an operation list in memory | preflight, execute, verify, roll back | Storage | evidence never claims less than happened | partial failure of a rollback | planned |
| 16 | Resident services, runtime lease | heartbeats, a file lock | poll, adopt cadence, drain | all Workers | cadence kept | clocks | not planned |
| 17 | Parsers, metadata provider, Storage adapters, web and command line, backup, migration | - | - | - | - | input and output, pure computation | not modelled |

### Plan

Done:

1. `TaskKernel`, the abstract specification: every kernel transaction under callers
   that may do anything; `TaskEngine`, the program: passes, operators and faults, which
   implements it, and whose Tasks implement `EffectLedger`; their proofs.
2. `FilesTransfer` over the abstract `EffectLedger`: claims, leases, takeovers and the
   in-flight boundary, with the path locks of 7 as transfers use them; the proofs of its
   safety and of the refinement.
3. `Outbox`: at-least-once delivery, with liveness and the proofs of its safety.
4. `Publications`, what configuration promises; `ConfigurationRevisions`, which implements
   it; `AutomationScheduler`, which consumes it; proofs for both.

Left, in this order:

5. Source ownership and the superseding hand-off (8): Tasks that share sources. It comes
   first because it also closes the admission-dedupe hazard and lets `TaskEngine` have
   Tasks that meet.
6. The organizer's operation list, verification and rollback (15), in place of the choice
   `CallStorage` makes now.
7. The Files preparation pass of `run_next`, and media discovery (14).
8. A liveness run with two sources per Task: the slot of a recorded unknown effect.

The safety properties of the runs that hold all have a theorem (section 4); each part
added above brings its own invariant and proof with it.

## 2. The modules

| module | what it is |
|---|---|
| `TaskKernel` | the rows and the transactions, and `KernelSpec`: those transactions under free callers |
| `TaskEngine` | passes, operators, lapses, crashes; each step a kernel transaction or none |
| `TaskEngineProperties` | what the engine promises; fairness |
| `MCTaskEngine` | symmetry for TLC |
| `EffectLedger` | what a transfer promises about the operations it enters, and a Task about its sources |
| `FilesTransfer` | one durable Copy transfer: Workers, locks, Storage, operators |
| `FilesTransferProperties` | its types and properties, and its refinement of `EffectLedger` |
| `Outbox` | deliveries from the settled Task to the operator's recovery, with its properties |
| `Publications` | what managed configuration promises to its consumers |
| `ConfigurationRevisions` | Drafts, validation and activation; implements `Publications` |
| `AutomationScheduler` | ticks and admitted Tasks over `Publications` |
| `TaskKernelProofs`, `TaskEngineProofs`, `TaskEngineItemProofs`, `FilesTransferProofs`, `FilesTransferLedgerProofs`, `OutboxProofs`, `ConfigurationRevisionsProofs`, `AutomationSchedulerProofs` | theorems |

How they compose: `TaskEngine` extends `TaskKernel` and implements `KernelSpec`;
`FilesTransfer` implements `EffectLedger`, and so does every Task of `TaskEngine`, whose
sources are the operations and whose marker is the boundary; `ConfigurationRevisions` implements
`Publications`, and `AutomationScheduler` extends `Publications`, so what the scheduler is
shown to do holds of documents published exactly as the revisions publish them. The
kernel's slots appear in the scheduler as its capacity check.

### TaskKernel

One action is one transaction of `SQLiteTaskRepository`. NULL columns are empty sets.

| variable | column |
|---|---|
| `status` | `tasks.status` |
| `queue`, `gen`, `holder`, `lease` | `queue_state`, `claim_generation`, `claim_worker_id`, `claim_expires_at` |
| `control`, `revision`, `marker` | `control_request`, `control_revision`, `mutation_item_id` |
| `item`, `attempts` | `task_items.status`, `.attempts` |
| `recorded`, `effects` | keys and effect certainties of `task_results` |

Abstractions:

- The claim token is Worker and generation together: a token is minted by a claim, and
  each claim raises the generation.
- A lease is `none`, `live` or `lapsed`; `LeaseLapses` may happen at any moment, which
  covers every clock reading.
- Item statuses that no code here tells apart are one: the four `waiting_*` problems are
  `review`; `success` stands for `dry_run` and `skipped`, `failed` for `partial`. A review
  row is identified with the waiting status it gives its item.
- Effect certainty `attempted_unverified` and `unknown` are both `unknown`: they bar a
  replay alike.
- Each Task has sources of its own. Ownership across Tasks, file locks and the
  configuration pin do not appear.
- A loop of fenced PROGRESS publications is one step (`RecordItems`).

`KernelSpec` is the abstract specification. Its Workers may present the current token of
any Task with any rows and any outcome; only the guards of the transactions protect the
rows. What holds of `KernelSpec` is what the repository guarantees whatever the
application code above it does.

### TaskEngine

`passes` holds one record per busy Worker: Task, generation, step, kind of pass, sources
left, and what the pass has read but not yet written. A step ends wherever the code reads
a row it acts on later, so every stale read of the engine is one in the model.

| steps | code |
|---|---|
| `control`, `entering`, `beginning` | `run_next`, `begin_work` and its pre-check |
| `choosing` ... `republishing`, `refused` | the item loops of an execution, a scan and a continuation |
| `parked`, `reprojecting` | the continuation's read-back of a review it opened |
| `raised`, `retiring` | the `except` paths: a marked attempt is closed as a technical stop |
| `ending`, `deferring`, `completing`, `yielding`, `returning` | `_settle_automatic`, `_finish_execution`, `_yield_until` |
| `failing` | `_record_failure` |
| `acknowledging`, `pausing`, `settling` | `_settle_pending_control`, `acknowledge_control`, `_settle_control` |

`requests` holds a control between the two transactions of
`request_scheduled_task_control` (`request_control` of the scheduling service has the same two);
`execution` and `run` are the statuses of the Task's manual execution and its items.
`touched` is history: the sources whose Storage call had, or may have had, an effect.

Choices: what the analysis of a source finds, what a Storage call proves, whether a
publication fails, which claimable Task is claimed. The kernel orders Tasks by
eligibility; taking any is more general, and its order is what strong fairness uses.

`EndExecution` keeps the branch that yields a pass with a source still in processing,
though no instance reaches it. Left out on purpose: `_finish_execution` called from `run_next` (every Task without
discovery is automatic, so the branch is not reached) and `run_next`'s own in-flight
branch (a claim needs an empty marker).

### FilesTransfer

One action is one transaction, one read the code acts on later, or one provider call's
start, landing or return (`application/direct_file_transfers.py`,
`files_transfer_worker.py`, `task_runtime.py`, `sqlite_runtime.py` 15444-16631).

| variable | what it stands for |
|---|---|
| `transfer` | the `files_transfers` row: status, claim token (`owner`, minted from `attempts`), lease (`live`), in-flight boundary |
| `task`, `item` | the Task and its items with checkpoint and Result effect |
| `lock` | `file_locks` of the items' paths: who holds it, and the claim and kind of its generation |
| `world` | Storage at each entry: untouched, half written, landed, foreign bytes |
| `pass` | each Worker's frame: step, token, and all it has read or collected |
| `ledger`, `uncovered` | history: last recorded effect; a late pause took a newer owner's locks |

The order of a pass is the code's: claim, begin (or resolve the entered operation),
rotate the locks, publish the Task, list the items once, then for each item lock, start,
look at the destination root, check, enter, call, record, complete; the aggregate and the
finish. Guards keep the code's differences: most writes compare token and lease (`Held`),
`finish_files_transfer` and the lease keeper compare the token alone (`Named`), and
`acknowledge_pause` compares nothing. A pass collects outcomes of its own only, as
`_execute_item_entries` does. Items are top-level selections, entry 1 of a directory is
its root; which bytes are copied, names and sizes are left out.

`acknowledge_pause` is two steps, its loop over items being one of them.

`EffectLedger` is the contract of `begin_files_transfer_mutation` and
`claim_expired_files_transfer_mutation` put as a state machine: one operation entered at
a time, entered only with no effect known or in doubt, none after the end. The mapping
takes the boundary for "entered" and the history for the rest.

### Outbox

`row` is `notification_deliveries`; `event` is how far the post-commit observer of a
settled Task has come; `pass` is a Worker's copy of the row, its targets and its answer;
`view` is what the operator inspected before a requeue or a stale resolution. `stamp`
stands for `updated_at`, which recovery compares and `update_delivery` does not. Time is
countdowns (`due`, `lease`) that `Tick` lowers, so the model has no clock that grows.
Which due row is the oldest is left open. `hook` may be disabled, enabled or redirected by
a publication at any moment; a recipient and signing identity together are one digest.
`sent`, `confirmed`, `late` and `lapses` are history.

### Publications, ConfigurationRevisions

Of a document only what it says of one Automation Task Definition is kept: gone, off, or
enabled with one of two scopes. A `revision` row has status, version, base and, as the
activation audit's evidence, predecessor, actor and authority (`intent`). `desk` is where a
principal is in `validate` or `activate`: each reads the database several times before its
writing transaction, and those reads are separate steps. `Chain` reads the audits back from
the Active revision; that this is the sequence `Publications` grows is the refinement.
Every object editor and the bulk editor end in the same guarded draft write, `EditDraft`.

### AutomationScheduler

`due` is `automation_definition_due_state` (`print` is the fingerprint of the schedule it
was computed from), `pass` one tick of a scheduler process with what it read, `task` an
admitted Task with its pin and occurrence. A tick resolves the latest document, reads or
inserts the due state, resets it when its fingerprint is stale (a write that compares
nothing), decides, and admits in one transaction with capacity, due state and fingerprint
compared again. Two schedulers stand for the resident one and a one-shot command. The
Task asks for its authority at its start and at each effect; publications, permissions,
the clock and crashes move in between. Cron arithmetic is a fixed interval. `current` and
`after` are history: no fresh start of the schedule since the admission, and effects after
the pinned definition was disabled or removed. An ended Task forgets its pin.

## 3. The runs

| run | instance | properties |
|---|---|---|
| `task_takeover` | 1 Task, 2 Workers, 1 source; pause and cancel, lapses, failing writes, crashes | `TypeOK`, `OneOrganizer`, `CancelIsFinal`, `KernelSpec` |
| `task_items` | 1 Task, 1 Worker, 2 sources; pause and cancel, lapses, failing writes | `NeverRepeatsAnEffect`, `EffectIsAccounted`, `SlotCoversWork`, `HealthyClaimIsWorked`, `SettledUnlessLatePause`, `KeepsEffectLedger` |
| `task_rounds` | 1 Task, 1 Worker, 2 sources; cancel, three attempts, no faults | `CompletedLeavesNothingOpen`, `HonestResults` |
| `shared_slots` | 2 Tasks, 2 Workers, 1 source each, capacity 1; fair | `CapacityBound`, `SlotsComeBack` |
| `late_pause` | 1 Task, 2 sources, pause | `SettledIsFinal` violated |
| `hidden_effect` | 1 Task, 2 sources, lapses | `HonestResults` violated |
| `raced_decision` | 1 Task, 2 sources | `DecidedWorkIsTried` violated |
| `stranded_cancel` | 1 Task, 2 sources, cancel | `NoAbandonedSlot` violated |
| `files_transfer` | 2 Workers, 1 directory with 2 files, every answer and control; 1 fault, 2 requests; fair | `TransferTypeOK`, `OneCallPerEntry`, `SuccessIsProven`, `ExclusionUnlessLatePause`, `KeepsLedger`, `Settles` |
| `outbox` | 1 event, 1 Webhook, 2 recipients, 2 Workers, 2 attempts; 1 fault, 2 edits, 1 recovery; fair | `NeverRetargeted`, `DeliveredIsFinalUnlessLate`, `AttemptsAreBoundedUnlessLate`, `Converges` |
| `configuration_revisions` | 2 principals, 3 contents, 3 revisions of 2 versions, 1 changed permission | `RevisionTypeOK`, `NoLostPublication`, `PublishesInOrder` |
| `automation` | 2 schedulers, 2 Tasks, capacity 1, 3 publications, 2 instants, 1 fault; fair | `OneTaskPerSlot`, `StoppedWorkStops`, `DueOccurrencesRun` |

What they ask:

- `OneOrganizer`: a pass that may start, mutate or publish is the one the claim names.
- `CancelIsFinal`: an accepted cancel is never withdrawn and no outcome written over it.
- `KernelSpec`: each engine step is one kernel transaction or leaves the rows alone.
- `NeverRepeatsAnEffect`, `EffectIsAccounted`: no second Storage call after an effect,
  and an effect's source is marked or ended, never waiting or pending again.
- `SlotCoversWork`, `CapacityBound`: slots are given back by stopped work only and never
  exceed the allowance.
- `HealthyClaimIsWorked`: no pass ends quietly over its claim. Whatever lapses, is refused
  or fails to be written, a running Task without its pass has a lapsed lease, a control or
  a marker on its row to tell why.
- `SettledUnlessLatePause`: a settled Task stays as it settled, except for the step of
  finding 1, which the property names.
- `KeepsEffectLedger`: each Task implements `EffectLedger`: one source at a time inside
  Storage, over all Workers and rounds, and an effect once known or in doubt stays so. A
  row with a marker is entered; otherwise the ledger's effect is read off `touched` and
  the Results.
- `CompletedLeavesNothingOpen`, `HonestResults`: what completed and recorded mean.
- `SlotsComeBack`: every slot taken is given back.
- `OneCallPerEntry`: two Workers are never inside the provider call of one entry, however
  long the first one stalls past its lease.
- `SuccessIsProven`: a successful item has all its files landed, across takeovers, adopted
  effects, foreign files and continuations that record only their own outcomes.
- `ExclusionUnlessLatePause`: during the owner's provider call its Task holds the path. The
  exception is what the code does: `acknowledge_pause` has no fence, so a Worker that lost
  its claim drops its successor's locks; the history variable records exactly that step.
- `KeepsLedger`, `Settles`: the transfer implements `EffectLedger`, and comes to rest.
- `NeverRetargeted`: no request of a delivery goes to another recipient than it was created
  for.
- `DeliveredIsFinalUnlessLate`, `AttemptsAreBoundedUnlessLate`: a confirmed delivery stays
  so, and retries end. Both leave out deliveries written by a Worker past its lease:
  `update_delivery` compares nothing and the last writer wins.
- `Converges`: every delivery whose target stays published comes to rest.
- `NoLostPublication`: activating an older Draft that never touched the definition does not
  undo what was published of it meanwhile.
- `PublishesInOrder`: the activation audits lead back along the publications, each with a
  lawful authority though it was decided upon an earlier read.
- `OneTaskPerSlot`: occurrences of one start of the schedule are an interval apart. A stale
  tick may reset the due state after a newer one and repeat an occurrence; that starts the
  schedule afresh, which `current` records.
- `StoppedWorkStops`: a disabling publication stops admitted work for good, at the latest
  after the one effect it was already cleared for, even if a later document enables the
  definition again.
- `DueOccurrencesRun`: no occurrence an enabled, authorised definition has room for stays
  due for ever.

Bounds, all CONSTANTS: `MaxGeneration` (claims of a Task), `MaxRounds` (the generation up
to which operators continue it), `MaxRevision` (accepted controls), `MaxAttempts` (after
which no decision is saved). Two controls are the pause and the cancel that escalates it;
`MaxGeneration` admits a claim, a takeover and several continuation rounds; two sources
are a marked one and its sibling, which all of the release rules are about. In
`shared_slots`, `MaxGeneration` is never reached, so the liveness result does not come
from stopping; there `MaxAttempts` and `MaxRounds` bound what operators do, not the Workers.
Deadlock is not checked in any run: operators need not act, and bounded rounds end.

The four protocols have bounds of their own: `MaxFaults` (crashes, lapses under a living
Worker, foreign bytes, refusals), `MaxControls`, `MaxEdits`, `MaxRecoveries`,
`MaxPermissions` (what operators do), `MaxRevisions`, `MaxVersion`, `MaxPublications`,
`MaxTasks` and `MaxClock`. None bounds what a Worker or scheduler does by itself, so no
liveness result comes from running out of one, except that a run of `automation` in which
all Tasks are admitted asks nothing more. One fault is a takeover with the first Worker
alive or dead; a claim that lapses because its Worker is dead costs none, so a transfer
can be taken over repeatedly. A directory with two files has a root, a file that an earlier
pass may have recorded and one that a later pass finds, which is what skips, adoption and
completion are about. Two recipients, two edits and two Workers let a Webhook be redirected
and back between a claim and its answer. Three revisions are a base, the Draft activated
over it and the Draft that has become stale; three publications are an enabling, a
disabling and an enabling one. The runs reach 0.8 million (`files_transfer`), 0.4 million
(`outbox`), 0.8 million (`configuration_revisions`) and 1.5 million (`automation`) distinct
states; the largest takes about a minute.

Fairness, Task engine: weak for each busy Worker, which runs its pass to the end (the code
has no wait inside a pass), and strong for claiming each Task: a resident loop polls
forever, and `_claimable_scheduled_task_locked` takes the oldest eligible Task. Nothing is assumed of
operators, leases or crashes; the liveness run has none of the latter two.

Fairness, the others: weak for what a living Files Worker, Notification Worker, publisher
or scheduler does by itself. They are resident loops, a provider call ends and an HTTP
request has a timeout, and each competes only through rows that someone is always able to
move. Weak as well for time: an abandoned lease of a transfer lapses, and `Tick` of the
outbox goes on. Nothing is assumed of operators, publications, faults, the Tasks a
scheduler admitted, or the clock of the scheduler.

`SlotsComeBack` speaks of one source per Task and no controls. Outside that, slots may
stay: see the findings and the next paragraph.

### Findings

1. `late_pause`: a control of an unowned Task is two transactions. A pause asked again of
   a paused Task is accepted at the same revision; a resume in between clears the request,
   again without a new revision, and an ignore settles the Task as completed. The late
   second transaction finds no token and its revision, and pauses the settled Task.
2. `hidden_effect`: when the Result of a proven effect cannot be published, the pipeline's
   handler publishes the source again without its execution, as a failure with effect
   `none`, and so clears the marker.
3. `raced_decision`: a decision saved between the pass's read and `defer_to_human` makes
   the release refuse; the refusal settles the Task as failed and the decided item too.
4. `stranded_cancel`: a cancel between the last control read and the release keeps the
   claim of a pass that is over; a running Task is never claimed again.

Seen in the model but not made a run, because no text of the repository settles what
should happen: a pause before `begin_work`'s check fails the Task; a recorded unknown
effect with a pending sibling keeps its slot; an execution paused in its middle is
yielded again and again after a requeue; a pause, a resume and an ignore complete a Task
whose scan had not reached every source; a continuation overwrites a decision saved
while it reads its item back. `PROJECT.json` lists each under its line. This is why
`task_rounds` asks for no pause.

Also seen, and likewise recorded under their lines: after a takeover, an item's outcome is
summed over what the new pass collected, so an effect an earlier pass recorded may drop
out of it; a late `acknowledge_pause`, a late `update_delivery` and a late
`reset_automation_definition_due_state`, the three unfenced writes the history variables
above stand for; an observer that dies after the terminal commit loses its announcement.

## 4. The proofs

The kernel's and the engine's proofs are from `KernelAssumption` (finitely many Tasks, a
positive capacity) and `EngineAssumption` (types of the constants), for any number of Tasks,
Workers and Sources.

`TaskKernelProofs`. `KernelTyped`: the rows keep their types. `SlotsCoverWork` follows from
the inductive invariant `KernelInv`: types, `SlotCoversWork` and that a Task never admitted
has no queue entry. `SlotCoversWork` is not inductive alone: the unowned transactions
(requeue, confirm, resume, ignore, unowned control) are safe because an effect marker or a
processing source implies a slot, and a Task whose slot is given back has no holder left.
`CapacityHolds` needs types only, and `FiniteSetTheorems` (lemma `CapacityKept`): a
transaction that takes no slot leaves the set of holders within the old one, and those that
take one (admission, requeue, confirm) find room first and add one Task to the set.
`CancelStands` is an action property of each transaction on its own.

`TaskEngineProofs`. `EngineTyped` is TypeOK of the engine, with one lemma per group of
actions. `EngineImplementsKernel` maps each engine action to the kernel transaction it
calls; the mapping is the identity on the rows, as `TaskEngine` extends `TaskKernel`. So the
kernel theorems become `EngineCapacity`, `EngineSlotsCoverWork` and `EngineCancelStands`.
`Organizers` proves `OneOrganizer`. Its argument: a generation is handed out once, so two
passes never share one; a running Task cannot be claimed again; therefore a working pass
loses its claim only by its own step. Each step of a pass is shown to be *Quiet* (the
claim stands and the pass goes on), *Leaves* (the pass gives up a claim it owns and ends) or
*Begins* (it enters them with `begin_work`), and every other step is *Aside*: it leaves
every claimed, running Task claimed and running.

`TaskEngineProofs` also has `SettledStands` (`SettledUnlessLatePause`): an accepted cancel
settles its Task as cancelled (`CancelSettles`) and a request between its two transactions
still finds its cancel (`RequestsStand`), so of the late settlements only a pause moves a
settled row; every other call asks for a queue state that is not settled.

`TaskEngineItemProofs` is about the sources. None of its properties is inductive, and each
has its own strengthening.

- `EffectsAreNotRepeated` and `EffectsAreAccounted`, from `EffectInv`. What bars a second
  call is the row, not the pass: until its first call a source has no Result (`Fresh`), and
  from then on its row is the marked attempt or has ended (`RowAccounts`). The list of a
  pass was computed once and is used long after, so it must be known that its sources stay
  fresh (`PicksFresh`): they do, because only the pass that owns the Task can spoil them,
  and it takes each off its list. An admitted item of an execution is fresh while the
  execution is open (`RunAccounts`), and a pass of another kind has none beside it
  (`KindFits`).
- `TasksKeepLedger`: the refinement of `EffectLedger`. A marker is at most one source
  (`OneMarked`), and each transaction opens it, closes it, records a Result under it or
  leaves it (`MarkMoves`); with the one step that calls Storage (`TouchMoves`) every step
  of the engine is a step of each Task's ledger or a stutter.
- `ResultsAreHonest` is proved while no lease lapses under its Worker and no publication
  fails, from `HonestInv`: claimed rows have live leases, and a pass that is about to record
  that nothing happened has called no Storage for that source (`Honest`). Crashes, rounds,
  decisions and both controls are inside the theorem. Without a hypothesis it is false:
  in `hidden_effect` a lapse refuses the publication, and a failed write does the same.
- `CompletedTasksAreClosed` is proved while nobody asks for a pause and no publication
  fails, from `ScopeInv`: the list of a scan holds every source without a row
  (`PassScope`), and a Task that waits has started them all (`TaskScope`). Crashes, lapses,
  takeovers, cancels, decisions and executions are inside it. Without a hypothesis it is
  false: a pause and an ignore complete a Task whose scan stopped early (see Findings).
- `HealthyClaimsAreWorked` is proved while no Worker dies, from `ShownInv`. A pass in
  `acknowledging` or `settling` goes by a control it read earlier, and one in `retiring` by
  a marker, so these must be known to stand (`Shows`). A refused settlement as failed must
  be explained by a control or a marker: a row of the machine would accept it, because
  it has no Result and so no recorded attempt (`ResultsKeyed`). Every other step is steady
  for what its pass does not own: it makes no claim healthy and gives none away (`Steady`).
  A dead Worker leaves a healthy row until its lease lapses, so the hypothesis is needed.

The other five modules prove the safety properties their runs check, for any number of Workers,
items, entries, events, Webhooks, principals, revisions, schedulers and Tasks, from the
named assumption of their module (`TransferAssumption`, `OutboxAssumption`,
`RevisionAssumption`, `SchedulerAssumption` with `PublicationAssumption`), which gives the
constants their types.

`FilesTransferProofs`: `TransferTyped` and `NoSecondCall`, from `CallInv`. `OneCallPerEntry`
is not inductive: what keeps others out of an entry is the boundary, the end of the
transfer or the landed bytes (`Standing`). A stalled Worker stays inside its call while
others resolve its boundary, so the owner must be known to have nobody inside the entry
it is about to enter (`Alone`): it just looked, and found nothing landed. That in turn
needs the owner's boundary to be empty outside an operation (`Clear`) and to be its own
inside one (`Inside`), and tokens to be minted once (`Tokens`).

The same module has `PathStaysLocked`, from `CallInv` and `Covered`: from the start
of an item on, the owner's pass has its own lock generation on the path and the item is in
processing, so a late Worker, whose releases compare a generation, and a cancellation,
which spares processing items, both leave it; only before its check of an entry may the
pass meet a cancellation that freed the lock. Steps of a Worker that lost its claim are
shown once to leave every other row and lock alone or to be the recorded pause (`Aside`).

`FilesTransferLedgerProofs`: `TransferKeepsLedger` and `TransferSuccessIsProven`. The first
is the refinement of `EffectLedger`, from `LedgerInv`. No single record keeps an effect from
being repeated: a known one has landed, where the check of the entry meets it (`Known`); one
in doubt stays on the item's row until the row can no longer be resumed (`Doubts`); and the
rows a pass has listed stay current for as long as it owns the transfer (`Snapshot`), so it
never comes to work on an entry in doubt (`Careful`). Every step then stutters, clears the
boundary with at most its own effect recorded, ends the transfer or enters an operation
(`StepForms`). The second is from `ShownInv`: the rows and the passes vouch only for what has
landed (`Vouched`, `Evidence`). The hard case is a directory that a pass finds in place and
does not record: a call that began to make it would still be named by the boundary or be in
doubt (`Halves`), and a resolution that completes the item does so below a directory that
was there when the operation was entered (`RootUnder`).

`OutboxProofs`: `Retargeting`, `ConfirmedStays`, `BoundedAttempts`. Between its claim and
its record a Worker's copy names the row's recipient, and as long as nobody has written
the row since (equal stamps) the row is still that delivery with those attempts
(`Holding`); a waiting row still has an attempt left (`Sound`).

`ConfigurationRevisionsProofs`: `OneActiveRevision` and `NothingPublishedIsLost`. An
unedited Draft says what its base says (`Faithful`), which survives a validation written
back late because such a validation carries what its row says (`Current`). `PublishedInOrder`
is the refinement of `Publications`, from `OrderInv`: every revision is later than the one it
was taken from and than the one its audit replaced, and both of these are published
(`Ordered`); an activation in flight names an authority that is lawful for its Draft, unless
the Draft or the Active revision has changed and it will be refused (`Decided`). The published sequence is read off the rows by following a recursive
function back from the Active revision. The library's induction theorems are out of reach
here, so what it computes is proved by the least counterexample: the revisions for which a
claim fails have a least element (`WFMin` over the strict order), and that element's
predecessor satisfies the claim (`Least`, `ChainExists`, `LinksAre`).

`AutomationSchedulerProofs`: `SlotsAdmittedOnce` from a due state ahead of every occurrence
handed out (`Ahead`); `WorkStops` because a disabling document stays between a pin and the
latest one for ever, so a Task that acted after it is refused at its next boundary
(`Halting`).

Only model-checked: `SlotsComeBack`, `Settles`, `Converges` and `DueOccurrencesRun`:
liveness under fairness, and ENABLED with it, are outside what the provers do. The
properties of the four runs that expect a violation (`SettledIsFinal`, `HonestResults`
without its hypotheses, `DecidedWorkIsTried`, `NoAbandonedSlot`) are false of the code, so
there is nothing to prove; `SettledStands`, `ResultsAreHonest` and `HealthyClaimsAreWorked`
are what does hold in their place.

## 5. What is not modelled

Components 8 and 14 to 17, as the inventory says. Of the modelled ones:

- Task engine: the Files preparation pass (`_run_discovery`) with its part of controls and
  resumes, admission dedupe by request identity, source ownership across Tasks, file
  locks, the configuration pin, the frozen evidence of the first stage, counters, messages
  and audits. A Task has one unfinished manual execution at a time.
- Files transfers: Move and Delete, roots of one batch that collide, an authority or a
  Storage that cannot be read while an operation is resolved; the locks that organizing
  Workers take. One transfer at a time.
- Outbox: signatures and bodies, audits, the order in which due rows are taken.
- Configuration: import and the first Draft before any Active, setup checks and previews.
  One definition per document.
- Automation: Run once, legacy schedules, modes and Resource Library checks, cron
  arithmetic, explicit grants with their expiry, manual execution authorizations.

## Running

    tlc -config task_items.cfg MCTaskEngine
    tlapm TaskEngineProofs.tla

A run of section 3 is `tlc -config <run>.cfg <module>`. The module is
`FilesTransferProperties` for `files_transfer`, `Outbox` for `outbox`,
`ConfigurationRevisions` for `configuration_revisions`, `AutomationScheduler` for
`automation`, and `MCTaskEngine` for the eight others.
