# A TLA+ model of the agent platform API

This directory holds the formal model of the API in `src/`: TLA+ modules
translated from its code, TLC configurations that check them on small
instances, and theorems that TLAPS checks for every instance.

## The system

One Node process serves HTTP, WebSocket and MCP requests, keeps its state in
SQLite (`better-sqlite3`, synchronous) and drives containers or micro-VMs
through a provider. Its concurrency is that of an event loop: code between two
`await`s runs alone, a transaction (`uow.run`) never yields, and everything
that was read before an `await` may be stale after it. Domain events are
delivered in process, after the commit, and are lost if the process dies.

| Part | State it keeps | Operations | Hard because | Correct when |
|---|---|---|---|---|
| Sandbox lifecycle (`modules/sandbox/.../sandbox-application.service.ts`, `workflows/provision-sandbox.workflow.ts`) | `sandboxes` rows with a version; in memory: active workflows, cancelled ids, teardowns in flight | create, start, stop, destroy, the detached provision and restart workflows, `finishTask` of an automation | workflow, stop and teardown interleave on one row; provider calls hang, fail late or succeed late; the process restarts | no instance is lost sight of, a row only makes legal moves, the prompt is sent once, teardowns end |
| Resource allocator, queue and pool (`resource-allocator.ts`, `scheduler-queue.ts`, `resource-pool.domain-service.ts`) | `resource_allocations`; in memory: a mutex and its counters | reserve, confirm, release, probe | concurrent reservations, releases that repeat | capacity is never oversold, what is reserved comes back |
| Quota and runtime reconcilers (`quota-reconciler.ts`, `infrastructure/reconcile`) | none of their own | sweep, boot scan | they compare the books with the provider while both change | never release what is in use; release what is not |
| Health monitor | counters of failures | periodic sweep | re-entry against a stop | an instance that stopped is noticed |
| Agent tasks (`workflows/run-agent-task.workflow.ts`) | `agent_tasks` rows, log files | run, resume, cancel, finalize | a lost stream, a restart, a cancel that races the end | the first terminal status wins and is published |
| Automations (`modules/automation`) | rules, runs | tick of the scheduler, manual run, outcomes | overlap, missed slots, retries, crash between two writes | a slot fires once, runs end, counters agree |
| Projects (`modules/project`) | `projects` rows and baseline directories; in memory: runs of the clone workflow, its slots and queue, the registered controllers | create, clone, cancel, retry, convert, sync, delete; a task asks for its project | a detached clone against cancel, retry, conversion and deletion; rows saved from an aggregate read before an await | every clone ends, one run writes a directory, a slot is given up once, ready means on disk |
| Logins (`modules/runtime/.../runtime-application.service.ts`) | in memory: `sessions`, `outcomes`, `inFlight`, `settling`, `retiring` | begin, poll, submit, cancel, sweep, shutdown | the adapter waits in the background while the user pastes; disposals fail; a cancel races the store | the helper's sessions stay within the limit and are closed; a login is stored once and told so |
| Credentials (`modules/credential`), the refresh scanner, the credential-revoked handler | `credentials` and `credential_sandbox_bindings` rows; in memory: the bindings being cleared | store, revoke, inject, refresh; handler: clear, retry | a credential is revoked or replaced while it is injected, refreshed or torn down | a revoked credential leaves every instance in the end; a revoked row holds no ciphertext |
| Images (`modules/image`) | `images` and `image_manifests` rows, one per version; `sandboxes.image_ref` | register, seed at boot, validate again, switch, configure, delete; a task asks for its image | the registry answers late and about a tag that moves; a validation saves the row it read before; a version is deleted while a task is on its way | one active version per tag, a version says the truth of its bits, a task's version exists |
| Terminals (`modules/terminal`) | in memory: the attachments of the gateway and the sessions of the waiting-input detector; in the sandbox: tmux sessions | connect, input, output, exit, disconnect, close a shell; the workflow starts the agent's session | a client leaves while its terminal is opened; output is batched; the task is started, stopped and failed meanwhile | no stream without a client, all output before the end, a task waits for input exactly when all its terminals do |
| Passcode, audit, events, system | rows of their own | see `PROJECT.json` | | |

`PROJECT.json` lists every part with its files and whether it is modelled,
and under `hazards` the places where the code can go wrong in a way tests
hardly reach.

## Modules

### SandboxLifecycle

The core: the row of a sandbox, its workflow, its teardown, its requests, the
instance and the directory outside the process.

| Variable | In the code |
|---|---|
| `status version handle consumed failOp finished` | columns of `sandboxes` (`handle`: `providerSandboxId` is set; `consumed`: the first prompt is not pending; `finished`: `automationFinishedAt`) |
| `wpc kind wver cancelled` | `ProvisionSandboxWorkflow`: the await it is suspended at, provision or restart, the version of the aggregate it holds, `cancelled` |
| `tpc tprev force drain keep` | `SandboxApplicationService.teardowns` and the locals of `teardown` |
| `opc over spc` | `start` awaiting the image (with the version it read), `stop` awaiting the provider |
| `inst dir` | the provider's instance, the workspace directory (and its `.retained` marker) |
| `retained quota job` | `retained_volumes`, `resource_allocations`, the cleanup jobs of a deleted project |
| `late` | a `provider.destroy` that passed its deadline and may still succeed |
| `prompted abandoned crashes` | history, for the properties and the bounds |

An action is what happens between two awaits: `CreateDone(s, ok)` is the
answer of `provider.create` with everything the workflow then does before its
next await, the binding of the handle and the advance to `starting` included,
or the whole catch block. Of an aggregate that is held across an await only
the version is kept: every write bumps the row's version, so when the versions
agree the fields agree, and when they do not `saveSync` refuses.

The first prompt need not be consumed when a task runs. The workflow goes to
`session` when it will start the agent with the prompt, and to `attach` when
there is nothing to hand out: the task is headless, its prompt is not pending,
or a session is there already because a terminal was opened while the task was
starting (`terminal-session.service.ts:104-138`,
`provision-sandbox.workflow.ts:778-814`). In the last case the prompt stays
pending, and the task can be stopped and started with it; `PromptAtMostOnce`
covers the start that hands it out later.

Provider calls answer, fail, or never answer. A process restart forgets what
the process held, leaves to the provider what the calls in flight may have
done, and applies what `RuntimeReconciler` may remove.

Left out: resize and rename, the `idle` status (nothing in the code sets it),
the preferences of `create`, the inner steps of the workspace preparation.

### ResourcePool

The arithmetic of `resource-pool.domain-service.ts`, without a state: the
totals after safety margin, overcommitment and platform reservation, what the
registered tasks use together, whether a quota fits, and how many tasks the
capacity endpoint promises. `ArithmeticIsSound` compares the promise with what
`evaluate` then admits, one task after the other; `PoolIsSound` of the
allocator checks it for hosts, policies and reservations at a boundary of one
dimension each, and the promise again for the ledger of every state. Cores are
counted in ten-thousandths, so percentages are exact; the code computes them in
floating point, and rounding there is not modelled.

### ResourceAllocator, ResourceLedger

`ResourceAllocator` is the allocator with its queue and the writes of the
quota reconciler. `queue` and `jobs` are the waiting and the running requests
of `SchedulerQueue` (async-mutex); a job keeps in `seen` what it read of
`resource_allocations` when it entered, and writes some steps later, while
tasks end, projects are deleted (rows and allocations disappear outside the
mutex) or the process dies. `row`, `alloc` and `mark` are the rows; `sweep`
and `look` the sweep of the reconciler and the task whose instance it is
inspecting. What is admitted is what the arithmetic of `ResourcePool` says of
the host `Node`: `Admits` adds up the quotas the job has read and compares each
dimension with the total. The host's cores, memory and disk do not change; how
much of its disk is free does, so a refusal for that is a choice of `Reserve`.
In `MCResourceAllocator` the host has two cores, and the tasks take one and two.

`ResourceLedger` is what the allocator promises: what holds capacity fits, a
task is admitted at most once, what was given back stays so.
`ResourceAllocator` implements it with the active allocations as `holding`,
the released and deleted ones as `over`, and for `Schedulable` the sets of
tasks whose quotas fit on the host together.

### QuotaReconciler

The order in which the reconciler visits the allocations, which
`ResourceAllocator` leaves open: the batch of an incremental sweep, the times
of the last checks (kept as an order, `line`, and a count of the stale ones,
`due`), which a restart forgets, and the allocations whose instance cannot be
inspected and which keep their old time. It shares no variable with
`ResourceAllocator`; `MCResourceAllocator` holds both, and each moves while the
other rests in its initial state.

### AutomationScheduler

Rules, runs and the sweep of `automation.scheduler.ts`.

| Variable | In the code |
|---|---|
| `exists rule` | rows of `automations`: `enabled`, `degraded`, `failureCount`, `nextTriggerAt` (`Never`: null) |
| `runs` | rows of `automation_runs` by rule: `box` is `sandboxId`, `tries` is `retryCount`, `again` says that `retryAt` has come, `slot` is the trigger time it was opened for |
| `boxes` | the sandboxes, by what the launcher's `phaseOf` says of them; `capacity` is a failure with a capacity code |
| `stage todo held began` | the stage of the sweep, the rows it listed, the rules `listDue` returned, the `now` of `fireDue` |
| `at key mine seen` | the await the sweep is suspended at, the run it concerns, the rule it read before, and what it found out about the run before |
| `counted crashes now` | history and bounds |

Awaits of the database alone resolve in a microtask and nothing of another
request gets between; the awaits that yield are `createSandbox`, `startTask`,
`finishTask` (which waits for a teardown), `summarize` (a file) and
`capacityFor`, and `at` is one of these. The scheduler saves the whole rule it
read before the await, as the code does, so requests in between are
overwritten. Time is a tick per slot (a slot that is not handled in its own
tick is late, and `missed`); a degraded rule keeps every `DailyPeriod`-th.
Left out: editing a rule, the calendar of `Schedule`, the notifications, the
batch limit of `listOutcomePending`.

### AgentTask

A headless task: `run-agent-task.workflow.ts`, its row and its log, the
gateway of the `/tasks` channel and the job in the sandbox.

| Variable | In the code |
|---|---|
| `row deleted` | the row of `agent_tasks` (`how`: whether its end was read as an exit or recorded as an error); it goes with the row of its sandbox |
| `job` | what the provider knows: output so far, exit code, the `signals` it was sent and by whom |
| `log` | `stdout.jsonl`, the lines in it |
| `start` | the request in `start()`: it awaits the job, or clears one it could not record |
| `pump` | the detached loop: the await it is suspended at, its copy of the row (`task`), the answer of `readAgentJob` (`upto`, `exited`), the failed reads, `timedOut` |
| `cancel cancels` | the request between the recorded intent and the signal; the bound |
| `late` | `timeoutMs` have passed |
| `subs current index view` | the subscriptions of one socket with their replays, the registered one, the `seqIndex` of the task, and what the client holds |

| Actions | In the code |
|---|---|
| `RunTask JobAccepted StartThrows PersistStart ClearKill ClearRelease` | `start`: the job, then the row, or the job's removal when there is nothing left to attach the row to |
| `TruncateLog ReadAnswers ReadRetries AppendStdout AdvanceAndPersist KillOverdue` | one turn of the pump |
| `Finish AnnounceExit ReleaseAndForget`, `ReadThrows LogThrows KillThrows` | its end, by an exit or by `failWith` |
| `Cancel CancelKill` | `cancel` |
| `Subscribe ReplayReads ReplayDelivers Unsubscribe` | the gateway; `Publish` is what it does with a frame of the pump, `Deliver` what it sends of some frames to the client of a subscription |
| `JobPrints JobExits JobDies JobLost DeadlinePasses DeleteSandbox CrashAndBoot` | the job, the clock, the sandbox's row and the process |

The cursor, the length of the log and the output are all counted in lines (the
code counts bytes, and the reader only ever consumes whole lines); line `i` is
parsed into `Weight[i]` events. Left out: the artifacts (their listing is part
of `Finish`) and their download, session references, stderr, the handshake of
the channel, `shutdown`, a replay whose log cannot be read, and the
`caught_up` frames.

### ProjectClone

The rows and baseline directories of the projects, the runs of
`clone-project.workflow.ts` in their slots, its queue, and the requests of
`project-application.service.ts`.

| Variable | In the code |
|---|---|
| `row source disk` | `cloneStatus` and `sourceType` of the row (`absent`: no row), what the baseline directory holds |
| `clones job` | the runs of `runClone`: the await each is suspended at, whether its signal is aborted, whether its git credential is still to be disposed |
| `activeCount waiting controllers` | the fields of the workflow of these names |
| `emptying syncing removing` | a request between its awaits of the disk: creation of an empty project or conversion (`emptying`), sync, delete |
| `task` | a task of the project: its request, its wait for capacity, its life |
| `deleted tangled cancelled hurried` | history, for the properties |

A row is saved by an upsert of the aggregate that was read before the await,
so a save can bring back a row that was deleted meanwhile; the configuration
`MCProjectDeleted` shows it.

The code loses some cancels. A run that has saved its failure still awaits
`auth.dispose()` (line 237) with its controller registered, and the project can
be retried then. With both slots taken the retried clone waits in the queue,
and `cancel` (lines 92-95) aborts the controller of the old run in vain and
leaves the queue alone, although line 97 says "drop it from the queue so it
never runs". With a slot free the retried clone runs at once, and the `finally`
of the old run (line 240) unregisters its controller, so that `cancel` finds
nothing. Either way the cancelled project is cloned and becomes ready:
`MCProjectCancelLost` shows `CancelIsObeyed` violated. `CancelledIsNotCloned`
therefore leaves out the projects `hurried`, retried while an older run of
theirs had not ended, and claims every other cancel.

Left out of the model: the unique name, the branch list, the progress frames
and the parsing of git's output.

### AuthSessions

The logins of one runtime. A login opens a session in the helper container,
gets a challenge from the vendor's CLI, waits for its token and stores it.

| Variable | In the code |
|---|---|
| `stage` | `beginAuthSession`, between its awaits |
| `entry outcome retiring` | the maps `sessions`, `outcomes`, `retiring`; `inFlight` are the logins of a beginning stage |
| `helper` | the session in the helper |
| `waiting` | the calls of the adapter that wait for the token: in the background, by device code or by the CLI itself, and of a paste |
| `winner joined committed` | `settling`: who stores, who waits for it, and whether the store is done |
| `closing` | the `finally` of `awaitDeviceCompletion`, while it waits for the disposal |
| `expired sweep stopping` | `expiresAt` has passed, a sweep between its two halves, `shuttingDown` |

The tombstone of a login, its entry in `outcomes`, is evicted after
`expiresAt`: by the sweep and by the end of a disposal (`sweepOutcomes`,
`runtime-application.service.ts:101` and `520`), and by whoever asks for it
(`AuthSessionStore.outcome`; `Evicted`, `Poll`). `LoginIsHonest` therefore claims
that a stored login is told so until then, and that nothing but a stored one is
ever told so.

Whether the store succeeds is a choice; what it does to the rows is
`RuntimeCredentials`'. Left out: the parsing of the CLI's output, the
container behind a session, the settings of a mode and the install
orchestrator.

### RuntimeCredentials

The runtime credentials of one runtime in one mode, the sandboxes they are
put into, `credential-revoked.handler.ts` and `credential-refresh.scanner.ts`.

| Variable | In the code |
|---|---|
| `cred blob age fails` | rows of `credentials`: status (`replaced` is `revoked` by a later login), ciphertext, distance from `expiresAt`, `refreshFailures` |
| `bound clearing` | the uncleared rows of `credential_sandbox_bindings`, and those whose sandbox the handler tears down |
| `box held secret` | a sandbox, the credential its workflow prepared, the secrets that are in its instance |
| `making named` | the sandboxes whose `provider.create` is under way, and those whose row has the handle of its instance |
| `job` | the cleanup jobs of a deleted project, by the sandbox whose instance they remove |
| `refresh` | the credential `runOnce` is refreshing |
| `abandoned` | history: the sandboxes of which an instance was left that no row names |
| `line` | history: the login from which a credential descends by replacement |

A replacement moves the bindings of the old row to the new one, in one
transaction: a sandbox keeps the old secret, and the binding by which it is
found when the new credential is revoked. A teardown removes the instance its
row names; a row without a handle is destroyed, and its bindings are cleared,
with no call to the provider (`sandbox-application.service.ts:846-868`,
`credential-revoked.handler.ts:159`). An instance can be behind such a row: a
create answers a workflow that was cancelled (`CreatedLate`: a teardown that
still waits is handed the instance, any other one is removed, or that fails),
or a restart cuts it off (`Restart`; workflows and teardowns leave their rows
`cut`, and the reconciler of the boot may remove what no row in use names). The
deletion of a project takes the bindings of its sandboxes with them, by cascade,
and leaves a named instance to a cleanup job (`DeleteProject`, `JobCleaned`).

So a secret is accounted for by a binding or by a job. What neither covers is
an `abandoned` instance once its sandbox is over. `SecretsAreAccounted` and
`RevokedIsRemoved` leave out exactly that, and `MCCredentialsLost` shows it: the
comment at `credential-revoked.handler.ts:51-54`, by which a binding is cleared
only when its sandbox was actually torn down, does not hold of such an
instance. Left out: git credentials, the choice between two modes,
cryptography.

### ImageCatalogue

The images, their versions and the tasks that refer to them
(`image-application.service.ts`, `image-seeder.ts`, `image-facade.adapter.ts`).

| Variable | In the code |
|---|---|
| `images row` | rows of `images` and of `image_manifests`, by id; `verdict` with the bits it was passed on, `lineage` is `derivedFromDigest` |
| `born` | the ids given out |
| `seeding validating` | `ImageSeeder.seed` and `revalidateImage` awaiting the registry, the latter with the row as it was read |
| `task` | a sandbox from the door (`admitted`) over its row (`live`) to `destroyed`, with its `image_ref` |

Only the registry yields: the awaits of the database resolve in a microtask,
so a registration reads everything after its answer and is one step (`Register`
is `RegisterKnown` or `RegisterNew`), and a switch, a patch or a deletion is
one step, too. `Accepts` is what the unique indexes of the table let in, and
`ReferenceExists` the foreign key of `sandboxes.image_ref`; a save they refuse
changes nothing. Bits are members of a set with their layers, and the registry
may name any of them for any tag at any time. Left out: the alias, versions
registered by digest, rows from before the lineage was stored, the endpoints
that store nothing, the three-layer merge of environments.

### TerminalSessions

The terminals of one interactive task: `terminal.gateway.ts`,
`terminal-session.service.ts`, `waiting-input.detector.ts`, `frame-batcher.ts`,
and the part of `provision-sandbox.workflow.ts` that starts the agent's session.

| Variable | In the code |
|---|---|
| `prov prompt stops` | how far provision or restart is, `initialTask.isPending`, and the bound |
| `tmux` | the sessions in the sandbox: the agent's (with or without the instruction) and the shells |
| `conn` | `handleConnection`: the await each socket's handler is suspended at, its target, whether it creates a missing session, whether the client is there, what it was told last |
| `term` | the stream of a socket and its batcher: read so far, pending, shown |
| `attached` | `attachments`, and with them the sessions of the detector |
| `obs waiting` | what the detector keeps of each (its tail is blank, a prompt or other text; `answered` is history), `waitingSandboxes` |
| `closing` | `closeShell` before and after `kill-session` |

Its definitions are called `SessionsInit`, `SessionsNext`, `SessionsSpec`, so
that one module can reason about both ways to follow an agent.

The end of a session ends the streams attached to it; what they had read may
still come in before `onExit` does. The detector's clock is a choice: any
terminal whose tail is a prompt may have been silent for long. Left out: the
handshake checks, resize, the inventory of shells, the check of a runtime's
tab, shutdown, headless tasks (which the detector ignores), the patterns of
prompts and the decoding of UTF-8.

## Runs

| Run | Question | Bounds |
|---|---|---|
| `lifecycle` | is the instance never lost sight of, is an uncancelled workflow's copy of the row current, does a live instance hold its quota, is the prompt sent once; does every teardown end, does the quota of a destroyed task come back, are the jobs of a deleted project done in the end | one sandbox, 1 restart, rows up to version 11: a full round of provision, stop, start and destroy and half a second one |
| `allocator` | is capacity never oversold, does the sweep spare what runs, does a request get its turn, is the ledger (a release sticks) implemented; is the promised number of tasks admitted, by the arithmetic and in every state; is an allocation whose instance is gone found by the sweeps in the end | two tasks that do not fit together, two waiting requests, 1 restart; three allocations, batches of two, one that cannot be inspected; hosts, policies and reservations at a boundary of one dimension each |
| `scheduler` | do slots fire once and in order, is an outcome recorded once, does the failure policy hold, does a rule move only for a cause (a due slot is fired or missed, only a real failure counts) | one rule, two slots, one retry, 1 restart at any point, every request |
| `scheduler_ends` | does every run end with its outcome recorded, except for a launch that a crash cut off; is every due rule handled | one rule, two slots, one retry, 1 restart at any await, no requests |
| `agent_task` | does a client see each event once and in order over subscriptions, replays and restarts, and the exit once, last and with the row's verdict; does a restart resume exactly; is a cancelled job recorded as killed; is the session kept until the verdict is saved, and the verdict never changed | two lines of one and of two events, 1 restart, 1 cancel, 2 subscriptions, a read that fails is not retried |
| `agent_task_ends` | does every task end, does a client that stays subscribed learn of it | the same lines, every exit code, 1 restart, 1 retry of a read, 1 subscription |
| `project_clone` | has every row that says cloning a run or a place in the queue, does one run write a directory, are slots counted exactly, is a ready project on disk, has an active task a project, is a clone cancelled in time not ready unless its project was retried beside an older run, does every clone end | two projects on the two slots of the code, 1 retry, 1 restart; one project also converts, syncs, is deleted and has a task |
| `auth_sessions` | is the helper's limit kept, does what is stored, settled and, until `expiresAt`, told of a login agree, is none pending after the shutdown, is every session closed | two logins, one by device code and one by paste, one session at a time |
| `credentials` | does a binding or a cleanup job lead to every secret, holds no revoked row ciphertext, does a revoked secret leave every instance in the end that a row named | two credentials after one another, one sandbox, 2 restarts at any await, 2 failures of a refresh; creates that answer late, a deleted project |
| `images` | is the catalogue consistent whatever stale rows are saved, is the version of a task there, are verdict and lineage about the version's own bits | one image of the platform and one of a user, three bits of which one is built from another, 3 rows, 1 validation at a time, one task, 1 restart |
| `terminals` | is every stream held by a client, does who is told of the end see all output, is a task shown as waiting exactly when each of its terminals stands at an unanswered prompt | two windows, the agent's session and one shell, two chunks of output each, one stop and restart |
| `late_instance` | may a destroyed task have an instance? It may | |

Two sandboxes only meet in the deletion of their project, which is a
conjunction over them, and in the capacity of the host, which is
`ResourceAllocator`'s; that two share a credential is `MCCredentialsShared`.
Rules share nothing but the order of a sweep. The
smallest thresholds (`DegradeAt = 1`, `DisableAt = 2`, `MaxAttempts = 1`)
reach degrading, disabling, a queued retry and a used-up budget within the
slots the runs have. A task has one writer of its log and one row; two lines
are enough for a read that returns one or both of them, for a crash between
the append, the publication and the save of either, and, with lines of one and
two events, for numbers that an index by line and an index by event would
confuse. A second subscription is what makes a replay outlive its
subscription and share the index with the next. Two projects
and the two slots of the code meet in every way a run and a queue can: a run
that has saved its failure and disposes of its credential holds a slot, so
that one retry makes two runs of one project, or a clone that waits behind the
old run of its own project, behind the other project, or makes the other wait;
any of them can be cancelled then. Two logins of which one may hold a session
are the least at the limit: the second begins while the first is being
stored, cancelled, or disposed in vain. Two credentials are the least with a
replacement; the secret of the first, the binding of the second and two
failures of a refresh are then apart. Three rows are two versions of one image
beside another image, or a version that is deleted, registered again and then
written back; one tag is enough, since what is unique per tag is so per image
and tag.

Two windows are the least of which one closes the shell of the other and of
which both must wait before the task does; of two chunks one may be shown and
one pending.

The last run is violated on purpose: it states what a comment of the code
says, and `PROJECT.json` (`findings`) quotes it. Further configurations are
kept beside the runs:

| Configuration | What it shows |
|---|---|
| `MCSandboxMoves` | holds: a row moves only along the lifecycle, a session is started only while starting, the failure of a provision survives its compensation, a kept directory is registered (version 13) |
| `MCCredentialsShared` | holds: two sandboxes share the credentials of `credentials` |
| `MCAuthPolled` | a poll may answer success although the store has failed: the entry says so before the store, and after a failure until it is removed or expires |
| `MCImageRevalidated` | a version that was switched off or deleted while it was validated is active again: the row that was read is saved (`image-application.service.ts:354`) |
| `MCImageOvertaken` | the image of a provider may be registered by a user while the seeder waits for the registry, and is then not marked as the platform's |
| `MCTerminalOpened` | (with `-continue`) a terminal opened while the task is starting keeps the instruction from being given; a window that reconnects to a shell being closed is detached without a word; the type invariant holds |
| `MCProjectCancelLost` | a clone cancelled after a retry beside the old run is made and ready: the cancel reaches the controller of the old run, or none |
| `MCProjectDeleted` | a project deleted while it is cloned or synced may have a row again |
| `MCSchedulerOverlap` | two tasks of one rule may run at once: the run skipped for the first is the latest one when the next slot looks |
| `MCSchedulerDisabled` | the scheduler may enable a rule a user disabled: it saves the rule it read before an await |
| `MCSandboxLeft` | (with `-continue`) a failed task may still occupy an instance; an entry of the retained volumes may have no directory |
| `MCSandboxKept` | a kept directory whose registration failed is not picked up again |
| `MCQuotaStarves` | allocations that cannot be inspected keep their place at the front of every batch |
| `MCSchedulerDeleted` | a rule deleted while it is being fired comes back |
| `MCSchedulerLostBox` | a crash while the sandbox of a run is made leaves a sandbox that no run names |
| `MCSchedulerLostRun` | such a run stays pending (`RunEnds`, which is `RunIsSettled` without its exception) |
| `MCAgentTaskCrashed` | (with `-continue`) a crash while the job is being started leaves a job without a row; a job stopped at its deadline may be recorded as failed, when a restart forgets that the pump stopped it |
| `MCCredentialsLost` | a binding is cleared while the secret is in an instance that no row names |

Met while modelling, and in none of the configurations: when a row of
`agent_tasks` goes with its sandbox before the verdict is saved, `failWith`
throws before it publishes an exit (`run-agent-task.workflow.ts:709`); a restart
or stop that fails after the provider started the instance gives the quota
back although the instance runs (`provision-sandbox.workflow.ts:419`); sums of
fractional cores are rounded, so the last task that fits exactly may be refused
(`resource-pool.domain-service.ts:131`).

## Fairness

The `FairSpec`s, and `BothSpec` of `MCResourceAllocator`, assume only what the
process does by itself. `TerminalSessions` has no fairness: its properties are
invariants.

- `SandboxLifecycle`: a step of a teardown is taken (each of its awaits has a
  timer or a local answer), the periodic quota sweep comes round, and a
  cleanup job is retried until the provider and the file system let it
  succeed. No fairness is assumed of provider calls.
- `ResourceAllocator`: the mutex is handed on, and the job inside it, which
  awaits only the local database and the file system, comes back.
- `QuotaReconciler`: the timer of the sweep. `SettledSweep` (used by
  `MCQuotaStarves` only) adds that instances stop changing.
- `AutomationScheduler`: the timer of the sweep and its next stage, some visit
  of those the stage still has, each answer; some retry that waits comes due.
  Provisioning and tasks have deadlines, so some sandbox that is busy moves on.
  Strong fairness of `FinishDone`: a teardown that every sweep tries again
  succeeds at last. No fairness of users, of the clock or of crashes.
- `AgentTask`: the pump takes its next step when it can; a read of a job that
  is gone fails at last; a replay goes on; a signalled job dies, because the
  provider escalates to SIGKILL; `timeoutMs` pass. After a restart running rows
  are taken up (`SANDBOX_RECONCILE_ON_BOOT`, which `main.ts` sets; `ResumeOnBoot`
  in the model). No fairness of the job's output or of users.
- `ProjectClone`: some run takes its next step (git has a deadline, the disk
  answers) or its timer fires; what waits is started when a slot is given up,
  in the same step. No fairness of users.
- `AuthSessions`: an await of the adapter, of the store and of the helper has
  a deadline; `expiresAt` passes; the sweep comes round while the service
  runs. Strong fairness of a disposal that succeeds: one that every sweep
  tries again succeeds at last.
- `RuntimeCredentials`: the handler's timer (15 s), a cleanup job, which is
  retried until it succeeds, and, strongly, a teardown that succeeds. No fairness
  of `provider.create`, of workflows, of refreshes, of users or of time.

## Proofs

`SandboxLifecycle_proofs` proves, for every set of sandboxes and all bounds:

- `TypeCorrect`: the type invariant, by one lemma per group of actions;
- `LifecycleInvariant`: an inductive invariant, per sandbox. `WorkflowInv`: a
  workflow that was not cancelled holds the current version and the row has
  the status the workflow wrote last. `TeardownInv`: a teardown in flight
  means the workflow was cancelled, and from its second step on the row is
  `destroying`. `StartInv`: a start request that still has the current version
  still sees a stopped row. `PromptInv`: a task whose prompt was handed out and
  not recorded as consumed is on no way to a session, and in no status from
  which a start leads back to one; one whose prompt is still pending may be
  started again, and was not sent it. None is inductive alone: a start that
  began for a stopped task finds no such task because of `StartInv`, and a
  destroy cannot outrun a workflow because of `TeardownInv`;
- `WorkflowIsCurrent` and `PromptOnce`: the two properties the runs check
  under the names `UncancelledWorkflowIsCurrent` and `PromptAtMostOnce`.

- `OwnershipInvariant`, a second inductive invariant on top of the first, and
  from it `InstanceOwned` and `LiveInstancePaid` (the run's `InstanceIsOwned`
  and `LiveInstanceHoldsQuota`). `HandleInv`: while a workflow may still bind an
  instance the row has no handle, and a teardown goes past the instance only
  with the handle or when that workflow is over. `OwnedInv`: what it went past
  is gone or given up. `QuotaInv`: an instance that may still come is paid for
  too, and whoever is about to give a quota back finds the row past its life;
- the steps `RowKeepsToTable`, `FailureSurvives` and `SessionStartsInTime`, which
  `MCSandboxMoves` checks as `RowFollowsLifecycle`, `ProvisionFailureSurvives`
  and `SessionOnlyWhileStarting`.

`OneSandbox` reduces each step to the sandbox it acts on.

`ResourceAllocator_proofs` proves, for every finite set of tasks and all their
quotas, every host and every policy:

- `TypeCorrect`;
- `PromiseIsExact` (the run's `PoolIsSound`), by `TimesItFits`: the division of
  the endpoint and the comparison of the scheduler agree on the k-th task, at
  every boundary. What tasks use together is a fold over a set; `SumsExist` and
  `FoldIsSum` show what it computes, and `SchedulableIsClosed` that fewer tasks
  fit whenever more do;
- `AllocatorInvariant`, the inductive invariant. `MutexInv`: at most one job
  is inside, and what holds capacity is among what it read, because outside
  of the mutex allocations only disappear; without it a reservation decided
  on a stale reading could oversell. `RowInv`: an allocation appears with the
  row of its task and goes with it. `QueueInv` and `JobInv`: a task that has no row
  yet has at most one request for capacity, so it is admitted once. `SweepInv`:
  the sweep asks to release as an orphan only what is over, deleted or without
  an instance, and stays right until the job runs;
- from it `CapacityNeverOversold` (what is held is no more than the total, in
  each dimension), `ReleasedIsFinal`, `LiveIsNotOrphaned`, and
  `ImplementsLedger`, the refinement, step by step.

`AgentTask_proofs` is about both ways to follow an agent. Of a headless task
(`AgentTask`) it proves, for every output, weight of lines and number of
subscriptions:

- `TaskInvariant`, the inductive invariant. `StartInv`: the request that
  starts a task comes before its row, its pump and any cancel. `IntentInv`: a
  signal of a cancel has its intent in the row, or there is no row. `CopyInv`:
  the pump's copy agrees with the row in everything only the pump writes.
  `PumpInv`: an exit the
  pump has read has happened, with all the output read, and the session is
  there until the verdict is saved. `CollectInv`: when the pump judges an
  exit, it knows of every cancel that has signalled. `VerdictInv`: what a
  finished row says of its job;
- from it `CancelIsKilled` (the run's `CancelledIsKilled`), `ReleaseIsLast` and
  `VerdictStays`, together `VerdictLast` (the run's `VerdictIsLast`), and, with a
  further invariant `LogInv`, `LogIsOutput`: the log is a beginning of the
  output and holds what the row admits, over crashes at any point.

- `ResumePointExact` (the run's `ResumePointIsExact`), with `SeqInv`: the row, and
  the pump's copy of it, count exactly the events of the lines up to their
  cursor. It rests on what `Parse` computes: `ParseSplit`, that a read may be
  divided anywhere, and `ParseLength`.
- `ViewExact` (the run's `ViewIsExact`), with a fourth invariant, `ViewInv`
  (`ViewInvariant`), about the channel. Every sequence of frames in it is a
  `Flow(a, b, x)`: the events after the a-th to the b-th, then the exit `x` if
  there is one; the lemmas of `Flow` show that what is parsed of the log, appended
  to a buffer, filtered by a replay (`After`) or by `deliver` (`Fresh`) is again
  one. `ClientInv`: a client holds the first `n` events and at most one verdict,
  the row's. `CatchesUp`, of a subscription that still replays: nothing is
  missing between what the replay has read, or will read, and what it keeps
  pending. This is what registering before reading is for, and it holds because
  an event is in the log before it is published. `Reached`, of one
  that follows: neither the pump nor the row is ahead of it, so its exit is
  complete. `IndexInv`: the index that replays share, whichever of them extend it,
  has the number of events of each line. `QuietInv` and `AnnounceInv`: nobody
  follows a task before it has a row, and an announced exit is the row's.

Of the terminals (`TerminalSessions`), for any windows, shells, chunks and stops:

- `TerminalInvariant`, the inductive invariant, per window. `HeldBy`: where the
  handler, its stream and its attachment stand, together. `Counted`: what was
  read is on the screen or in the batcher. `Asks`: a prompt that was read is one
  nobody has answered since, because an answer also empties the batcher;
- from it `StreamsHeld`, `ScreenWhole` and `WaitingTrue` (the run's
  `StreamsAreHeld`, `ScreenIsWhole`, `WaitingIsTrue`).

`AutomationScheduler_proofs` proves, for every set of rules, every period and
policy and with requests and crashes at every await:

- `TypeCorrect`, which needs the invariant (the budget of retries, a queued
  run is one that was not recorded);
- `SchedulerInvariant`, the inductive invariant. `RulesInv` is its heart:
  every value of a rule that may still be saved (the row, the rule held over
  an await, the rules `listDue` returned) is coherent and its next slot is
  later than every slot in the history; a stale save can therefore undo a
  request, which `MCSchedulerDisabled` shows, but not bring a slot
  back. `HistoryInv`: an unended run is not marked as recorded, and the number
  of recordings is the mark. `ListedInv` and `AwaitedInv`: the run that is
  visited or awaited still has the status the stage listed it for, because
  nobody but the sweep changes it; `StageInv`: the run awaited is no longer
  among those to visit;
- from it `SlotsFireInOrder`, and `OutcomeCountedOnce` with `RuleStaysCoherent`,
  which are `OutcomesKept` (the run's `OutcomesAreKept`);
- `RuleMovesOnlyForCause` (the run's `RuleMovesForCause`), step by step.

`ProjectClone_proofs` proves, for any projects, slots, retries and restarts:

- `CloneInvariant`, the inductive invariant: a slot is held by exactly one run
  that is not over, the counter is their number, and equals the limit while a
  clone waits; a queued clone has no run; a run that will still settle its row
  is the only one of its project. Counting runs needs lemmas about the set of
  runs that one step adds, ends or replaces;
- from it `SlotsExact`, `OneWriterAlways`, `CloningBacked`, `TaskHasProject`;
- `ControllersRegistered`: the registered controller is that of a run that has
  not ended; a project not retried beside an older run has at most the run
  asked for last, and it is registered. This is what a cancel in time relies
  on, and what it lacks in the case `CancelledIsNotCloned` leaves out;
- `BaselineInvariant`, on top of both. `BaselineOf`: a baseline is written by a
  clone while the row says cloning, or by a request while it says failed or is
  not there, and by nobody once the row is ready. `GivenUp`: of a clone that
  was cancelled in time no run gets past git, and none waits;
- from it `ReadyHasBaseline` and `CancelledNeverCloned` (the run's
  `ReadyIsOnDisk` and `CancelledIsNotCloned`).

`AuthSessions_proofs` proves, for any logins and any limit:

- `SessionInvariant`, the inductive invariant, per login. `Early`: a login
  without a challenge has left no trace. `Known`: an open session belongs to a
  beginning login, an entry or a disposal, also in the steps between them.
  `StoredOnce`: before the store nothing says so, and afterwards the entry is
  gone and the tombstone says success or has expired, which is why neither a
  second path nor a cancel gets past it.
  `FiniteHeld`: the logins the maps know are at most the limit, because only a
  beginning adds one and it looks at all three maps;
- from it `HelpersBounded` and `LoginHonest`.

`RuntimeCredentials_proofs` proves, for any sandboxes, credentials, failures of
a refresh and restarts:

- `CredentialInvariant`, the inductive invariant. `BindingsLive`: a binding's
  credential is active or was revoked, and only bindings of the latter are
  being cleared, while the teardown of their sandbox is under way. `Backed(b)`:
  while a sandbox is not over, a binding of it `Leads` to every secret in its
  instance and to the one a create under way may leave there; once it is over,
  a secret is left only where a job has the instance or no row named it; a row
  that got as far as `starting` names its instance (`Up`), and nothing is in the
  hands of a workflow before it was stored. With `OneActive`, `blob = Active` and
  `RefreshCounts` it survives a replacement, because a line has one end and its
  bindings move there together;
- from it `SecretsAccounted` (the run's `SecretsAreAccounted`): a binding whose
  credential is active or revoked, or a job, leads to every secret, with the
  exception of abandoned instances stated above.

`ImageCatalogue_proofs` proves, for any images, bits, tags, tasks and numbers
of rows, validations and restarts:

- `CatalogueInvariant`, the inductive invariant. `CopiesMatch`: a row held over
  the registry's answer has the coordinates of the row that is there now under
  its id, or that row is gone, because ids are used once and a save never
  writes a coordinate; two copies of one row agree, so that one may bring the
  row back under the other. `RowsDescend`, `CopiesDescend`: the lineage of
  each leads to a version of a platform's image, which stays because these
  cannot be deleted. `RowHasImage` and `ImageHasRow` tie the tables together;
- from it `CatalogueConsistent`, `TaskKeepsImage` and `VersionIsTrue` (the
  run's `CatalogueIsConsistent`, `TaskHasImage`, `VersionTellsTheTruth`).

The type invariants (`TypeOK`) of SandboxLifecycle, ResourceAllocator,
AutomationScheduler, ProjectClone and ImageCatalogue are theorems, and those of
AuthSessions, RuntimeCredentials and TerminalSessions parts of a proved
invariant; no run repeats them.

Induction over numbers and finite sets is done with a set in the place of a
predicate: `Induction` (from the well-foundedness of `<`) and `SmallestSet`
(from that of strict inclusion) need no operator as a parameter.

Every safety property that a passing run checks is thus a theorem. Only
model-checked is all liveness, because TLAPS does not reason about `ENABLED`; the
quota sweep, whose one property is liveness, has no theorems. The
floating-point rounding of the pool is not modelled at all.

## Not modelled

- The translation to external programs and the host: the providers, the
  runtime adapters, the OCI client, git's output, diagnostics. The modules
  model them by what their calls may answer.
- Mapping without a state of its own: HTTP and MCP controllers, DTOs, schemas,
  contracts, the shared kernel, configuration, log files, the audit
  projection, webhook delivery, and the frontends and scripts. They are the
  larger part of the lines of the repository, and have no steps to interleave.
- Stateful parts that are still to be modelled: the preset provisioner, the
  passcode, the health monitor, the install orchestrator.
- Of modelled parts: each section above says what is left out.

## Plan

1. The health monitor over `SandboxLifecycle`'s requests: a monitor that fails
   a sandbox behind a stop.
2. The preset provisioner beside `ImageCatalogue`; the install orchestrator.
