---------------------------- MODULE ProjectClone ----------------------------
(***************************************************************************)
(* The projects: their rows and baseline directories, the clones the       *)
(* background workflow runs in its slots, its queue, and the requests that *)
(* create, retry, cancel, convert, sync and delete.                        *)
(*                                                                         *)
(* A handler runs without interruption from one await of a file, of git or *)
(* of the network to the next; awaits of the database alone do not yield.  *)
(* saveSync is an upsert: saving an aggregate read before such an await    *)
(* writes its old state, and inserts the row again if it was deleted.      *)
(***************************************************************************)
EXTENDS Naturals, Sequences, SequencesExt, FiniteSets, FiniteSetsExt

CONSTANTS
  Project,                \* ids of projects; an id is used once
  MAX_CONCURRENT_CLONES,
  MAX_PROJECTS,
  MaxRetries,             \* bound: requests to clone again
  Busy,                   \* bound: projects asked for more than clones
  MaxCrashes              \* bound: restarts of the process

ASSUME ProjectConstants ==
  /\ MAX_CONCURRENT_CLONES \in Nat \ {0} /\ MAX_PROJECTS \in Nat
  /\ MaxRetries \in Nat /\ Busy \subseteq Project /\ MaxCrashes \in Nat

VARIABLES
  row,          \* cloneStatus of the project's row, "absent" without one
  source,       \* its sourceType
  disk,         \* what the baseline directory holds
  clones,       \* how many clones of the project were enqueued so far
  job,          \* the runs of the workflow: [pc, aborted, auth]
  activeCount,
  waiting,
  controllers,  \* the run whose AbortController is registered, 0 for none
  emptying,     \* the request that creates the project empty or converts it
  syncing,      \* a sync of the project's baseline is running
  removing,     \* a delete of the project is removing its baseline
  task,         \* a task of the project, from its request to its end
  deleted,      \* history: the projects a user deleted
  tangled,      \* history: retried while a conversion of it was running
  cancelled,    \* history: cancelled in time, and not retried since
  hurried,      \* history: retried before an older run of it had ended
  retries,
  crashes

workflow == <<job, activeCount, waiting, controllers>>
requests == <<emptying, syncing, removing, task>>
history == <<deleted, tangled, cancelled, hurried>>
counters == <<retries, crashes>>
vars == <<row, source, disk, clones, workflow, requests, history, counters>>

Attempt == 1..(MaxRetries + 1)
Off == [pc |-> "off", aborted |-> FALSE, auth |-> FALSE]
Started == [pc |-> "prepare", aborted |-> FALSE, auth |-> FALSE]
Preparing == {"prepare", "git"}
Working == Preparing \cup {"measure", "wipe"}
Jobs == [pc : Working \cup {"dispose", "off"}, aborted : BOOLEAN, auth : BOOLEAN]

CanTransition == {<<"cloning", "ready">>, <<"cloning", "failed">>,
                  <<"failed", "cloning">>, <<"failed", "ready">>}

Init ==
  /\ row = [p \in Project |-> "absent"] /\ source = [p \in Project |-> "empty"]
  /\ disk = [p \in Project |-> "none"] /\ clones = [p \in Project |-> 0]
  /\ job = [p \in Project |-> [k \in Attempt |-> Off]]
  /\ activeCount = 0 /\ waiting = <<>> /\ controllers = [p \in Project |-> 0]
  /\ emptying = [p \in Project |-> "no"]
  /\ syncing = [p \in Project |-> FALSE] /\ removing = [p \in Project |-> FALSE]
  /\ task = [p \in Project |-> "no"]
  /\ deleted = {} /\ tangled = {} /\ cancelled = {} /\ hurried = {}
  /\ retries = 0 /\ crashes = 0

-----------------------------------------------------------------------------
(* The rows and the directories *)

(* saveSync, and deleteSync *)
Saved(p, status) == [row EXCEPT ![p] = status]

(* removeDir: a directory that cannot be removed is left *)
RemoveDir(p) == \E left \in {"none", disk[p]} : disk' = [disk EXCEPT ![p] = left]
CreateDir(p) == disk' = [disk EXCEPT ![p] = IF @ = "none" THEN "empty" ELSE @]

(* prepareGitAuth: no handle without a credential for the host *)
AuthHandles == BOOLEAN

-----------------------------------------------------------------------------
(* The slots and the queue *)

Queued(p) == \E i \in DOMAIN waiting : waiting[i] = p

(* runClone up to its first await of the disk, of clone number k of p *)
Begin(p, k, jobs, registered) ==
  /\ job' = [jobs EXCEPT ![p][k] = Started]
  /\ controllers' = [registered EXCEPT ![p] = k]

\* A variant that counts one run too many.
HasSlotInclusive == activeCount <= MAX_CONCURRENT_CLONES
HasSlot == activeCount < MAX_CONCURRENT_CLONES

\* A variant that starts a run without taking a slot.
EnqueueUncounted(p) ==
  /\ clones' = [clones EXCEPT ![p] = @ + 1]
  /\ Begin(p, clones[p] + 1, job, controllers)
  /\ UNCHANGED <<activeCount, waiting>>

Enqueue(p) ==
  /\ clones' = [clones EXCEPT ![p] = @ + 1]
  /\ IF HasSlot
     THEN /\ activeCount' = activeCount + 1
          /\ Begin(p, clones[p] + 1, job, controllers)
          /\ UNCHANGED waiting
     ELSE /\ waiting' = Append(waiting, p)
          /\ UNCHANGED <<job, activeCount, controllers>>

(* The queued projects whose row still says cloning, once the rows are r;  *)
(* a run of another one gives its slot to the next in the queue at once.   *)
Startable(r) == {i \in DOMAIN waiting : r[waiting[i]] = "cloning"}

(* The end of run k of p, once the rows are r: its finally, and startNext *)
Finish(p, k, r) ==
  LET ended == [job EXCEPT ![p][k] = Off]
      unregistered == [controllers EXCEPT ![p] = 0]
  IN \/ /\ Startable(r) = {}
        /\ waiting' = <<>> /\ activeCount' = activeCount - 1
        /\ job' = ended /\ controllers' = unregistered
     \/ \E i \in Startable(r) :
          /\ \A h \in Startable(r) : i <= h
          /\ waiting' = SubSeq(waiting, i + 1, Len(waiting))
          /\ Begin(waiting[i], clones[waiting[i]], ended, unregistered)
          /\ UNCHANGED activeCount

-----------------------------------------------------------------------------
(* One run of the workflow *)

(* assertDiskSpace, prepareGitAuth and removeDir; "partial" is what git    *)
(* has written so far                                                      *)
Prepared(p, k) ==
  /\ job[p][k].pc = "prepare"
  /\ \E auth \in AuthHandles :
       job' = [job EXCEPT ![p][k].pc = "git", ![p][k].auth = auth]
  /\ disk' = [disk EXCEPT ![p] = "partial"]
  /\ UNCHANGED <<row, source, clones, activeCount, waiting, controllers, requests, history,
                 counters>>

\* A variant whose git command does not listen to the signal.
NeverKilled(p, k) == FALSE
Killed(p, k) == job[p][k].aborted

(* git fails when its directory is taken away *)
Cloned(p, k) ==
  /\ job[p][k].pc = "git" /\ ~Killed(p, k) /\ disk[p] = "partial"
  /\ job' = [job EXCEPT ![p][k].pc = "measure"]
  /\ disk' = [disk EXCEPT ![p] = "full"]
  /\ UNCHANGED <<row, source, clones, activeCount, waiting, controllers, requests, history,
                 counters>>

(* no space, no credential, git fails or is killed by the signal *)
Failed(p, k) ==
  /\ job[p][k].pc \in Preparing
  /\ \E auth \in AuthHandles :
       /\ job[p][k].pc = "git" => auth = job[p][k].auth
       /\ job' = [job EXCEPT ![p][k].pc = "wipe", ![p][k].auth = auth]
  /\ UNCHANGED <<row, source, disk, clones, activeCount, waiting, controllers, requests, history,
                 counters>>

(* mutate: a move the state machine does not allow is skipped, and so is a *)
(* row that is gone                                                        *)
Mutate(p, to) == IF <<row[p], to>> \in CanTransition THEN Saved(p, to) ELSE row

(* mutate, then the finally at once unless a handle is to be disposed *)
Settle(p, k, to) ==
  /\ row' = Mutate(p, to)
  /\ IF job[p][k].auth
     THEN /\ job' = [job EXCEPT ![p][k].pc = "dispose"]
          /\ UNCHANGED <<activeCount, waiting, controllers>>
     ELSE Finish(p, k, row')
  /\ UNCHANGED <<source, clones, requests, history, counters>>

Measured(p, k) == job[p][k].pc = "measure" /\ UNCHANGED disk /\ Settle(p, k, "ready")

Wiped(p, k) ==
  /\ job[p][k].pc = "wipe"
  /\ RemoveDir(p)
  /\ Settle(p, k, "failed")

Disposed(p, k) ==
  /\ job[p][k].pc = "dispose"
  /\ Finish(p, k, row)
  /\ UNCHANGED <<row, source, disk, clones, requests, history, counters>>

\* A variant without the timer.
NoTimer(p, k) == FALSE

(* The timer of the run; after its git command nothing stops at the signal *)
TimesOut(p, k) ==
  /\ job[p][k].pc \in Preparing /\ ~job[p][k].aborted
  /\ job' = [job EXCEPT ![p][k].aborted = TRUE]
  /\ UNCHANGED <<row, source, disk, clones, activeCount, waiting, controllers, requests, history,
                 counters>>

-----------------------------------------------------------------------------
(* The requests *)

Fresh(p) == row[p] = "absent" /\ p \notin deleted /\ disk[p] = "none" /\ emptying[p] = "no"
RoomForProject == Cardinality({p \in Project : row[p] # "absent"}) < MAX_PROJECTS

CreateGit(p) ==
  /\ Fresh(p) /\ RoomForProject
  /\ row' = Saved(p, "cloning") /\ source' = [source EXCEPT ![p] = "git"]
  /\ Enqueue(p)
  /\ UNCHANGED <<disk, requests, history, counters>>

CreateEmpty(p) ==
  /\ Fresh(p) /\ RoomForProject
  /\ emptying' = [emptying EXCEPT ![p] = "mkdir"]
  /\ UNCHANGED <<row, source, disk, clones, workflow, syncing, removing, task, history, counters>>

\* A variant that converts a project that is being cloned.
CanConvertSooner(p) == row[p] \in {"cloning", "failed"}
CanConvert(p) == row[p] = "failed"

ConvertToEmpty(p) ==
  /\ CanConvert(p) /\ emptying[p] = "no"
  /\ emptying' = [emptying EXCEPT ![p] = "rm"]
  /\ UNCHANGED <<row, source, disk, clones, workflow, syncing, removing, task, history, counters>>

ConvertRemoves(p) ==
  /\ emptying[p] = "rm" /\ emptying' = [emptying EXCEPT ![p] = "mkdir"]
  /\ RemoveDir(p)
  /\ UNCHANGED <<row, source, clones, workflow, syncing, removing, task, history, counters>>

SavesEmpty(p) ==
  /\ emptying[p] = "mkdir" /\ emptying' = [emptying EXCEPT ![p] = "no"]
  /\ CreateDir(p)
  /\ row' = Saved(p, "ready") /\ source' = [source EXCEPT ![p] = "empty"]
  /\ UNCHANGED <<clones, workflow, syncing, removing, task, history, counters>>

(* The directory cannot be made: the request fails. *)
CannotEmpty(p) ==
  /\ emptying[p] = "mkdir" /\ emptying' = [emptying EXCEPT ![p] = "no"]
  /\ UNCHANGED <<row, source, disk, clones, workflow, syncing, removing, task, history, counters>>

\* A variant that retries a clone that goes on.
CanRetrySooner(p) == row[p] \in {"cloning", "failed"} /\ source[p] = "git"
CanRetry(p) == row[p] = "failed" /\ source[p] = "git"

RetryClone(p) ==
  /\ retries < MaxRetries /\ retries' = retries + 1
  /\ CanRetry(p)
  /\ row' = Saved(p, "cloning")
  /\ Enqueue(p)
  /\ tangled' = IF emptying[p] = "no" THEN tangled ELSE tangled \cup {p}
  /\ cancelled' = cancelled \ {p}
  /\ hurried' = IF \A k \in Attempt : job[p][k].pc = "off"
                THEN hurried \ {p} ELSE hurried \cup {p}
  /\ UNCHANGED <<source, disk, requests, deleted, crashes>>

Dequeue(p) ==
  IF Queued(p)
  THEN \E i \in DOMAIN waiting :
         /\ waiting[i] = p /\ \A h \in 1..(i - 1) : waiting[h] # p
         /\ waiting' = RemoveAt(waiting, i)
  ELSE UNCHANGED waiting

(* cancel: the signal of the registered run, else out of the queue *)
Abort(p) ==
  \/ /\ controllers[p] # 0
     /\ job' = [job EXCEPT ![p][controllers[p]].aborted = TRUE]
     /\ UNCHANGED waiting
  \/ /\ controllers[p] = 0
     /\ Dequeue(p)
     /\ UNCHANGED job

(* The clone asked for last waits in the queue, or its git command has not *)
(* ended: later a run does not look at its signal any more.                *)
InTime(p) == Queued(p) \/ job[p][clones[p]].pc \in Preparing

\* A variant that only takes the project out of the queue.
CancelledSilently(p) == row
CancelledRow(p) == IF controllers[p] = 0 /\ Queued(p) THEN Mutate(p, "failed") ELSE row

CancelClone(p) ==
  /\ row[p] = "cloning"
  /\ Abort(p)
  /\ row' = CancelledRow(p)
  /\ cancelled' = IF InTime(p) THEN cancelled \cup {p} ELSE cancelled
  /\ UNCHANGED <<source, disk, clones, activeCount, controllers, requests, deleted, tangled,
                 hurried, counters>>

StartSync(p) ==
  /\ row[p] = "ready" /\ source[p] = "git" /\ ~syncing[p]
  /\ syncing' = [syncing EXCEPT ![p] = TRUE]
  /\ UNCHANGED <<row, source, disk, clones, workflow, emptying, removing, task, history, counters>>

(* The fetch or the measuring ends: an error, or the aggregate is saved.  *)
EndSync(p) ==
  /\ syncing[p] /\ syncing' = [syncing EXCEPT ![p] = FALSE]
  /\ \/ UNCHANGED <<row, source>>
     \/ row' = Saved(p, "ready") /\ source' = [source EXCEPT ![p] = "git"]
  /\ UNCHANGED <<disk, clones, workflow, emptying, removing, task, history, counters>>

(* A task asks for the project, then for capacity; its row is inserted in  *)
(* the transaction that looks at the project again.                        *)
RequestTask(p) ==
  /\ row[p] = "ready" /\ task = [q \in Project |-> "no"]    \* bound: one at a time
  /\ task' = [task EXCEPT ![p] = "admitting"]
  /\ UNCHANGED <<row, source, disk, clones, workflow, emptying, syncing, removing, history,
                 counters>>

\* A variant that trusts what was read before the capacity checks.
AcceptsUnseen(p) == TRUE
Accepts(p) == row[p] = "ready"

InsertTask(p) ==
  /\ task[p] = "admitting"
  /\ task' = [task EXCEPT ![p] = IF Accepts(p) THEN "active" ELSE "no"]
  /\ UNCHANGED <<row, source, disk, clones, workflow, emptying, syncing, removing, history,
                 counters>>

EndTask(p) ==
  /\ task[p] = "active" /\ task' = [task EXCEPT ![p] = "no"]
  /\ UNCHANGED <<row, source, disk, clones, workflow, emptying, syncing, removing, history,
                 counters>>

(* A project with active tasks is refused, and one with retained volumes.  *)
(* The clone of a queued project was read before its row is deleted and is *)
(* saved as failed after that.                                             *)
DeleteProject(p, keepBaseline) ==
  /\ row[p] # "absent" /\ task[p] # "active" /\ ~removing[p]
  /\ IF row[p] = "cloning" THEN Abort(p) ELSE UNCHANGED <<job, waiting>>
  /\ row' = Saved(p, IF row[p] = "cloning" /\ controllers[p] = 0 /\ Queued(p)
                     THEN "failed" ELSE "absent")
  /\ removing' = [removing EXCEPT ![p] = ~keepBaseline]
  /\ deleted' = deleted \cup {p} /\ tangled' = tangled \ {p} /\ cancelled' = cancelled \ {p}
  /\ hurried' = hurried \ {p}
  /\ UNCHANGED <<source, disk, clones, activeCount, controllers, emptying, syncing, task, counters>>

DeleteRemoves(p) ==
  /\ removing[p] /\ removing' = [removing EXCEPT ![p] = FALSE]
  /\ RemoveDir(p)
  /\ UNCHANGED <<row, source, clones, workflow, emptying, syncing, task, history, counters>>

-----------------------------------------------------------------------------
(* The process dies and starts again: reconcileInterrupted *)
Restart ==
  /\ crashes < MaxCrashes /\ crashes' = crashes + 1
  /\ row' = [p \in Project |-> IF row[p] = "cloning" THEN "failed" ELSE row[p]]
  /\ job' = [p \in Project |-> [k \in Attempt |-> Off]]
  /\ activeCount' = 0 /\ waiting' = <<>> /\ controllers' = [p \in Project |-> 0]
  /\ emptying' = [p \in Project |-> "no"]
  /\ syncing' = [p \in Project |-> FALSE] /\ removing' = [p \in Project |-> FALSE]
  /\ task' = [p \in Project |-> IF task[p] = "active" THEN "active" ELSE "no"]
  /\ UNCHANGED <<source, disk, clones, history, retries>>

RunProceeds(p, k) ==
  \/ Prepared(p, k) \/ Cloned(p, k) \/ Failed(p, k)
  \/ Measured(p, k) \/ Wiped(p, k) \/ Disposed(p, k)

RequestProceeds(p) ==
  \/ ConvertRemoves(p) \/ SavesEmpty(p) \/ CannotEmpty(p) \/ EndSync(p) \/ DeleteRemoves(p)
  \/ InsertTask(p) \/ EndTask(p)

UserAsks(p) ==
  \/ CreateGit(p) \/ RetryClone(p) \/ CancelClone(p)
  \/ /\ p \in Busy
     /\ \/ CreateEmpty(p) \/ ConvertToEmpty(p) \/ StartSync(p) \/ RequestTask(p)
        \/ \E keepBaseline \in BOOLEAN : DeleteProject(p, keepBaseline)

Next ==
  \/ \E p \in Project, k \in Attempt : RunProceeds(p, k) \/ TimesOut(p, k)
  \/ \E p \in Project : RequestProceeds(p) \/ UserAsks(p)
  \/ Restart

Spec == Init /\ [][Next]_vars

(* Files answer; git may hang until the timer of the run kills it.  A run  *)
(* takes a few steps, so that it is enough that some run goes on or some   *)
(* timer fires.                                                            *)
RunAnswers(p, k) == (job[p][k].pc = "git" => job[p][k].aborted) /\ RunProceeds(p, k)

FairSpec ==
  Spec /\ WF_vars(\E p \in Project, k \in Attempt : RunAnswers(p, k) \/ TimesOut(p, k))

-----------------------------------------------------------------------------
(* Properties *)

Works(p, k) == job[p][k].pc \in Working

(* Every variable has its type: the rows, the directories, the runs, the   *)
(* queue and the registered controllers of the clone workflow.             *)
TypeOK ==
  /\ row \in [Project -> {"absent", "cloning", "ready", "failed"}]
  /\ source \in [Project -> {"git", "empty"}]
  /\ disk \in [Project -> {"none", "empty", "partial", "full"}]
  /\ clones \in [Project -> 0..(MaxRetries + 1)]
  /\ job \in [Project -> [Attempt -> Jobs]]
  /\ activeCount \in Nat /\ waiting \in Seq(Project)
  /\ controllers \in [Project -> 0..(MaxRetries + 1)]
  /\ emptying \in [Project -> {"no", "rm", "mkdir"}]
  /\ syncing \in [Project -> BOOLEAN] /\ removing \in [Project -> BOOLEAN]
  /\ task \in [Project -> {"no", "admitting", "active"}]
  /\ deleted \subseteq Project /\ tangled \subseteq Project /\ cancelled \subseteq Project
  /\ hurried \subseteq Project
  /\ retries \in 0..MaxRetries /\ crashes \in 0..MaxCrashes

(* No project is left cloning by nobody: behind a row that says so there   *)
(* is a run of the workflow that will settle it or a place in the queue,   *)
(* through retries, cancellations, stale saves and restarts.               *)
CloningIsBacked ==
  \A p \in Project : row[p] = "cloning" => Queued(p) \/ \E k \in Attempt : Works(p, k)

(* A baseline has one writer of its own: no two runs of the workflow work  *)
(* in one directory, none does while the project waits for another, and    *)
(* none while its row says failed, when it can be retried or converted.    *)
OneWriter ==
  \A p \in Project, k \in Attempt :
    Works(p, k) => /\ row[p] # "failed" /\ ~Queued(p)
                   /\ \A h \in Attempt : Works(p, h) => h = k

(* The slots are counted exactly and none is idle while a clone waits: a   *)
(* run gives its slot up once, whichever way it ends.                      *)
SlotsAreExact ==
  /\ activeCount = Cardinality({a \in Project \X Attempt : job[a[1]][a[2]].pc # "off"})
  /\ activeCount <= MAX_CONCURRENT_CLONES
  /\ waiting # <<>> => activeCount = MAX_CONCURRENT_CLONES

(* A task can start on what a ready project has on disk: the whole         *)
(* repository of a git project, a directory for an empty one.  Not claimed *)
(* of a project deleted under a request still running, nor of one retried  *)
(* while it was being converted, whose saved row the requests overwrite.   *)
ReadyIsOnDisk ==
  \A p \in Project \ (deleted \cup tangled) :
    row[p] = "ready" => IF source[p] = "git" THEN disk[p] = "full" ELSE disk[p] # "none"

(* A task is active only under a project that is there and ready, whatever *)
(* is deleted, converted or synced while the task waits for capacity and   *)
(* as long as it lasts.                                                    *)
ActiveTaskHasProject == \A p \in Project : task[p] = "active" => row[p] = "ready"

(* A clone cancelled while queued or before its git command has ended      *)
(* never makes the project a ready git project: it fails, and stays failed *)
(* until it is retried or converted.  Not claimed of a project retried     *)
(* while an older run of it still disposed of its credential: a cancel     *)
(* reaches the controller of the old run, which no longer listens, instead *)
(* of the queue or of the new run, and the finally of the old run          *)
(* unregisters the controller of the new one.  See CancelIsObeyed.         *)
CancelledIsNotCloned ==
  \A p \in cancelled \ (deleted \cup hurried) : row[p] = "ready" => source[p] = "empty"

(* The same of every cancel in time: "queued-but-not-started: drop it from *)
(* the queue so it never runs" (clone-project.workflow.ts:97).  The code   *)
(* does not keep it after a retry beside an older run.                     *)
CancelIsObeyed ==
  \A p \in cancelled \ deleted : row[p] = "ready" => source[p] = "empty"

(* A deleted project has no row: "the row is about to disappear".          *)
DeletedIsGone == \A p \in deleted : row[p] = "absent"

(* Every clone ends, also one that has to wait for a slot.                 *)
CloneEnds == \A p \in Project : row[p] = "cloning" ~> row[p] # "cloning"

=============================================================================
