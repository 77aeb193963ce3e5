-------------------------- MODULE ResourceAllocator --------------------------
(***************************************************************************)
(* The ResourceAllocator and its SchedulerQueue: reservations, releases    *)
(* and the writes of the QuotaReconciler go through one first-in-first-out *)
(* mutex; each reads the ledger, awaits, and writes.  Deleting a project   *)
(* deletes its tasks, and their allocations with them, outside of that     *)
(* queue; the process may die at any time.                                 *)
(*                                                                         *)
(* What fits is the arithmetic of ResourcePool, on a host whose cores,     *)
(* memory and disk do not change; that its disk is full is a refusal that  *)
(* may come at any time.                                                   *)
(***************************************************************************)
EXTENDS ResourcePool, Sequences

CONSTANTS
  Node, NodePolicy, Platform,  \* the host, the policy, what the platform reserves
  MaxQueue,      \* bound: nothing is asked for while so many requests wait
  MaxCrashes     \* bound: restarts of the process

ASSUME AllocatorConstants ==
  /\ Node \in Host /\ NodePolicy \in Policy /\ Platform \in Reservation
  /\ MaxQueue \in Nat /\ MaxCrashes \in Nat

VARIABLES
  row,       \* a task: absent, live, over (failed or destroyed), deleted
  missing,   \* the tasks whose instance the provider does not have any more
  alloc,     \* the allocation: none, active, released, dropped (with its task)
  mark,      \* its reconciliation_status
  queue,     \* the waiting requests, oldest first
  jobs,      \* the requests inside the mutex: [kind, who, seen]
  sweep,     \* the allocations the reconciler has yet to check
  look,      \* the task whose instance it is inspecting
  crashes

vars == <<row, missing, alloc, mark, queue, jobs, sweep, look, crashes>>

Nobody == "nobody"
Kinds == {"create", "destroy", "confirm", "orphan"}
Request == [kind : Kinds, who : Sandboxes]
Job == [kind : Kinds, who : Sandboxes, seen : SUBSET Sandboxes]

Holding == {s \in Sandboxes : alloc[s] = "active"}

Init ==
  /\ row     = [s \in Sandboxes |-> "absent"]
  /\ missing = {}
  /\ alloc   = [s \in Sandboxes |-> "none"]
  /\ mark    = [s \in Sandboxes |-> "pending"]
  /\ queue   = <<>>
  /\ jobs    = {}
  /\ sweep   = {}
  /\ look    = Nobody
  /\ crashes = 0

-----------------------------------------------------------------------------
(* The queue.                                                              *)

Pending(kind, s) ==
  \/ \E i \in DOMAIN queue : queue[i].kind = kind /\ queue[i].who = s
  \/ \E j \in jobs : j.kind = kind /\ j.who = s

SubmitInFront(kind, s) == queue' = <<[kind |-> kind, who |-> s]>> \o queue
Submit(kind, s) == queue' = Append(queue, [kind |-> kind, who |-> s])

MutexIgnored == TRUE
MutexFree == jobs = {}

(* runExclusive: the oldest request enters and reads the ledger. *)
Begin ==
  /\ MutexFree /\ queue # <<>>
  /\ jobs' = jobs \cup {[kind |-> Head(queue).kind, who |-> Head(queue).who, seen |-> Holding]}
  /\ queue' = Tail(queue)
  /\ UNCHANGED <<row, missing, alloc, mark, sweep, look, crashes>>

(* The mutex is given back whether the work returned or threw. *)
LeaveOnlyIf(j, ok) == jobs' = IF ok THEN jobs \ {j} ELSE jobs
Leave(j, ok) == jobs' = jobs \ {j}

-----------------------------------------------------------------------------
(* Reservations and releases.                                              *)

(* create asks for capacity before its row exists. *)
AskCreate(s) ==
  /\ row[s] = "absent" /\ ~Pending("create", s)
  /\ Len(queue) < MaxQueue
  /\ Submit("create", s)
  /\ UNCHANGED <<row, missing, alloc, mark, jobs, sweep, look, crashes>>

(* trySchedule, on the ledger as the job read it. *)
AdmitsWithoutRequest(j) == Fits(Node, NodePolicy, Platform, Used(j.seen), Zero)
Admits(j) == Fits(Node, NodePolicy, Platform, Used(j.seen), QuotaOf[j.who])

(* reserve: the row and its allocation are one transaction.  It is refused *)
(* when the ledger is full and (~ok) when the disk or the project refuses. *)
Reserve(j, ok) ==
  /\ j \in jobs /\ j.kind = "create"
  /\ IF ok /\ Admits(j)
       THEN /\ row'   = [row EXCEPT ![j.who] = "live"]
            /\ alloc' = [alloc EXCEPT ![j.who] = "active"]
            /\ mark'  = [mark EXCEPT ![j.who] = "pending"]
       ELSE UNCHANGED <<row, alloc, mark>>
  /\ Leave(j, ok /\ Admits(j))
  /\ UNCHANGED <<missing, queue, sweep, look, crashes>>

(* The teardown, a failed stop and a compensation ask for the release, in  *)
(* any number and whatever became of the task.                             *)
AskRelease(s) ==
  /\ row[s] # "absent"
  /\ Len(queue) < MaxQueue
  /\ Submit("destroy", s)
  /\ UNCHANGED <<row, missing, alloc, mark, jobs, sweep, look, crashes>>

(* findActiveBySandbox found an allocation. *)
FoundAnyway(j) == TRUE
Found(j) == j.who \in j.seen

(* saveSync of an allocation the job holds: releasedAt and the mark are    *)
(* overwritten; one that was deleted meanwhile violates the foreign key.   *)
Save(j, to, m) ==
  /\ alloc' = [alloc EXCEPT ![j.who] = to]
  /\ mark'  = [mark EXCEPT ![j.who] = m]

Saves(j, ok) == ok /\ Found(j) /\ row[j.who] # "deleted"

(* release: an error is logged, nothing is thrown. *)
Release(j, ok) ==
  /\ j \in jobs /\ j.kind = "destroy"
  /\ IF Saves(j, ok) THEN Save(j, "released", mark[j.who]) ELSE UNCHANGED <<alloc, mark>>
  /\ Leave(j, TRUE)
  /\ UNCHANGED <<row, missing, queue, sweep, look, crashes>>

(* confirmActive and releaseAsOrphan: an error ends the sweep. *)
Reconcile(j, ok) ==
  /\ j \in jobs /\ j.kind \in {"confirm", "orphan"}
  /\ IF Saves(j, ok)
       THEN IF j.kind = "confirm" THEN Save(j, "active", "confirmed")
                                  ELSE Save(j, "released", "orphaned")
       ELSE UNCHANGED <<alloc, mark>>
  /\ sweep' = IF Found(j) /\ ~Saves(j, ok) THEN {} ELSE sweep
  /\ Leave(j, Saves(j, ok))
  /\ UNCHANGED <<row, missing, queue, look, crashes>>

-----------------------------------------------------------------------------
(* The QuotaReconciler.                                                    *)

Sweeping ==
  \/ sweep # {} \/ look # Nobody
  \/ \E s \in Sandboxes : Pending("confirm", s) \/ Pending("orphan", s)

(* sweep: a batch of the active allocations, never two sweeps at once. *)
SweepStart ==
  /\ ~Sweeping /\ Holding # {}
  /\ \E batch \in SUBSET Holding : batch # {} /\ sweep' = batch
  /\ UNCHANGED <<row, missing, alloc, mark, queue, jobs, look, crashes>>

(* check: the next allocation; a task that is gone or over is an orphan.   *)
SweepNext(s) ==
  /\ s \in sweep /\ look = Nobody
  /\ \A r \in Sandboxes : ~Pending("confirm", r) /\ ~Pending("orphan", r)
  /\ sweep' = sweep \ {s}
  /\ IF row[s] = "live" THEN look' = s /\ UNCHANGED queue
                        ELSE Submit("orphan", s) /\ UNCHANGED look
  /\ UNCHANGED <<row, missing, alloc, mark, jobs, crashes>>

(* verdictFor: what the provider answers; an error or a task without a     *)
(* handle leaves the allocation alone.                                     *)
VerdictsGuessed(s) == {"gone", "alive"}
Verdicts(s) == {"unknown", IF s \in missing THEN "gone" ELSE "alive"}

SweepAnswer ==
  /\ look # Nobody
  /\ \E v \in Verdicts(look) :
       \/ v = "alive" /\ Submit("confirm", look)
       \/ v = "gone" /\ Submit("orphan", look)
       \/ v = "unknown" /\ UNCHANGED queue
  /\ look' = Nobody
  /\ UNCHANGED <<row, missing, alloc, mark, jobs, sweep, crashes>>

-----------------------------------------------------------------------------
(* What happens around the allocator.                                      *)

(* The lifecycle ends a task; its release is a request of its own. *)
TaskOver(s) ==
  /\ row[s] = "live"
  /\ row' = [row EXCEPT ![s] = "over"]
  /\ UNCHANGED <<missing, alloc, mark, queue, jobs, sweep, look, crashes>>

InstanceLost(s) ==
  /\ row[s] = "live" /\ s \notin missing
  /\ missing' = missing \cup {s}
  /\ UNCHANGED <<row, alloc, mark, queue, jobs, sweep, look, crashes>>

(* Deleting a project removes its tasks, stopped ones too; the allocations *)
(* go with them (on delete cascade).                                       *)
TaskDeleted(s) ==
  /\ row[s] \in {"live", "over"}
  /\ row'   = [row EXCEPT ![s] = "deleted"]
  /\ alloc' = [alloc EXCEPT ![s] = "dropped"]
  /\ UNCHANGED <<missing, mark, queue, jobs, sweep, look, crashes>>

(* At boot every active allocation is checked. *)
Restart ==
  /\ crashes < MaxCrashes
  /\ crashes' = crashes + 1
  /\ queue' = <<>> /\ jobs' = {} /\ look' = Nobody
  /\ sweep' = Holding
  /\ UNCHANGED <<row, missing, alloc, mark>>

Finish(j) == \E ok \in BOOLEAN : Reserve(j, ok) \/ Release(j, ok) \/ Reconcile(j, ok)

Next ==
  \/ Begin
  \/ \E j \in jobs : Finish(j)
  \/ \E s \in Sandboxes :
       \/ AskCreate(s)
       \/ AskRelease(s)
       \/ SweepNext(s)
       \/ TaskOver(s)
       \/ InstanceLost(s)
       \/ TaskDeleted(s)
  \/ SweepStart
  \/ SweepAnswer
  \/ Restart

(* The mutex is handed on, and what runs inside it only awaits the local   *)
(* database and the local file system.                                     *)
Fairness == WF_vars(Begin) /\ WF_vars(\E j \in jobs : Finish(j))

Spec == Init /\ [][Next]_vars

-----------------------------------------------------------------------------
(* Properties.                                                             *)

(* Every variable has its type. *)
TypeOK ==
  /\ row \in [Sandboxes -> {"absent", "live", "over", "deleted"}]
  /\ missing \subseteq Sandboxes
  /\ alloc \in [Sandboxes -> {"none", "active", "released", "dropped"}]
  /\ mark \in [Sandboxes -> {"pending", "confirmed", "orphaned"}]
  /\ queue \in Seq(Request)
  /\ jobs \subseteq Job
  /\ sweep \subseteq Sandboxes
  /\ look \in Sandboxes \cup {Nobody}
  /\ crashes \in Nat

(* Concurrent reservations never sell the same capacity twice, although    *)
(* each reads the ledger some time before it writes.                       *)
NeverOversold ==
  \A d \in Bounded(Node) : Used(Holding)[d] <= Total(Node, NodePolicy, Platform, d)

(* The number of tasks that the capacity endpoint promises is the number   *)
(* the scheduler would admit now, and they fit on the host with all it     *)
(* holds: of this ledger and tasks like those it has, and of any host,     *)
(* ledger and default task (ArithmeticIsSound).                            *)
PoolIsSound ==
  /\ ArithmeticIsSound
  /\ \A s \in Sandboxes :
       /\ PromiseKept(Node, NodePolicy, Platform, Used(Holding), QuotaOf[s])
       /\ HostHoldsAll(Node, NodePolicy, Platform, Used(Holding), QuotaOf[s])

(* I-RA-1: a released allocation is never active again; no confirmation    *)
(* that read it before revives it.                                         *)
ReleasedStaysReleased ==
  [][\A s \in Sandboxes :
       alloc[s] \in {"released", "dropped"} => alloc'[s] \in {"released", "dropped"}]_vars

(* The reconciler takes no capacity from a task that still runs: neither   *)
(* an unreachable provider nor a stale answer counts as a missing instance.*)
LiveKeepsItsShare ==
  [][\A s \in Sandboxes :
       row[s] = "live" /\ s \notin missing /\ mark'[s] = "orphaned" => mark[s] = "orphaned"]_vars

(* A request for capacity gets its turn, however many releases are asked   *)
(* for meanwhile and whether or not those before it fail.                  *)
CreateGetsItsTurn ==
  \A s \in Sandboxes : Pending("create", s) ~> ~Pending("create", s)

(* The sets of tasks that fit on the host together. *)
Schedulable ==
  {A \in SUBSET Sandboxes : Fits(Node, NodePolicy, Platform, Used(A), Zero)}

(* The allocator implements the ledger. *)
Ledger == INSTANCE ResourceLedger WITH
            holding <- Holding,
            over    <- {s \in Sandboxes : alloc[s] \in {"released", "dropped"}}
LedgerSpec == Ledger!Spec
=============================================================================
