-------------------------- MODULE SandboxLifecycle --------------------------
(***************************************************************************)
(* The life of a sandbox (a "Task"): its row, the detached workflow that   *)
(* provisions or restarts it, the start, stop and destroy requests, the    *)
(* deletion of its project, the provider instance and the workspace        *)
(* directory behind it, and a restart of the API process.                  *)
(*                                                                         *)
(* One Node process runs all of it, so a step is what happens between two  *)
(* awaits.  A handler reads the row again after an await, or it holds an   *)
(* aggregate and saveSync compares versions.  Every write of a row bumps   *)
(* its version, so of a held aggregate the model keeps the version only:   *)
(* when the versions agree its fields are those of the row, when they do   *)
(* not its write is refused.                                               *)
(*                                                                         *)
(* Provider calls answer or fail at any time, or never.                    *)
(***************************************************************************)
EXTENDS Integers, FiniteSets

CONSTANTS
  Sandboxes,        \* sandbox ids, all of one project
  ReconcileOnBoot,  \* SANDBOX_RECONCILE_ON_BOOT = 'true'
  MaxVersion,       \* bound: requests stop once a row reached this version
  MaxCrashes        \* bound: restarts of the process

ASSUME LifecycleConstants ==
  /\ ReconcileOnBoot \in BOOLEAN
  /\ MaxVersion \in Nat
  /\ MaxCrashes \in Nat

VARIABLES
  \* the sandboxes table
  status, version, handle, consumed, failOp, finished,
  \* the workflow of a sandbox (ProvisionSandboxWorkflow.active, cancelled)
  wpc, kind, wver, cancelled,
  \* the teardown of a sandbox (SandboxApplicationService.teardowns)
  tpc, tprev, force, drain, keep,
  \* the start and stop requests in flight
  opc, over, spc,
  \* what lives outside the process, and the tables beside the row
  inst, dir, retained, quota, job, late,
  \* history: prompts handed to an agent, instances nobody will remove
  prompted, abandoned, crashes

rowVars  == <<status, version, handle, consumed, failOp, finished>>
wfVars   == <<wpc, kind, wver>>
tdVars   == <<tpc, tprev, force, drain, keep>>
reqVars  == <<opc, over, spc>>
extVars  == <<inst, dir, retained, quota, job, late>>
histVars == <<prompted, abandoned, crashes>>
vars == <<rowVars, wfVars, cancelled, tdVars, reqVars, extVars, histVars>>

Provisioning == {"pending", "scheduling", "preparing-workspace", "creating", "starting"}
Live         == Provisioning \cup {"running", "idle", "stopping", "stopped"}
NoRow        == {"absent", "deleted"}
Status       == Live \cup NoRow \cup {"failed", "destroying", "destroyed"}

WfPc == {"idle", "queued", "prepare", "creds", "create", "start", "install",
         "inject", "session", "attach", "dropLate", "dropDir", "undo", "undoDir"}
TdPc == {"idle", "mark", "drain", "stop", "destroy", "cleanup", "register",
         "finish", "release"}
Keep   == {"no", "manual", "artifact"}
FailOp == {"none", "provision", "start", "stop", "destroy"}

(* The legal moves of a row's status: TRANSITIONS of the value object. *)
LegalMoves ==
  UNION { {"pending"}             \X {"scheduling", "destroying"},
          {"scheduling"}          \X {"preparing-workspace", "failed", "destroying"},
          {"preparing-workspace"} \X {"creating", "failed", "destroying"},
          {"creating"}            \X {"starting", "failed", "destroying"},
          {"starting"}            \X {"running", "failed", "destroying"},
          {"running"}             \X {"idle", "stopping", "failed", "destroying"},
          {"idle"}                \X {"running", "stopping", "failed", "destroying"},
          {"stopping"}            \X {"stopped", "failed", "destroying"},
          {"stopped"}             \X {"starting", "destroying"},
          {"failed"}              \X {"scheduling", "destroying"},
          {"destroying"}          \X {"destroyed", "failed"} }

Init ==
  /\ status    = [s \in Sandboxes |-> "absent"]
  /\ version   = [s \in Sandboxes |-> 0]
  /\ handle    = [s \in Sandboxes |-> FALSE]
  /\ consumed  = [s \in Sandboxes |-> FALSE]
  /\ failOp    = [s \in Sandboxes |-> "none"]
  /\ finished  = [s \in Sandboxes |-> FALSE]
  /\ wpc       = [s \in Sandboxes |-> "idle"]
  /\ kind      = [s \in Sandboxes |-> "provision"]
  /\ wver      = [s \in Sandboxes |-> 0]
  /\ cancelled = {}
  /\ tpc       = [s \in Sandboxes |-> "idle"]
  /\ tprev     = [s \in Sandboxes |-> "absent"]
  /\ force     = [s \in Sandboxes |-> FALSE]
  /\ drain     = [s \in Sandboxes |-> FALSE]
  /\ keep      = [s \in Sandboxes |-> "no"]
  /\ opc       = [s \in Sandboxes |-> "idle"]
  /\ over      = [s \in Sandboxes |-> 0]
  /\ spc       = [s \in Sandboxes |-> "idle"]
  /\ inst      = [s \in Sandboxes |-> "none"]
  /\ dir       = [s \in Sandboxes |-> "none"]
  /\ retained  = {}
  /\ quota     = [s \in Sandboxes |-> "none"]
  /\ job       = [s \in Sandboxes |-> "none"]
  /\ late      = {}
  /\ prompted  = [s \in Sandboxes |-> 0]
  /\ abandoned = {}
  /\ crashes   = 0

-----------------------------------------------------------------------------
(* Writing a row.                                                          *)

(* saveSync: the row is there and nobody wrote it since version v was read. *)
CanSaveAnyVersion(s, v) == status[s] \notin NoRow
CanSave(s, v) == status[s] \notin NoRow /\ version[s] = v

(* transitionTo and save: a failure is remembered through the teardown and *)
(* cleared when the row goes back to work; failWith names the operation.   *)
Advance(s, to, steps) ==
  /\ status'  = [status EXCEPT ![s] = to]
  /\ version' = [version EXCEPT ![s] = @ + steps]
  /\ failOp'  = [failOp EXCEPT ![s] =
                   IF to \in {"failed", "destroying", "destroyed"} THEN @ ELSE "none"]

FailWith(s, op) ==
  /\ status'  = [status EXCEPT ![s] = "failed"]
  /\ version' = [version EXCEPT ![s] = @ + 1]
  /\ failOp'  = [failOp EXCEPT ![s] = op]

(* ResourceAllocator.release: idempotent, never throws. *)
Release(s) == quota' = [quota EXCEPT ![s] = IF @ = "reserved" THEN "released" ELSE @]

(* create: the row and the reservation are one transaction that also       *)
(* checks the project; the workflow is started without being awaited.      *)
Create(s) ==
  /\ status[s] = "absent"
  /\ \A r \in Sandboxes : status[r] # "deleted"
  /\ status' = [status EXCEPT ![s] = "pending"]
  /\ quota'  = [quota EXCEPT ![s] = "reserved"]
  /\ wpc'    = [wpc EXCEPT ![s] = "queued"]
  /\ UNCHANGED <<version, handle, consumed, failOp, finished, kind, wver, cancelled,
                 tdVars, reqVars, inst, dir, retained, job, late, histVars>>

-----------------------------------------------------------------------------
(* The workflow: provision and restart.                                    *)

(* assertActive, and the version check of the save that follows it. *)
ActiveUnchecked(s) == CanSave(s, wver[s])
Active(s) == s \notin cancelled /\ CanSave(s, wver[s])

(* The workflow writes its row `steps` times, ending in status `to`, and   *)
(* awaits what `next` names.                                               *)
WfAdvance(s, to, steps, next) ==
  /\ Advance(s, to, steps)
  /\ wver' = [wver EXCEPT ![s] = @ + steps]
  /\ wpc'  = [wpc EXCEPT ![s] = next]

(* A handle that was never bound goes to the teardown through the row      *)
(* while the row is being destroyed.                                       *)
NeverBindsLate(s, lateHandle) == FALSE
BindsLate(s, lateHandle) == lateHandle /\ status[s] = "destroying"

(* catch, when the sandbox was cancelled: the late handle goes to the row  *)
(* or is removed here; ws: there is a directory nobody bound.              *)
CatchCancelled(s, lateHandle, ws) ==
  /\ handle'  = [handle EXCEPT ![s] = @ \/ BindsLate(s, lateHandle)]
  /\ version' = [version EXCEPT ![s] = IF BindsLate(s, lateHandle) THEN @ + 1 ELSE @]
  /\ wpc' = [wpc EXCEPT ![s] =
       IF kind[s] = "restart" \/ status[s] = "destroying" THEN "idle"
       ELSE IF lateHandle THEN "dropLate"
       ELSE IF ws THEN "dropDir" ELSE "idle"]
  /\ UNCHANGED <<status, failOp, quota, kind, wver>>

(* catch, otherwise: compensate marks the row failed; provision then takes *)
(* the instance and the directory down, restart only returns the quota.    *)
CatchFailure(s, made) ==
  LET provision == kind[s] = "provision" IN
  /\ IF CanSave(s, wver[s])
       THEN FailWith(s, IF provision THEN "provision" ELSE "start")
       ELSE UNCHANGED <<status, version, failOp>>
  /\ wpc' = [wpc EXCEPT ![s] =
       IF ~provision THEN "idle" ELSE IF made THEN "undo" ELSE "undoDir"]
  /\ IF provision THEN UNCHANGED quota ELSE Release(s)
  /\ UNCHANGED <<handle, kind, wver>>

Catch(s, lateHandle, made, ws) ==
  IF s \in cancelled THEN CatchCancelled(s, lateHandle, ws) ELSE CatchFailure(s, made)

others == <<cancelled, tdVars, reqVars, retained, job, late, finished>>

(* scheduling and preparing-workspace are written before the first await. *)
ProvisionBegin(s) ==
  /\ wpc[s] = "queued"
  /\ IF Active(s)
       THEN /\ WfAdvance(s, "preparing-workspace", 2, "prepare")
            /\ UNCHANGED <<handle, kind, quota>>
       ELSE Catch(s, FALSE, FALSE, FALSE)
  /\ UNCHANGED <<consumed, inst, dir, histVars, others>>

(* workspace.prepare answers; one that fails may leave part of a copy. *)
PrepareDone(s, ok) ==
  /\ wpc[s] = "prepare"
  /\ dir' \in {[dir EXCEPT ![s] = d] : d \in IF ok THEN {"present"} ELSE {dir[s], "present"}}
  /\ IF ok /\ Active(s)
       THEN WfAdvance(s, "creating", 1, "creds") /\ UNCHANGED <<handle, kind, quota>>
       ELSE Catch(s, FALSE, FALSE, ok)
  /\ UNCHANGED <<consumed, inst, histVars, others>>

(* The image, the credentials and (provision) the reservation of their     *)
(* injection are ready: create or, on a restart, start the instance.       *)
CredsDone(s, ok) ==
  /\ wpc[s] = "creds"
  /\ IF ok /\ s \notin cancelled
       THEN /\ wpc' = [wpc EXCEPT ![s] = IF kind[s] = "restart" THEN "start" ELSE "create"]
            /\ UNCHANGED <<status, version, handle, failOp, kind, wver, quota>>
       ELSE Catch(s, FALSE, FALSE, TRUE)
  /\ UNCHANGED <<consumed, inst, dir, histVars, others>>

(* provider.create answers: bind the handle, then advance to starting. *)
CreateDone(s, ok) ==
  /\ wpc[s] = "create"
  /\ inst' = [inst EXCEPT ![s] = IF ok THEN "stopped" ELSE @]
  /\ IF ok /\ Active(s)
       THEN /\ handle' = [handle EXCEPT ![s] = TRUE]
            /\ WfAdvance(s, "starting", 2, "start")
            /\ UNCHANGED <<kind, quota>>
       ELSE Catch(s, ok, ok, TRUE)
  /\ UNCHANGED <<consumed, dir, histVars, others>>

(* A step of runStartingSteps that writes nothing: go on or catch. *)
StartingStep(s, ok, next) ==
  IF ok /\ s \notin cancelled
    THEN /\ wpc' = [wpc EXCEPT ![s] = next]
         /\ UNCHANGED <<status, version, handle, failOp, kind, wver, quota>>
    ELSE Catch(s, FALSE, TRUE, FALSE)

(* A start that fails may have started the instance: its agent never answered. *)
StartDone(s, ok) ==
  /\ wpc[s] = "start"
  /\ ok => inst[s] # "none"
  /\ \E up \in BOOLEAN :
       /\ ok => up
       /\ inst' = [inst EXCEPT ![s] = IF up /\ @ # "none" THEN "running" ELSE @]
  /\ StartingStep(s, ok, "install")
  /\ UNCHANGED <<consumed, dir, histVars, others>>

InstallDone(s, ok) ==
  /\ wpc[s] = "install"
  /\ StartingStep(s, ok, "inject")
  /\ UNCHANGED <<consumed, inst, dir, histVars, others>>

(* The credentials are injected (ok: none was revoked meanwhile) and       *)
(* recorded on the row, then the agent session is started: with the prompt *)
(* the row still has pending ("session") or without one ("attach"), when   *)
(* nothing is pending, the sandbox is headless, or a session is there      *)
(* already, because a terminal was opened in the meantime.                 *)
InjectDone(s, ok) ==
  /\ wpc[s] = "inject"
  /\ IF ok /\ Active(s)
       THEN /\ \E carries \in BOOLEAN :
                 /\ carries => ~consumed[s]
                 /\ WfAdvance(s, "starting", 1, IF carries THEN "session" ELSE "attach")
                 /\ prompted' = [prompted EXCEPT ![s] = IF carries THEN @ + 1 ELSE @]
            /\ UNCHANGED <<handle, kind, quota>>
       ELSE Catch(s, FALSE, TRUE, FALSE) /\ UNCHANGED prompted
  /\ UNCHANGED <<consumed, inst, dir, abandoned, crashes, others>>

(* consumeInitialTask: the prompt is not pending any more. *)
ConsumeNothing(s) == UNCHANGED consumed
ConsumeInitialTask(s) == consumed' = [consumed EXCEPT ![s] = TRUE]

(* bootstrapAgentSession answers: a prompt it carried is consumed, then    *)
(* the row advances to running.                                            *)
SessionDone(s, ok) ==
  /\ wpc[s] \in {"session", "attach"}
  /\ IF ok /\ Active(s)
       THEN /\ \/ /\ wpc[s] = "session" /\ ConsumeInitialTask(s)
                  /\ WfAdvance(s, "running", 2, "idle")
               \/ /\ wpc[s] = "attach" /\ UNCHANGED consumed
                  /\ WfAdvance(s, "running", 1, "idle")
            /\ UNCHANGED <<handle, kind, quota>>
       ELSE Catch(s, FALSE, TRUE, FALSE) /\ UNCHANGED consumed
  /\ UNCHANGED <<inst, dir, histVars, others>>

(* The late handle's own provider.destroy answers, fails or passes its     *)
(* deadline; then the directory goes.  When it failed nobody knows the     *)
(* handle any more.                                                        *)
DropLateDone(s, ok) ==
  /\ wpc[s] = "dropLate"
  /\ inst' = [inst EXCEPT ![s] = IF ok THEN "none" ELSE @]
  /\ abandoned' = IF ok THEN abandoned ELSE abandoned \cup {s}
  /\ wpc' = [wpc EXCEPT ![s] = "dropDir"]
  /\ UNCHANGED <<rowVars, kind, wver, cancelled, tdVars, reqVars, dir, retained,
                 quota, job, late, prompted, crashes>>

DropDirDone(s, ok) ==
  /\ wpc[s] = "dropDir"
  /\ dir' = [dir EXCEPT ![s] = IF ok THEN "none" ELSE @]
  /\ wpc' = [wpc EXCEPT ![s] = "idle"]
  /\ UNCHANGED <<rowVars, kind, wver, cancelled, tdVars, reqVars, inst, retained,
                 quota, job, late, histVars>>

(* The compensation of a failed provision: its errors are swallowed. *)
UndoDone(s, ok) ==
  /\ wpc[s] = "undo"
  /\ inst' = [inst EXCEPT ![s] = IF ok THEN "none" ELSE @]
  /\ wpc' = [wpc EXCEPT ![s] = "undoDir"]
  /\ UNCHANGED <<rowVars, kind, wver, cancelled, tdVars, reqVars, dir, retained,
                 quota, job, late, histVars>>

UndoDirDone(s, ok) ==
  /\ wpc[s] = "undoDir"
  /\ dir' = [dir EXCEPT ![s] = IF ok THEN "none" ELSE @]
  /\ Release(s)
  /\ wpc' = [wpc EXCEPT ![s] = "idle"]
  /\ UNCHANGED <<rowVars, kind, wver, cancelled, tdVars, reqVars, inst, retained,
                 job, late, histVars>>

WfAnswer(s, ok) ==
  \/ PrepareDone(s, ok)
  \/ CredsDone(s, ok)
  \/ CreateDone(s, ok)
  \/ StartDone(s, ok)
  \/ InstallDone(s, ok)
  \/ InjectDone(s, ok)
  \/ SessionDone(s, ok)
  \/ DropLateDone(s, ok)
  \/ DropDirDone(s, ok)
  \/ UndoDone(s, ok)
  \/ UndoDirDone(s, ok)

-----------------------------------------------------------------------------
(* The start and stop requests.                                            *)

(* start reads a stopped row, then awaits the image summary. *)
StartRequest(s) ==
  /\ opc[s] = "idle"
  /\ status[s] = "stopped" /\ handle[s]
  /\ version[s] < MaxVersion
  /\ opc'  = [opc EXCEPT ![s] = "image"]
  /\ over' = [over EXCEPT ![s] = version[s]]
  /\ UNCHANGED <<rowVars, wfVars, cancelled, tdVars, spc, extVars, histVars>>

(* The write may be refused (409); a restart joins a workflow still active. *)
StartAdvance(s) ==
  /\ opc[s] = "image"
  /\ opc' = [opc EXCEPT ![s] = "idle"]
  /\ IF CanSave(s, over[s])
       THEN /\ Advance(s, "starting", 1)
            /\ IF wpc[s] = "idle"
                 THEN /\ wpc'  = [wpc EXCEPT ![s] = "creds"]
                      /\ kind' = [kind EXCEPT ![s] = "restart"]
                      /\ wver' = [wver EXCEPT ![s] = version[s] + 1]
                 ELSE UNCHANGED wfVars
       ELSE UNCHANGED <<status, version, failOp, wfVars>>
  /\ UNCHANGED <<handle, consumed, finished, cancelled, tdVars, over, spc, extVars,
                 histVars>>

StopRequest(s) ==
  /\ status[s] \in {"running", "idle"}
  /\ version[s] < MaxVersion
  /\ Advance(s, "stopping", 1)
  /\ spc' = [spc EXCEPT ![s] = "stop"]
  /\ UNCHANGED <<handle, consumed, finished, wfVars, cancelled, tdVars, opc, over,
                 extVars, histVars>>

(* provider.stop answers and the row is read again.  Whatever goes wrong,  *)
(* a teardown that took the row included, the quota is returned.           *)
StopDone(s, ok) ==
  /\ spc[s] = "stop"
  /\ spc' = [spc EXCEPT ![s] = "idle"]
  /\ inst' = [inst EXCEPT ![s] = IF ok /\ @ = "running" THEN "stopped" ELSE @]
  /\ IF ok /\ status[s] = "stopping"
       THEN Advance(s, "stopped", 1) /\ UNCHANGED quota
       ELSE /\ IF status[s] = "stopping" THEN FailWith(s, "stop")
                                         ELSE UNCHANGED <<status, version, failOp>>
            /\ Release(s)
  /\ UNCHANGED <<handle, consumed, finished, wfVars, cancelled, tdVars, opc, over,
                 dir, retained, job, late, histVars>>

-----------------------------------------------------------------------------
(* Destroying.                                                             *)

(* ProvisionSandboxWorkflow.cancel. *)
CancelNothing(s) == UNCHANGED cancelled
Cancel(s) == cancelled' = cancelled \cup {s}

(* destroy: a second request joins the teardown in flight and can only add *)
(* force to it; the first one cancels the workflow at once and remembers   *)
(* whether there is one to wait for.                                       *)
Destroy(s, f, k) ==
  IF tpc[s] # "idle"
    THEN /\ force' = [force EXCEPT ![s] = @ \/ f]
         /\ UNCHANGED <<cancelled, tpc, tprev, drain, keep>>
    ELSE /\ Cancel(s)
         /\ tpc'   = [tpc EXCEPT ![s] = "mark"]
         /\ force' = [force EXCEPT ![s] = f]
         /\ keep'  = [keep EXCEPT ![s] = k]
         /\ drain' = [drain EXCEPT ![s] = wpc[s] # "idle"]
         /\ UNCHANGED tprev

DestroyRequest(s, f, k) ==
  /\ status[s] \notin NoRow
  /\ version[s] < MaxVersion
  /\ Destroy(s, f, k)
  /\ UNCHANGED <<rowVars, wfVars, reqVars, extVars, histVars>>

(* finishTask: an automation is done with its sandbox.  The row remembers  *)
(* it, then the sandbox is destroyed, keeping its directory if the task    *)
(* ever ran.                                                               *)
FinishTask(s, k) ==
  /\ status[s] \notin NoRow \cup {"destroyed"}
  /\ version[s] < MaxVersion
  /\ finished' = [finished EXCEPT ![s] = TRUE]
  /\ version'  = [version EXCEPT ![s] = @ + 1]
  /\ Destroy(s, FALSE, k)
  /\ UNCHANGED <<status, handle, consumed, failOp, wfVars, reqVars, extVars, histVars>>

(* finishTask once the row is destroyed: the books are checked again. *)
FinishRetained(s) ==
  /\ status[s] = "destroyed" /\ finished[s] /\ handle[s]
  /\ dir[s] # "none" /\ s \notin retained
  /\ retained' = retained \cup {s}
  /\ UNCHANGED <<rowVars, wfVars, cancelled, tdVars, reqVars, inst, dir, quota, job,
                 late, histVars>>

(* Where a teardown goes once it knows whether there is an instance. *)
AfterHandle(s, has, prev) ==
  IF ~has THEN "cleanup"
  ELSE IF ~force[s] /\ prev \in {"running", "idle", "starting", "stopping"} THEN "stop"
  ELSE "destroy"

TdTo(s, pc) == tpc' = [tpc EXCEPT ![s] = pc]

(* The row is read and marked; no handle yet: the workflow must end first. *)
TdMark(s) ==
  /\ tpc[s] = "mark"
  /\ IF status[s] \in NoRow \cup {"destroyed"}
       THEN TdTo(s, "idle") /\ UNCHANGED <<status, version, failOp, tprev>>
       ELSE /\ tprev' = [tprev EXCEPT ![s] = status[s]]
            /\ IF status[s] = "destroying" THEN UNCHANGED <<status, version, failOp>>
                                           ELSE Advance(s, "destroying", 1)
            /\ TdTo(s, IF handle[s] THEN AfterHandle(s, TRUE, status[s]) ELSE "drain")
  /\ UNCHANGED <<handle, consumed, finished, wfVars, cancelled, force, drain, keep,
                 reqVars, extVars, histVars>>

(* catch: an automation's own provision failure is kept, any other error   *)
(* becomes the failure of the destroy.                                     *)
KeepsNoFailure(s) == FALSE
KeepsProvisionFailure(s) == finished[s] /\ failOp[s] = "provision"

TdFail(s) ==
  /\ IF status[s] # "destroying" THEN UNCHANGED <<status, version, failOp>>
     ELSE IF KeepsProvisionFailure(s) THEN Advance(s, "failed", 1)
     ELSE FailWith(s, "destroy")
  /\ TdTo(s, "release")
  /\ UNCHANGED <<handle, consumed, finished>>

tdOthers == <<wfVars, cancelled, tprev, force, drain, keep, reqVars, job, histVars>>

TdDrained(s) ==
  /\ tpc[s] = "drain"
  /\ drain[s] => wpc[s] = "idle"
  /\ TdTo(s, AfterHandle(s, handle[s], tprev[s]))
  /\ UNCHANGED <<rowVars, inst, dir, retained, quota, late, tdOthers>>

NoDrainTimeout(s) == FALSE
TdDrainTimeout(s) ==
  /\ tpc[s] = "drain"
  /\ drain[s] /\ wpc[s] # "idle"
  /\ TdFail(s)
  /\ UNCHANGED <<inst, dir, retained, quota, late, tdOthers>>

(* stopForTeardown: the answer, an error, 20 seconds or force all end it. *)
TdStop(s, ok) ==
  /\ tpc[s] = "stop"
  /\ inst' = [inst EXCEPT ![s] = IF ok /\ @ = "running" THEN "stopped" ELSE @]
  /\ TdTo(s, "destroy")
  /\ UNCHANGED <<rowVars, dir, retained, quota, late, tdOthers>>

(* provider.destroy removed the instance, or answered that there is none. *)
TdDestroyed(s) ==
  /\ tpc[s] = "destroy"
  /\ inst' = [inst EXCEPT ![s] = "none"]
  /\ TdTo(s, "cleanup")
  /\ UNCHANGED <<rowVars, dir, retained, quota, late, tdOthers>>

(* It failed, or its 15 seconds passed and it may still succeed (pending). *)
TdDestroyFailed(s, pending) ==
  /\ tpc[s] = "destroy"
  /\ late' = IF pending THEN late \cup {s} ELSE late
  /\ TdFail(s)
  /\ UNCHANGED <<inst, dir, retained, quota, tdOthers>>

(* workspace.cleanup: remove the directory, or mark it kept if it exists. *)
TdCleanup(s, ok) ==
  /\ tpc[s] = "cleanup"
  /\ LET keeps == keep[s] # "no" /\ dir[s] # "none" IN
     IF ~ok THEN TdFail(s) /\ UNCHANGED dir
     ELSE /\ dir' = [dir EXCEPT ![s] = IF keeps THEN "kept" ELSE "none"]
          /\ TdTo(s, IF keeps THEN "register" ELSE "finish")
          /\ UNCHANGED rowVars
  /\ UNCHANGED <<inst, retained, quota, late, tdOthers>>

(* registerRetainedVolume: a directory that is gone is not registered; an  *)
(* error fails the teardown of an automation only.                         *)
RegisterNeverThrows(s) == FALSE
RegisterThrows(s) == keep[s] = "artifact"

TdRegister(s, ok) ==
  /\ tpc[s] = "register"
  /\ IF ~ok /\ RegisterThrows(s)
       THEN TdFail(s) /\ UNCHANGED retained
       ELSE /\ retained' = IF ok /\ dir[s] # "none" THEN retained \cup {s} ELSE retained
            /\ TdTo(s, "finish") /\ UNCHANGED rowVars
  /\ UNCHANGED <<inst, dir, quota, late, tdOthers>>

TdFinish(s) ==
  /\ tpc[s] = "finish"
  /\ IF status[s] \in NoRow \cup {"destroyed"} THEN UNCHANGED <<status, version, failOp>>
                                              ELSE Advance(s, "destroyed", 1)
  /\ TdTo(s, "release")
  /\ UNCHANGED <<handle, consumed, finished, inst, dir, retained, quota, late, tdOthers>>

(* finally: the quota is returned whatever became of the instance. *)
TdRelease(s) ==
  /\ tpc[s] = "release"
  /\ Release(s)
  /\ TdTo(s, "idle")
  /\ UNCHANGED <<rowVars, inst, dir, retained, late, tdOthers>>

(* The steps of a teardown that a timer, a local write or the file system  *)
(* answers: they come whatever the provider does.                          *)
TdStep(s) ==
  \/ TdMark(s)
  \/ TdDrained(s)
  \/ TdDrainTimeout(s)
  \/ \E ok \in BOOLEAN : TdStop(s, ok)
  \/ TdDestroyed(s)
  \/ \E pending \in BOOLEAN : TdDestroyFailed(s, pending)
  \/ \E ok \in BOOLEAN : TdCleanup(s, ok)
  \/ \E ok \in BOOLEAN : TdRegister(s, ok)
  \/ TdFinish(s)
  \/ TdRelease(s)

-----------------------------------------------------------------------------
(* Deleting the project, the sweeps, the provider and the process.         *)

(* Deleting the project is refused while it has an active task or a kept   *)
(* directory in the books; else every row becomes a durable cleanup job.   *)
ProjectDelete ==
  LET gone == {s \in Sandboxes : status[s] \notin NoRow} IN
  /\ gone # {} /\ retained = {}
  /\ \A s \in gone : status[s] \in {"stopped", "failed", "destroyed"}
  /\ status' = [s \in Sandboxes |-> IF s \in gone THEN "deleted" ELSE status[s]]
  /\ job' = [s \in Sandboxes |->
               IF s \notin gone THEN job[s] ELSE IF handle[s] THEN "handle" ELSE "bare"]
  /\ UNCHANGED <<version, handle, consumed, failOp, finished, wfVars, cancelled, tdVars,
                 reqVars, inst, dir, retained, quota, late, histVars>>

(* The instance of a job is gone: removed now, or not found. *)
RemovedOnlyIfFound(s, removed) == job[s] = "handle" => removed /\ inst[s] # "none"
InstanceRemoved(s, removed) == job[s] = "handle" => removed

(* clean: remove the instance and the directory, then complete the job; an *)
(* error of either leaves the job for the next round.                      *)
JobClean(s, removed, cleaned) ==
  /\ job[s] # "none"
  /\ inst' = [inst EXCEPT ![s] = IF job[s] = "handle" /\ removed THEN "none" ELSE @]
  /\ LET done == InstanceRemoved(s, removed) /\ cleaned IN
       /\ dir' = [dir EXCEPT ![s] = IF done THEN "none" ELSE @]
       /\ job' = [job EXCEPT ![s] = IF done THEN "none" ELSE @]
  /\ UNCHANGED <<rowVars, wfVars, cancelled, tdVars, reqVars, retained, quota, late,
                 histVars>>

(* RetainedVolumeService.remove and reapExpired: the directory, then its entry. *)
RemoveVolume(s) ==
  /\ s \in retained
  /\ dir' = [dir EXCEPT ![s] = "none"]
  /\ retained' = retained \ {s}
  /\ UNCHANGED <<rowVars, wfVars, cancelled, tdVars, reqVars, inst, quota, job, late,
                 histVars>>

(* QuotaReconciler: the row is gone or terminal, or its instance is missing. *)
VerdictStoppedIsGone(s) ==
  \/ status[s] \in NoRow \cup {"destroyed", "failed"}
  \/ handle[s] /\ inst[s] # "running"
VerdictMissingOnly(s) == handle[s] /\ inst[s] = "none"
VerdictGone(s) ==
  \/ status[s] \in NoRow \cup {"destroyed", "failed"}
  \/ handle[s] /\ inst[s] = "none"

QuotaSweep(s) ==
  /\ quota[s] = "reserved"
  /\ VerdictGone(s)
  /\ Release(s)
  /\ UNCHANGED <<rowVars, wfVars, cancelled, tdVars, reqVars, inst, dir, retained, job,
                 late, histVars>>

(* A provider.destroy that outlived its deadline succeeds after all. *)
LateDestroy(s) ==
  /\ s \in late
  /\ late' = late \ {s}
  /\ inst' = [inst EXCEPT ![s] = "none"]
  /\ UNCHANGED <<rowVars, wfVars, cancelled, tdVars, reqVars, dir, retained, quota, job,
                 histVars>>

(* Somebody removes the instance behind the platform's back. *)
InstanceLost(s) ==
  /\ inst[s] # "none"
  /\ inst' = [inst EXCEPT ![s] = "none"]
  /\ UNCHANGED <<rowVars, wfVars, cancelled, tdVars, reqVars, dir, retained, quota, job,
                 late, histVars>>

(* What the provider may have done with the calls in flight when the       *)
(* process died, and what RuntimeReconciler leaves of it at boot: it may   *)
(* remove an instance that no row owns.                                    *)
Known(s) == status[s] \notin NoRow \cup {"failed", "destroyed"} /\ handle[s]

AfterCrash(s) ==
  LET survives ==
        {inst[s]}
        \cup (IF wpc[s] = "create" THEN {"stopped"} ELSE {})
        \cup (IF wpc[s] = "start" /\ inst[s] # "none" THEN {"running"} ELSE {})
        \cup (IF (spc[s] = "stop" \/ tpc[s] = "stop") /\ inst[s] # "none"
                 THEN {"stopped"} ELSE {})
        \cup (IF tpc[s] = "destroy" \/ wpc[s] \in {"dropLate", "undo"} THEN {"none"} ELSE {})
  IN survives \cup (IF ReconcileOnBoot /\ ~Known(s) THEN {"none"} ELSE {})

(* A restart: everything the process held is forgotten, the rows are not   *)
(* resumed.                                                                *)
Restart ==
  /\ crashes < MaxCrashes
  /\ crashes' = crashes + 1
  /\ \E left \in [Sandboxes -> {"none", "stopped", "running"}] :
       /\ \A s \in Sandboxes : left[s] \in AfterCrash(s)
       /\ inst' = left
       /\ abandoned' = abandoned \cup
            {s \in Sandboxes : wpc[s] \in {"create", "dropLate"} /\ left[s] # "none"}
  /\ \E copied \in [Sandboxes -> {"none", "present", "kept"}] :
       /\ \A s \in Sandboxes :
            copied[s] \in {dir[s]} \cup (IF wpc[s] = "prepare" THEN {"present"} ELSE {})
       /\ dir' = copied
  /\ wpc' = [s \in Sandboxes |-> "idle"]
  /\ tpc' = [s \in Sandboxes |-> "idle"]
  /\ opc' = [s \in Sandboxes |-> "idle"]
  /\ spc' = [s \in Sandboxes |-> "idle"]
  /\ cancelled' = {}
  /\ late' = {}
  /\ UNCHANGED <<rowVars, kind, wver, tprev, force, drain, keep, over, retained, quota,
                 job, prompted>>

-----------------------------------------------------------------------------
Next ==
  \/ \E s \in Sandboxes :
       \/ Create(s)
       \/ ProvisionBegin(s)
       \/ \E ok \in BOOLEAN : WfAnswer(s, ok)
       \/ StartRequest(s)
       \/ StartAdvance(s)
       \/ StopRequest(s)
       \/ \E ok \in BOOLEAN : StopDone(s, ok)
       \/ \E f \in BOOLEAN, k \in {"no", "manual"} : DestroyRequest(s, f, k)
       \/ \E k \in {"no", "artifact"} : FinishTask(s, k)
       \/ FinishRetained(s)
       \/ TdStep(s)
       \/ \E removed, cleaned \in BOOLEAN : JobClean(s, removed, cleaned)
       \/ RemoveVolume(s)
       \/ QuotaSweep(s)
       \/ LateDestroy(s)
       \/ InstanceLost(s)
  \/ ProjectDelete
  \/ Restart

(* The process schedules its own steps and its timers fire: a teardown     *)
(* step is taken however long the provider and the workflow hang, the      *)
(* quota sweep comes round, and a cleanup job is retried until the         *)
(* provider and the file system let it succeed.                            *)
Fairness ==
  \A s \in Sandboxes :
    /\ WF_vars(TdStep(s))
    /\ WF_vars(QuotaSweep(s))
    /\ WF_vars(JobClean(s, TRUE, TRUE))

Spec == Init /\ [][Next]_vars
FairSpec == Spec /\ Fairness

-----------------------------------------------------------------------------
(* Properties.                                                             *)

(* Every variable has its type; CoreType is of what the workflow's catch   *)
(* block may write.                                                        *)
CoreType ==
  /\ status \in [Sandboxes -> Status]
  /\ version \in [Sandboxes -> Nat]
  /\ handle \in [Sandboxes -> BOOLEAN]
  /\ failOp \in [Sandboxes -> FailOp]
  /\ wpc \in [Sandboxes -> WfPc]
  /\ kind \in [Sandboxes -> {"provision", "restart"}]
  /\ wver \in [Sandboxes -> Nat]
  /\ quota \in [Sandboxes -> {"none", "reserved", "released"}]

RequestType ==
  /\ consumed \in [Sandboxes -> BOOLEAN]
  /\ finished \in [Sandboxes -> BOOLEAN]
  /\ cancelled \subseteq Sandboxes
  /\ tpc \in [Sandboxes -> TdPc]
  /\ tprev \in [Sandboxes -> Status]
  /\ force \in [Sandboxes -> BOOLEAN]
  /\ drain \in [Sandboxes -> BOOLEAN]
  /\ keep \in [Sandboxes -> Keep]
  /\ opc \in [Sandboxes -> {"idle", "image"}]
  /\ over \in [Sandboxes -> Nat]
  /\ spc \in [Sandboxes -> {"idle", "stop"}]

OutsideType ==
  /\ inst \in [Sandboxes -> {"none", "stopped", "running"}]
  /\ dir \in [Sandboxes -> {"none", "present", "kept"}]
  /\ retained \subseteq Sandboxes
  /\ job \in [Sandboxes -> {"none", "bare", "handle"}]
  /\ late \subseteq Sandboxes
  /\ prompted \in [Sandboxes -> Nat]
  /\ abandoned \subseteq Sandboxes
  /\ crashes \in Nat

TypeOK == CoreType /\ RequestType /\ OutsideType

(* An instance is never lost sight of while the process runs: unless its   *)
(* own late removal failed or a restart cut its creation short, a row that *)
(* is not destroyed holds its handle, or a cleanup job does, or the        *)
(* workflow that just made it still has to remove it.                      *)
InstanceIsOwned ==
  \A s \in Sandboxes :
    inst[s] # "none" /\ s \notin abandoned =>
      \/ handle[s] /\ status[s] \notin NoRow \cup {"destroyed"}
      \/ job[s] = "handle"
      \/ wpc[s] = "dropLate"

(* While it is not cancelled, a workflow holds the version of its row, so  *)
(* no write of its own, its failure included, is refused and swallowed.    *)
UncancelledWorkflowIsCurrent ==
  \A s \in Sandboxes :
    wpc[s] \notin {"idle", "dropLate", "dropDir", "undo", "undoDir"} /\ s \notin cancelled
      => CanSave(s, wver[s])

(* An instance of a task that may still work is paid for: the quota of a   *)
(* live row is only given back when its instance is gone.                  *)
LiveInstanceHoldsQuota ==
  \A s \in Sandboxes :
    status[s] \in Live /\ inst[s] # "none" => quota[s] = "reserved"

(* A task may come to run with its prompt still pending, and be stopped    *)
(* and started until a session carries it: restarts, retries and races     *)
(* hand it to an agent at most once all the same.                          *)
PromptAtMostOnce == \A s \in Sandboxes : prompted[s] <= 1

(* A directory an automation asked to keep is in the project's books when  *)
(* its task is destroyed, so that the artifact can be found and expires.   *)
KeptArtifactIsRegistered ==
  \A s \in Sandboxes :
    status[s] = "destroyed" /\ dir[s] = "kept" /\ keep[s] = "artifact" => s \in retained

(* A row only makes the moves the status table allows, whoever writes it:  *)
(* a late answer never brings a deleted or deleting task back.             *)
RowFollowsLifecycle ==
  [][\A s \in Sandboxes :
       status'[s] # status[s] =>
         \/ <<status[s], status'[s]>> \in LegalMoves
         \/ <<status[s], status'[s]>> = <<"pending", "preparing-workspace">>
         \/ status[s] = "absent" /\ status'[s] = "pending"
         \/ status[s] \in {"stopped", "failed", "destroyed"} /\ status'[s] = "deleted"]_vars

(* The agent session is only started in a task that is still starting, and *)
(* that nobody is tearing down.                                            *)
SessionOnlyWhileStarting ==
  [][\A s \in Sandboxes :
       wpc[s] # wpc'[s] /\ wpc'[s] \in {"session", "attach"} =>
         status[s] = "starting" /\ tpc[s] = "idle"]_vars

(* Once an automation is done with a task whose provision failed, a failed *)
(* teardown does not overwrite that failure.                               *)
ProvisionFailureSurvives ==
  [][\A s \in Sandboxes :
       finished[s] /\ failOp[s] = "provision" => failOp'[s] = "provision"]_vars

(* A teardown ends, whatever the workflow and the provider do. *)
TeardownSettles ==
  \A s \in Sandboxes : tpc[s] # "idle" ~> tpc[s] = "idle"

(* A destroyed task does not hold capacity for ever, even if the process   *)
(* died between destroying it and releasing its quota.                     *)
QuotaComesBack ==
  \A s \in Sandboxes : status[s] = "destroyed" ~> quota[s] # "reserved"

(* A deleted project's cleanup jobs are all completed in the end. *)
JobsDrain == \A s \in Sandboxes : job[s] # "none" ~> job[s] = "none"

(* Nothing of a task outlives it for ever: its capacity comes back and the *)
(* cleanup jobs of its project drain, over hanging calls and a restart.    *)
CleanupEnds == QuotaComesBack /\ JobsDrain

(* The comment in teardown says that the wait for the workflow lets        *)
(* neither a directory nor a late instance reappear.                       *)
DestroyedHasNoInstance ==
  \A s \in Sandboxes : status[s] = "destroyed" => inst[s] = "none"

(* The books list no directory that does not exist, says the register of   *)
(* retained volumes.                                                       *)
RetainedDirectoryExists == \A s \in retained : dir[s] # "none"

(* "failed" is terminal and occupies nothing any more, say the comments at *)
(* the releases of the quota.                                              *)
FailedOccupiesNothing ==
  \A s \in Sandboxes :
    /\ status[s] = "failed" /\ failOp[s] # "destroy"
    /\ wpc[s] = "idle" /\ spc[s] = "idle" /\ tpc[s] = "idle" /\ quota[s] = "released"
    => inst[s] # "running"

(* A directory kept by hand whose registration failed is picked up by the  *)
(* reconciliation at the next start, says the log line that reports it.    *)
KeptDirectoryPickedUp ==
  \A s \in Sandboxes :
    status[s] = "destroyed" /\ dir[s] = "kept" /\ crashes < MaxCrashes
      ~> s \in retained \/ dir[s] # "kept"

(* The process is restarted in the end. *)
RestartSpec == FairSpec /\ WF_vars(Restart)
=============================================================================
