----------------------- MODULE SandboxLifecycle_proofs -----------------------
(* Theorems about SandboxLifecycle, for every set of sandboxes and every    *)
(* bound.                                                                   *)
EXTENDS SandboxLifecycle, TLAPS

USE DEF Status, Live, Provisioning, NoRow, WfPc, TdPc, FailOp, Keep

LEMMA InitType == Init => TypeOK
BY LifecycleConstants DEF Init, TypeOK, CoreType, RequestType, OutsideType

LEMMA AdvanceType ==
  ASSUME CoreType, NEW s \in Sandboxes, NEW to \in Status, NEW steps \in Nat,
         Advance(s, to, steps)
  PROVE  /\ status' \in [Sandboxes -> Status]
         /\ version' \in [Sandboxes -> Nat]
         /\ failOp' \in [Sandboxes -> FailOp]
BY DEF CoreType, Advance

LEMMA FailWithType ==
  ASSUME CoreType, NEW s \in Sandboxes, NEW op \in FailOp, FailWith(s, op)
  PROVE  /\ status' \in [Sandboxes -> Status]
         /\ version' \in [Sandboxes -> Nat]
         /\ failOp' \in [Sandboxes -> FailOp]
BY DEF CoreType, FailWith

LEMMA DestroyType ==
  ASSUME RequestType, NEW s \in Sandboxes, NEW f \in BOOLEAN, NEW k \in Keep,
         Destroy(s, f, k)
  PROVE  /\ cancelled' \subseteq Sandboxes
         /\ tpc' \in [Sandboxes -> TdPc]
         /\ tprev' \in [Sandboxes -> Status]
         /\ force' \in [Sandboxes -> BOOLEAN]
         /\ drain' \in [Sandboxes -> BOOLEAN]
         /\ keep' \in [Sandboxes -> Keep]
<1>1. CASE tpc[s] # "idle"  BY <1>1 DEF RequestType, Destroy
<1>2. CASE tpc[s] = "idle"
  <2>1. cancelled' \subseteq Sandboxes
    BY <1>2 DEF RequestType, Destroy, Cancel
  <2>2. /\ tpc' \in [Sandboxes -> TdPc]
        /\ tprev' \in [Sandboxes -> Status]
        /\ force' \in [Sandboxes -> BOOLEAN]
        /\ keep' \in [Sandboxes -> Keep]
    BY <1>2 DEF RequestType, Destroy
  <2>3. (wpc[s] # "idle") \in BOOLEAN
    OBVIOUS
  <2>4. drain' \in [Sandboxes -> BOOLEAN]
    BY <1>2, <2>3 DEF RequestType, Destroy
  <2>5. QED  BY <2>1, <2>2, <2>4
<1>3. QED  BY <1>1, <1>2

LEMMA CatchCancelledType ==
  ASSUME CoreType, NEW s \in Sandboxes, NEW lateHandle, NEW ws, CatchCancelled(s, lateHandle, ws)
  PROVE  CoreType'
BY DEF CoreType, CatchCancelled, BindsLate
LEMMA CatchFailureType ==
  ASSUME CoreType, NEW s \in Sandboxes, NEW made, CatchFailure(s, made)
  PROVE  CoreType'
BY DEF CoreType, CatchFailure, FailWith, Release
LEMMA WfAdvanceType ==
  ASSUME CoreType, NEW s \in Sandboxes, NEW to \in Status, NEW steps \in Nat, NEW next \in WfPc, WfAdvance(s, to, steps, next)
  PROVE  /\ status' \in [Sandboxes -> Status]
  /\ version' \in [Sandboxes -> Nat]
  /\ failOp' \in [Sandboxes -> FailOp]
  /\ wpc' \in [Sandboxes -> WfPc]
  /\ wver' \in [Sandboxes -> Nat]
BY DEF CoreType, WfAdvance, Advance

LEMMA CatchType ==
  ASSUME CoreType, NEW s \in Sandboxes, NEW lateHandle, NEW made, NEW ws,
         Catch(s, lateHandle, made, ws)
  PROVE  CoreType'
BY CatchCancelledType, CatchFailureType DEF Catch

LEMMA StepType ==
  ASSUME TypeOK, NEW s \in Sandboxes, NEW ok \in BOOLEAN,
         ProvisionBegin(s) \/ WfAnswer(s, ok)
  PROVE  TypeOK'
<1> USE DEF TypeOK
<1>1. CASE ProvisionBegin(s)
  <2>1. CoreType'
    BY <1>1, CatchType, WfAdvanceType DEF ProvisionBegin, CoreType
  <2>2. QED  BY <1>1, <2>1 DEF ProvisionBegin, others, tdVars, reqVars, histVars, RequestType, OutsideType
<1>2. CASE PrepareDone(s, ok)
  <2>1. CoreType'
    BY <1>2, CatchType, WfAdvanceType DEF PrepareDone, CoreType
  <2>2. QED  BY <1>2, <2>1 DEF PrepareDone, others, tdVars, reqVars, histVars, RequestType, OutsideType
<1>3. CASE CredsDone(s, ok)
  <2>1. CoreType'
    BY <1>3, CatchType DEF CredsDone, CoreType
  <2>2. QED  BY <1>3, <2>1 DEF CredsDone, others, tdVars, reqVars, histVars, RequestType, OutsideType
<1>4. CASE CreateDone(s, ok)
  <2>1. CoreType'
    BY <1>4, CatchType, WfAdvanceType DEF CreateDone, CoreType
  <2>2. QED  BY <1>4, <2>1 DEF CreateDone, others, tdVars, reqVars, histVars, RequestType, OutsideType
<1>5. CASE StartDone(s, ok)
  <2>1. CoreType'
    BY <1>5, CatchType DEF StartDone, StartingStep, CoreType
  <2>2. QED  BY <1>5, <2>1 DEF StartDone, others, tdVars, reqVars, histVars, RequestType, OutsideType
<1>6. CASE InstallDone(s, ok)
  <2>1. CoreType'
    BY <1>6, CatchType DEF InstallDone, StartingStep, CoreType
  <2>2. QED  BY <1>6, <2>1 DEF InstallDone, others, tdVars, reqVars, histVars, RequestType, OutsideType
<1>7. CASE InjectDone(s, ok)
  <2>1. CoreType'
    BY <1>7, CatchType, WfAdvanceType DEF InjectDone, CoreType
  <2>2. prompted' \in [Sandboxes -> Nat]
    <3>1. CASE ok /\ Active(s)
      BY <1>7, <3>1 DEF InjectDone, OutsideType
    <3>2. CASE ~(ok /\ Active(s))
      BY <1>7, <3>2 DEF InjectDone, OutsideType
    <3>3. QED  BY <3>1, <3>2
  <2>3. RequestType'
    BY <1>7 DEF InjectDone, others, tdVars, reqVars, RequestType
  <2>4. OutsideType'
    BY <1>7, <2>2 DEF InjectDone, others, OutsideType
  <2>5. QED  BY <2>1, <2>3, <2>4
<1>8. CASE SessionDone(s, ok)
  <2>1. CoreType'
    BY <1>8, CatchType, WfAdvanceType DEF SessionDone, CoreType
  <2>2. QED  BY <1>8, <2>1 DEF SessionDone, ConsumeInitialTask, others, tdVars, reqVars, histVars, RequestType, OutsideType
<1> USE DEF CoreType, RequestType, OutsideType, rowVars, tdVars, reqVars, histVars
<1>9. CASE DropLateDone(s, ok)  BY <1>9 DEF DropLateDone
<1>10. CASE DropDirDone(s, ok)  BY <1>10 DEF DropDirDone
<1>11. CASE UndoDone(s, ok)     BY <1>11 DEF UndoDone
<1>12. CASE UndoDirDone(s, ok)  BY <1>12 DEF UndoDirDone, Release
<1>13. QED
  BY <1>1, <1>2, <1>3, <1>4, <1>5, <1>6, <1>7, <1>8, <1>9, <1>10, <1>11, <1>12 DEF WfAnswer

LEMMA RequestStepType ==
  ASSUME TypeOK, NEW s \in Sandboxes, NEW ok \in BOOLEAN, NEW k \in Keep,
         \/ Create(s) \/ StartRequest(s) \/ StartAdvance(s) \/ StopRequest(s)
         \/ StopDone(s, ok) \/ DestroyRequest(s, ok, k) \/ FinishTask(s, k)
         \/ FinishRetained(s)
  PROVE  TypeOK'
<1> USE DEF TypeOK, CoreType, RequestType, OutsideType,
            rowVars, wfVars, tdVars, reqVars, extVars, histVars
<1>1. CASE Create(s)           BY <1>1 DEF Create
<1>2. CASE StartRequest(s)     BY <1>2 DEF StartRequest
<1>3. CASE StartAdvance(s)
  <2> USE <1>3 DEF StartAdvance
  <2>1. /\ status' \in [Sandboxes -> Status]
        /\ version' \in [Sandboxes -> Nat]
        /\ failOp' \in [Sandboxes -> FailOp]
    <3>1. CASE CanSave(s, over[s])
      BY <3>1, AdvanceType
    <3>2. CASE ~CanSave(s, over[s])
      BY <3>2
    <3>3. QED  BY <3>1, <3>2
  <2>2. /\ wpc' \in [Sandboxes -> WfPc]
        /\ kind' \in [Sandboxes -> {"provision", "restart"}]
        /\ wver' \in [Sandboxes -> Nat]
    <3>1. CASE CanSave(s, over[s]) /\ wpc[s] = "idle"
      <4>1. /\ wpc' = [wpc EXCEPT ![s] = "creds"]
            /\ kind' = [kind EXCEPT ![s] = "restart"]
            /\ wver' = [wver EXCEPT ![s] = version[s] + 1]
        BY <3>1
      <4>2. QED  BY <4>1
    <3>2. CASE ~(CanSave(s, over[s]) /\ wpc[s] = "idle")
      <4>1. UNCHANGED wfVars
        BY <3>2 DEF CanSave
      <4>2. QED  BY <4>1
    <3>3. QED  BY <3>1, <3>2 DEF CanSave
  <2>3. opc' \in [Sandboxes -> {"idle", "image"}]
    OBVIOUS
  <2>4. QED  BY <2>1, <2>2, <2>3
<1>4. CASE StopRequest(s)      BY <1>4, AdvanceType DEF StopRequest
<1>5. CASE StopDone(s, ok)     
  <2>1. /\ status' \in [Sandboxes -> Status]
        /\ version' \in [Sandboxes -> Nat]
        /\ failOp' \in [Sandboxes -> FailOp]
    BY <1>5, AdvanceType, FailWithType DEF StopDone
  <2>2. quota' \in [Sandboxes -> {"none", "reserved", "released"}]
    BY <1>5 DEF StopDone, Release
  <2>3. QED  BY <1>5, <2>1, <2>2 DEF StopDone
<1>6. CASE DestroyRequest(s, ok, k)  BY <1>6, DestroyType DEF DestroyRequest
<1>7. CASE FinishTask(s, k)
  <2>1. /\ finished' \in [Sandboxes -> BOOLEAN]
        /\ version' \in [Sandboxes -> Nat]
    BY <1>7 DEF FinishTask
  <2>2. /\ cancelled' \subseteq Sandboxes
        /\ tpc' \in [Sandboxes -> TdPc]
        /\ tprev' \in [Sandboxes -> Status]
        /\ force' \in [Sandboxes -> BOOLEAN]
        /\ drain' \in [Sandboxes -> BOOLEAN]
        /\ keep' \in [Sandboxes -> Keep]
    <3>1. PICK f \in BOOLEAN : Destroy(s, f, k)
      BY <1>7, Zenon DEF FinishTask
    <3>2. QED  BY <3>1, DestroyType
  <2>3. UNCHANGED <<status, handle, consumed, failOp, wfVars, reqVars, extVars, histVars>>
    BY <1>7 DEF FinishTask
  <2>4. QED  BY <2>1, <2>2, <2>3
<1>8. CASE FinishRetained(s)   BY <1>8 DEF FinishRetained
<1>9. QED  BY <1>1, <1>2, <1>3, <1>4, <1>5, <1>6, <1>7, <1>8

LEMMA TdFailType ==
  ASSUME TypeOK, NEW s \in Sandboxes, TdFail(s)
  PROVE  /\ status' \in [Sandboxes -> Status]
         /\ version' \in [Sandboxes -> Nat]
         /\ failOp' \in [Sandboxes -> FailOp]
         /\ tpc' \in [Sandboxes -> TdPc]
         /\ UNCHANGED <<handle, consumed, finished>>
<1> USE DEF TypeOK, CoreType, RequestType, KeepsProvisionFailure
<1>1. tpc' = [tpc EXCEPT ![s] = "release"] /\ UNCHANGED <<handle, consumed, finished>>
  BY DEF TdFail, TdTo
<1>2. tpc' \in [Sandboxes -> TdPc]
  BY <1>1
<1>3. CASE status[s] # "destroying"
  BY <1>1, <1>2, <1>3 DEF TdFail
<1>4. CASE status[s] = "destroying" /\ KeepsProvisionFailure(s)
  BY <1>1, <1>2, <1>4, AdvanceType DEF TdFail
<1>5. CASE status[s] = "destroying" /\ ~KeepsProvisionFailure(s)
  BY <1>1, <1>2, <1>5, FailWithType DEF TdFail
<1>6. QED  BY <1>3, <1>4, <1>5

LEMMA TdMarkType ==
  ASSUME CoreType, RequestType, NEW s \in Sandboxes, TdMark(s)
  PROVE  /\ status' \in [Sandboxes -> Status]
         /\ version' \in [Sandboxes -> Nat]
         /\ failOp' \in [Sandboxes -> FailOp]
         /\ tpc' \in [Sandboxes -> TdPc]
         /\ tprev' \in [Sandboxes -> Status]
<1>1. CASE status[s] \in NoRow \cup {"destroyed"}
  <2>1. TdTo(s, "idle") /\ UNCHANGED <<status, version, failOp, tprev>>
    BY <1>1 DEF TdMark
  <2>2. QED  BY <2>1 DEF CoreType, RequestType, TdTo
<1>2. CASE status[s] \notin NoRow \cup {"destroyed"}
  <2>1. PICK pc \in TdPc : TdTo(s, pc)
    <3>1. AfterHandle(s, TRUE, status[s]) \in TdPc
      BY SMT DEF AfterHandle
    <3>2. (IF handle[s] THEN AfterHandle(s, TRUE, status[s]) ELSE "drain") \in TdPc
      BY <3>1
    <3>3. TdTo(s, IF handle[s] THEN AfterHandle(s, TRUE, status[s]) ELSE "drain")
      BY <1>2 DEF TdMark
    <3>4. QED  BY <3>2, <3>3
  <2>2. tpc' \in [Sandboxes -> TdPc]
    BY <2>1 DEF RequestType, TdTo
  <2>3. tprev' = [tprev EXCEPT ![s] = status[s]]
    BY <1>2 DEF TdMark
  <2>4. tprev' \in [Sandboxes -> Status]
    BY <2>3 DEF CoreType, RequestType
  <2>5. CASE status[s] = "destroying"
    <3>1. UNCHANGED <<status, version, failOp>>
      BY <1>2, <2>5 DEF TdMark
    <3>2. QED  BY <2>2, <2>4, <3>1 DEF CoreType
  <2>6. CASE status[s] # "destroying"
    <3>1. Advance(s, "destroying", 1)
      BY <1>2, <2>6 DEF TdMark
    <3>2. QED  BY <2>2, <2>4, <3>1, AdvanceType
  <2>7. QED  BY <2>5, <2>6
<1>3. QED  BY <1>1, <1>2

LEMMA TdStepType ==
  ASSUME TypeOK, NEW s \in Sandboxes, TdStep(s)
  PROVE  TypeOK'
<1> USE DEF TypeOK, CoreType, RequestType, OutsideType, TdTo, tdOthers,
            rowVars, wfVars, tdVars, reqVars, extVars, histVars
<1>1. CASE TdMark(s)
  <2>1. /\ UNCHANGED <<handle, consumed, finished, wfVars, cancelled, force, drain, keep>>
        /\ UNCHANGED <<reqVars, extVars, histVars>>
    BY <1>1 DEF TdMark
  <2>2. QED  BY <1>1, <2>1, TdMarkType
<1>2. CASE TdDrained(s)       BY <1>2 DEF TdDrained, AfterHandle
<1>3. CASE TdDrainTimeout(s)  BY <1>3, TdFailType DEF TdDrainTimeout
<1>4. ASSUME NEW ok \in BOOLEAN, TdStop(s, ok) PROVE TypeOK'  BY <1>4 DEF TdStop
<1>5. CASE TdDestroyed(s)     BY <1>5 DEF TdDestroyed
<1>6. ASSUME NEW pending \in BOOLEAN, TdDestroyFailed(s, pending) PROVE TypeOK'
  BY <1>6, TdFailType DEF TdDestroyFailed
<1>7. ASSUME NEW ok \in BOOLEAN, TdCleanup(s, ok) PROVE TypeOK'
  <2>1. CASE ok
    <3>1. PICK d \in {"kept", "none"}, pc \in {"register", "finish"} :
            dir' = [dir EXCEPT ![s] = d] /\ TdTo(s, pc)
      BY <1>7, <2>1 DEF TdCleanup
    <3>2. UNCHANGED <<rowVars, inst, retained, quota, late, tdOthers>>
      BY <1>7, <2>1 DEF TdCleanup
    <3>3. dir' \in [Sandboxes -> {"none", "present", "kept"}] /\ tpc' \in [Sandboxes -> TdPc]
      BY <3>1
    <3>4. QED  BY <3>2, <3>3
  <2>2. CASE ~ok
    BY <1>7, <2>2, TdFailType DEF TdCleanup
  <2>3. QED  BY <2>1, <2>2
<1>8. ASSUME NEW ok \in BOOLEAN, TdRegister(s, ok) PROVE TypeOK'
  BY <1>8, TdFailType DEF TdRegister
<1>9. CASE TdFinish(s)        BY <1>9 DEF TdFinish, Advance
<1>10. CASE TdRelease(s)      BY <1>10 DEF TdRelease, Release
<1>11. QED  BY <1>1, <1>2, <1>3, <1>4, <1>5, <1>6, <1>7, <1>8, <1>9, <1>10 DEF TdStep

LEMMA OutsideStepType ==
  ASSUME TypeOK, NEW s \in Sandboxes, NEW removed \in BOOLEAN, NEW cleaned \in BOOLEAN,
         \/ JobClean(s, removed, cleaned) \/ RemoveVolume(s) \/ QuotaSweep(s)
         \/ LateDestroy(s) \/ InstanceLost(s) \/ ProjectDelete
  PROVE  TypeOK'
<1> USE DEF TypeOK, CoreType, RequestType, OutsideType,
            rowVars, wfVars, tdVars, reqVars, extVars, histVars
<1>1. CASE JobClean(s, removed, cleaned)  BY <1>1 DEF JobClean
<1>2. CASE RemoveVolume(s)     BY <1>2 DEF RemoveVolume
<1>3. CASE QuotaSweep(s)       BY <1>3 DEF QuotaSweep, Release
<1>4. CASE LateDestroy(s)      BY <1>4 DEF LateDestroy
<1>5. CASE InstanceLost(s)     BY <1>5 DEF InstanceLost
<1>6. CASE ProjectDelete       BY <1>6 DEF ProjectDelete
<1>7. QED  BY <1>1, <1>2, <1>3, <1>4, <1>5, <1>6

LEMMA RestartType == TypeOK /\ Restart => TypeOK'
BY DEF TypeOK, CoreType, RequestType, OutsideType, Restart, rowVars

(* Every step preserves the types. *)
LEMMA NextType == TypeOK /\ [Next]_vars => TypeOK'
<1> SUFFICES ASSUME TypeOK, [Next]_vars PROVE TypeOK'
  OBVIOUS
<1>1. CASE UNCHANGED vars
  BY <1>1 DEF vars, rowVars, wfVars, tdVars, reqVars, extVars, histVars,
              TypeOK, CoreType, RequestType, OutsideType
<1>2. CASE Next
  <2>1. ASSUME NEW s \in Sandboxes, NEW ok \in BOOLEAN, ProvisionBegin(s) \/ WfAnswer(s, ok)
        PROVE  TypeOK'
    BY <2>1, StepType
  <2>2. ASSUME NEW s \in Sandboxes, NEW ok \in BOOLEAN, NEW k \in Keep,
               \/ Create(s) \/ StartRequest(s) \/ StartAdvance(s) \/ StopRequest(s)
               \/ StopDone(s, ok) \/ DestroyRequest(s, ok, k) \/ FinishTask(s, k)
               \/ FinishRetained(s)
        PROVE  TypeOK'
    BY <2>2, RequestStepType
  <2>3. ASSUME NEW s \in Sandboxes, TdStep(s) PROVE TypeOK'
    BY <2>3, TdStepType
  <2>4. ASSUME NEW s \in Sandboxes, NEW removed \in BOOLEAN, NEW cleaned \in BOOLEAN,
               \/ JobClean(s, removed, cleaned) \/ RemoveVolume(s) \/ QuotaSweep(s)
               \/ LateDestroy(s) \/ InstanceLost(s)
        PROVE  TypeOK'
    BY <2>4, OutsideStepType
  <2>5. CASE ProjectDelete
    <3> PICK s \in Sandboxes : TRUE
      BY <2>5 DEF ProjectDelete
    <3> QED  BY <2>5, OutsideStepType
  <2>6. CASE Restart  BY <2>6, RestartType
  <2>7. QED  BY <1>2, <2>1, <2>2, <2>3, <2>4, <2>5, <2>6 DEF Next
<1>3. QED  BY <1>1, <1>2

(* Type correctness of the sandbox rows, workflows, teardowns and requests. *)
THEOREM TypeCorrect == Spec => []TypeOK
BY InitType, NextType, PTL DEF Spec

-----------------------------------------------------------------------------
(* The inductive invariant.                                                *)

(* The steps of a workflow before its catch block, and those of them in    *)
(* which the agent session was not started yet.                            *)
BeforeSession == {"queued", "prepare", "creds", "create", "start", "install", "inject"}
Working == BeforeSession \cup {"session", "attach"}

(* The status a workflow left its row in when it awaits a given answer. *)
StatusAt(s) ==
  CASE wpc[s] = "queued"  -> "pending"
    [] wpc[s] = "prepare" -> "preparing-workspace"
    [] wpc[s] = "create"  -> "creating"
    [] wpc[s] = "creds"   -> IF kind[s] = "restart" THEN "starting" ELSE "creating"
    [] OTHER              -> "starting"

WorkflowInv(s) ==
  /\ wpc[s] \in Working /\ s \notin cancelled =>
       CanSave(s, wver[s]) /\ status[s] = StatusAt(s)
  /\ wpc[s] \in {"queued", "prepare"} => kind[s] = "provision"
  /\ status[s] = "absent" =>
       /\ wpc[s] = "idle" /\ tpc[s] = "idle" /\ opc[s] = "idle"
       /\ kind[s] = "provision" /\ wver[s] = version[s]

TeardownInv(s) ==
  /\ tpc[s] # "idle" => s \in cancelled
  /\ tpc[s] \in {"drain", "stop", "destroy", "cleanup", "register", "finish"} =>
       status[s] = "destroying"

StartInv(s) ==
  opc[s] = "image" =>
    /\ over[s] <= version[s]
    /\ over[s] = version[s] => status[s] \in {"stopped", "deleted"}

\* A prompt that was handed out and not consumed: its task can never be
\* provisioned, started or made to run again.
PromptInv(s) ==
  /\ prompted[s] <= 1
  /\ prompted[s] = 1 /\ ~consumed[s] =>
       /\ wpc[s] \notin BeforeSession \cup {"attach"}
       /\ status[s] \notin {"running", "idle", "stopping", "stopped"}
  /\ status[s] = "absent" => prompted[s] = 0

InvAt(s) == WorkflowInv(s) /\ TeardownInv(s) /\ StartInv(s) /\ PromptInv(s)

LifecycleInv == \A s \in Sandboxes : InvAt(s)

(* What InvAt reads of a sandbox does not change. *)
Untouched(s) ==
  /\ status'[s] = status[s] /\ version'[s] = version[s]
  /\ consumed'[s] = consumed[s] /\ prompted'[s] = prompted[s]
  /\ wpc'[s] = wpc[s] /\ kind'[s] = kind[s] /\ wver'[s] = wver[s]
  /\ tpc'[s] = tpc[s] /\ opc'[s] = opc[s] /\ over'[s] = over[s]
  /\ s \in cancelled' <=> s \in cancelled

LEMMA UntouchedInv ==
  ASSUME NEW s \in Sandboxes, InvAt(s), Untouched(s)
  PROVE  InvAt(s)'
BY DEF InvAt, WorkflowInv, TeardownInv, StartInv, PromptInv, Untouched, CanSave, StatusAt

(* A step of sandbox s only has to restore what the invariant says of s. *)
LEMMA OneSandbox ==
  ASSUME LifecycleInv, NEW s \in Sandboxes, InvAt(s)',
         \A r \in Sandboxes \ {s} : Untouched(r)
  PROVE  LifecycleInv'
<1>1. \A r \in Sandboxes \ {s} : InvAt(r)'
  BY UntouchedInv DEF LifecycleInv
<1>2. QED  BY <1>1 DEF LifecycleInv

LEMMA InitInv == Init => LifecycleInv
BY DEF Init, LifecycleInv, InvAt, WorkflowInv, TeardownInv, StartInv, PromptInv,
       Working, BeforeSession

(* Every variable the catch block leaves alone. *)
rest == <<consumed, prompted, others>>

LEMMA CatchInv ==
  ASSUME TypeOK, LifecycleInv, NEW s \in Sandboxes, wpc[s] \in Working,
         NEW lateHandle, NEW made, NEW ws,
         Catch(s, lateHandle, made, ws), UNCHANGED rest
  PROVE  LifecycleInv'
<1> USE DEF rest, others, tdVars, reqVars, TypeOK, CoreType, RequestType
<1>1. UNCHANGED <<consumed, prompted, tpc, opc, over, cancelled, kind, wver>>
  BY DEF Catch, CatchCancelled, CatchFailure
<1>2. InvAt(s)
  BY DEF LifecycleInv
<1>3. status[s] # "absent"
  BY <1>2 DEF InvAt, WorkflowInv, Working, BeforeSession
<1>4. wpc' = [wpc EXCEPT ![s] = wpc'[s]] /\ wpc'[s] \notin Working
  BY DEF Catch, CatchCancelled, CatchFailure, Working, BeforeSession
<1>5. CASE s \in cancelled
  <2>1. CatchCancelled(s, lateHandle, ws)
    BY <1>5 DEF Catch
  <2>2. /\ status' = status
        /\ version' = [version EXCEPT ![s] = version'[s]]
        /\ version'[s] = version[s] \/ (version'[s] = version[s] + 1 /\ status[s] = "destroying")
    BY <2>1 DEF CatchCancelled, BindsLate
  <2>3. \A r \in Sandboxes \ {s} : Untouched(r)
    BY <1>1, <1>4, <2>2 DEF Untouched
  <2>4. InvAt(s)'
    BY <1>1, <1>2, <1>3, <1>4, <1>5, <2>2
    DEF InvAt, WorkflowInv, TeardownInv, StartInv, PromptInv, Working, BeforeSession
  <2>5. QED  BY <2>3, <2>4, OneSandbox
<1>6. CASE s \notin cancelled
  <2>1. CatchFailure(s, made) /\ CanSave(s, wver[s])
    BY <1>2, <1>6 DEF Catch, InvAt, WorkflowInv
  <2>2. /\ status' = [status EXCEPT ![s] = "failed"]
        /\ version' = [version EXCEPT ![s] = version[s] + 1]
    BY <2>1 DEF CatchFailure, FailWith
  <2>3. \A r \in Sandboxes \ {s} : Untouched(r)
    BY <1>1, <1>4, <2>2 DEF Untouched
  <2>4. tpc[s] = "idle"
    BY <1>2, <1>6 DEF InvAt, TeardownInv
  <2>5. InvAt(s)'
    BY <1>1, <1>2, <1>3, <1>4, <1>6, <2>2, <2>4
    DEF InvAt, WorkflowInv, TeardownInv, StartInv, PromptInv, Working, BeforeSession
  <2>6. QED  BY <2>3, <2>5, OneSandbox
<1>7. QED  BY <1>5, <1>6

(* Where a write of the workflow may take it from. *)
AdvancesTo(s, to, next) ==
  \/ to = "preparing-workspace" /\ next = "prepare" /\ kind[s] = "provision"
  \/ to = "creating" /\ next = "creds" /\ kind[s] = "provision"
  \/ to = "starting" /\ next \in {"start", "session", "attach"}
  \/ to = "running" /\ next = "idle"

LEMMA WfAdvanceInv ==
  ASSUME TypeOK, LifecycleInv, NEW s \in Sandboxes, wpc[s] \in Working, Active(s),
         NEW to \in Status, NEW steps \in Nat \ {0}, NEW next \in WfPc,
         AdvancesTo(s, to, next), WfAdvance(s, to, steps, next),
         UNCHANGED <<kind, others>>,
         consumed' = [consumed EXCEPT ![s] = consumed'[s]],
         consumed[s] => consumed'[s],
         to = "running" => consumed'[s] \/ wpc[s] = "attach",
         prompted' = [prompted EXCEPT ![s] = prompted'[s]],
         \/ prompted'[s] = prompted[s]
         \/ prompted'[s] = prompted[s] + 1 /\ ~consumed[s] /\ wpc[s] = "inject"
              /\ next = "session",
         to = "running" => prompted' = prompted,
         next \in BeforeSession \cup {"attach"} =>
           wpc[s] \in BeforeSession /\ consumed' = consumed /\ prompted' = prompted
  PROVE  LifecycleInv'
<1> USE DEF others, tdVars, reqVars, TypeOK, CoreType, RequestType, OutsideType
<1>1. UNCHANGED <<tpc, opc, over, cancelled, kind>>
  OBVIOUS
<1>2. InvAt(s)
  BY DEF LifecycleInv
<1>3. /\ s \notin cancelled /\ tpc[s] = "idle"
      /\ CanSave(s, wver[s]) /\ status[s] = StatusAt(s)
  BY <1>2 DEF Active, InvAt, WorkflowInv, TeardownInv
<1>4. status[s] \notin {"absent", "stopped", "deleted"}
  BY <1>3 DEF CanSave, StatusAt, Working, BeforeSession
<1>5. /\ status' = [status EXCEPT ![s] = to]
      /\ version' = [version EXCEPT ![s] = version[s] + steps]
      /\ wver' = [wver EXCEPT ![s] = wver[s] + steps]
      /\ wpc' = [wpc EXCEPT ![s] = next]
  BY DEF WfAdvance, Advance
<1>6. \A r \in Sandboxes \ {s} : Untouched(r)
  BY <1>1, <1>5 DEF Untouched
<1>7. WorkflowInv(s)'
  BY <1>1, <1>3, <1>5 DEF WorkflowInv, CanSave, StatusAt, AdvancesTo, Working, BeforeSession
<1>8. TeardownInv(s)'
  BY <1>1, <1>3 DEF TeardownInv
<1>9. StartInv(s)'
  BY <1>1, <1>2, <1>4, <1>5 DEF InvAt, StartInv, AdvancesTo
<1>10. PromptInv(s)'
  <2>1. prompted'[s] <= 1
    BY <1>2 DEF InvAt, PromptInv, BeforeSession
  <2>2. ASSUME prompted'[s] = 1, ~consumed'[s]
        PROVE  /\ wpc'[s] \notin BeforeSession \cup {"attach"}
               /\ status'[s] \notin {"running", "idle", "stopping", "stopped"}
    BY <1>2, <1>5, <2>2 DEF InvAt, PromptInv, AdvancesTo, BeforeSession
  <2>3. status'[s] # "absent"
    BY <1>5 DEF AdvancesTo
  <2>4. QED  BY <2>1, <2>2, <2>3 DEF PromptInv
<1>11. QED  BY <1>6, <1>7, <1>8, <1>9, <1>10, OneSandbox DEF InvAt

(* A step that moves the workflow on without a write. *)
LEMMA GoOnInv ==
  ASSUME TypeOK, LifecycleInv, NEW s \in Sandboxes, wpc[s] \in Working,
         NEW next \in WfPc, wpc' = [wpc EXCEPT ![s] = next],
         \/ next \notin Working
         \/ wpc[s] = "creds" /\ kind[s] = "provision" /\ next = "create"
         \/ wpc[s] = "creds" /\ kind[s] = "restart" /\ next = "start"
         \/ wpc[s] \in {"start", "install"} /\ next \in {"install", "inject"},
         UNCHANGED <<status, version, consumed, prompted, kind, wver, others>>
  PROVE  LifecycleInv'
<1> USE DEF others, tdVars, reqVars, TypeOK, CoreType, RequestType, OutsideType
<1>1. InvAt(s)
  BY DEF LifecycleInv
<1>2. \A r \in Sandboxes \ {s} : Untouched(r)
  BY DEF Untouched
<1>3. status[s] # "absent"
  BY <1>1 DEF InvAt, WorkflowInv, Working, BeforeSession
<1>4. WorkflowInv(s)'
  BY <1>1, <1>3 DEF InvAt, WorkflowInv, CanSave, StatusAt, Working, BeforeSession
<1>5. TeardownInv(s)' /\ StartInv(s)'
  BY <1>1 DEF InvAt, TeardownInv, StartInv
<1>6. PromptInv(s)'
  BY <1>1, <1>3 DEF InvAt, PromptInv, Working, BeforeSession
<1>7. QED  BY <1>2, <1>4, <1>5, <1>6, OneSandbox DEF InvAt

(* Every answer a workflow gets, and its first step, keeps the invariant. *)
LEMMA WorkflowStepInv ==
  ASSUME TypeOK, LifecycleInv, NEW s \in Sandboxes, NEW ok \in BOOLEAN,
         ProvisionBegin(s) \/ WfAnswer(s, ok)
  PROVE  LifecycleInv'
<1> USE DEF Working, BeforeSession, AdvancesTo, TypeOK, CoreType, RequestType, OutsideType
<1>0. InvAt(s)
  BY DEF LifecycleInv
<1>1. CASE ProvisionBegin(s)
  <2>1. CASE Active(s)
    <3>1. kind[s] = "provision"
      BY <1>0, <1>1 DEF ProvisionBegin, InvAt, WorkflowInv
    <3>2. QED  BY <1>1, <2>1, <3>1, WfAdvanceInv DEF ProvisionBegin, histVars
  <2>2. CASE ~Active(s)
    BY <1>1, <2>2, CatchInv DEF ProvisionBegin, histVars, rest
  <2>3. QED  BY <2>1, <2>2
<1>2. CASE PrepareDone(s, ok)
  <2>1. CASE ok /\ Active(s)
    <3>1. kind[s] = "provision"
      BY <1>0, <1>2 DEF PrepareDone, InvAt, WorkflowInv
    <3>2. QED  BY <1>2, <2>1, <3>1, WfAdvanceInv DEF PrepareDone, histVars
  <2>2. CASE ~(ok /\ Active(s))
    <3>1. Catch(s, FALSE, FALSE, ok) /\ UNCHANGED rest
      BY <1>2, <2>2, Zenon DEF PrepareDone, histVars, rest
    <3>2. QED  BY <1>2, <3>1, CatchInv DEF PrepareDone
  <2>3. QED  BY <2>1, <2>2
<1>3. CASE CredsDone(s, ok)
  <2>1. CASE ok /\ s \notin cancelled
    BY <1>3, <2>1, GoOnInv DEF CredsDone, histVars
  <2>2. CASE ~(ok /\ s \notin cancelled)
    BY <1>3, <2>2, CatchInv DEF CredsDone, histVars, rest
  <2>3. QED  BY <2>1, <2>2
<1>4. CASE CreateDone(s, ok)
  <2>1. CASE ok /\ Active(s)
    BY <1>4, <2>1, WfAdvanceInv DEF CreateDone, histVars
  <2>2. CASE ~(ok /\ Active(s))
    <3>1. Catch(s, ok, ok, TRUE) /\ UNCHANGED rest
      BY <1>4, <2>2, Zenon DEF CreateDone, histVars, rest
    <3>2. QED  BY <1>4, <3>1, CatchInv DEF CreateDone
  <2>3. QED  BY <2>1, <2>2
<1>5. CASE StartDone(s, ok)
  <2>1. CASE ok /\ s \notin cancelled
    BY <1>5, <2>1, GoOnInv DEF StartDone, StartingStep, histVars
  <2>2. CASE ~(ok /\ s \notin cancelled)
    BY <1>5, <2>2, CatchInv DEF StartDone, StartingStep, histVars, rest
  <2>3. QED  BY <2>1, <2>2
<1>6. CASE InstallDone(s, ok)
  <2>1. CASE ok /\ s \notin cancelled
    BY <1>6, <2>1, GoOnInv DEF InstallDone, StartingStep, histVars
  <2>2. CASE ~(ok /\ s \notin cancelled)
    BY <1>6, <2>2, CatchInv DEF InstallDone, StartingStep, histVars, rest
  <2>3. QED  BY <2>1, <2>2
<1>7. CASE InjectDone(s, ok)
  <2>1. CASE ok /\ Active(s)
    <3>1. PICK carries \in BOOLEAN :
            /\ carries => ~consumed[s]
            /\ WfAdvance(s, "starting", 1, IF carries THEN "session" ELSE "attach")
            /\ prompted' = [prompted EXCEPT ![s] = IF carries THEN @ + 1 ELSE @]
      BY <1>7, <2>1 DEF InjectDone
    <3>2. UNCHANGED <<kind, others, consumed>>
      BY <1>7, <2>1 DEF InjectDone
    <3>0. wpc[s] = "inject" /\ wpc[s] \in Working /\ consumed \in [Sandboxes -> BOOLEAN]
      BY <1>7 DEF InjectDone
    <3>3. CASE carries
      <4>1. /\ WfAdvance(s, "starting", 1, "session") /\ ~consumed[s]
            /\ prompted'[s] = prompted[s] + 1
            /\ prompted' = [prompted EXCEPT ![s] = prompted'[s]]
        BY <3>1, <3>3
      <4>2. AdvancesTo(s, "starting", "session") /\ consumed' = [consumed EXCEPT ![s] = consumed'[s]]
        BY <3>0, <3>2
      <4> QED  BY <2>1, <3>0, <3>2, <4>1, <4>2, WfAdvanceInv DEF others
    <3>4. CASE ~carries
      <4>1. /\ WfAdvance(s, "starting", 1, "attach") /\ prompted' = prompted
            /\ prompted' = [prompted EXCEPT ![s] = prompted'[s]]
        BY <3>1, <3>4
      <4>2. AdvancesTo(s, "starting", "attach") /\ consumed' = [consumed EXCEPT ![s] = consumed'[s]]
        BY <3>0, <3>2
      <4> QED  BY <2>1, <3>0, <3>2, <4>1, <4>2, WfAdvanceInv DEF others
    <3>5. QED  BY <3>3, <3>4
  <2>2. CASE ~(ok /\ Active(s))
    BY <1>7, <2>2, CatchInv DEF InjectDone, rest
  <2>3. QED  BY <2>1, <2>2
<1>8. CASE SessionDone(s, ok)
  <2>1. CASE ok /\ Active(s)
    <3>1. CASE wpc[s] = "session"
      BY <1>8, <2>1, <3>1, WfAdvanceInv DEF SessionDone, ConsumeInitialTask, histVars
    <3>2. CASE wpc[s] = "attach"
      BY <1>8, <2>1, <3>2, WfAdvanceInv DEF SessionDone, histVars
    <3>3. QED  BY <1>8, <3>1, <3>2 DEF SessionDone
  <2>2. CASE ~(ok /\ Active(s))
    BY <1>8, <2>2, CatchInv DEF SessionDone, histVars, rest
  <2>3. QED  BY <2>1, <2>2
<1>9. CASE DropLateDone(s, ok) \/ DropDirDone(s, ok) \/ UndoDone(s, ok) \/ UndoDirDone(s, ok)
  <2> USE DEF rowVars, tdVars, reqVars, histVars
  <2>1. \A r \in Sandboxes \ {s} : Untouched(r)
    BY <1>9 DEF DropLateDone, DropDirDone, UndoDone, UndoDirDone, Untouched
  <2>2. /\ wpc[s] \notin Working /\ wpc[s] # "idle" /\ wpc'[s] \notin Working
        /\ UNCHANGED <<rowVars, kind, wver, cancelled, tdVars, reqVars, prompted>>
    BY <1>9 DEF DropLateDone, DropDirDone, UndoDone, UndoDirDone
  <2>3. InvAt(s)'
    BY <1>0, <2>2 DEF InvAt, WorkflowInv, TeardownInv, StartInv, PromptInv
  <2>4. QED  BY <2>1, <2>3, OneSandbox
<1>10. QED
  BY <1>1, <1>2, <1>3, <1>4, <1>5, <1>6, <1>7, <1>8, <1>9 DEF WfAnswer

(* The create, start and stop requests keep the invariant. *)
LEMMA RequestStepInv ==
  ASSUME TypeOK, LifecycleInv, NEW s \in Sandboxes, NEW ok \in BOOLEAN,
         \/ Create(s) \/ StartRequest(s) \/ StartAdvance(s) \/ StopRequest(s)
         \/ StopDone(s, ok) \/ FinishRetained(s)
  PROVE  LifecycleInv'
<1> USE DEF TypeOK, CoreType, RequestType, OutsideType,
            rowVars, wfVars, tdVars, reqVars, extVars, histVars, Working, BeforeSession
<1>0. InvAt(s)
  BY DEF LifecycleInv
<1>1. CASE Create(s)
  <2>1. \A r \in Sandboxes \ {s} : Untouched(r)
    BY <1>1 DEF Create, Untouched
  <2>2. InvAt(s)'
    BY <1>0, <1>1
    DEF Create, InvAt, WorkflowInv, TeardownInv, StartInv, PromptInv, StatusAt, CanSave
  <2>3. QED  BY <2>1, <2>2, OneSandbox
<1>2. CASE StartRequest(s)
  <2>1. \A r \in Sandboxes \ {s} : Untouched(r)
    BY <1>2 DEF StartRequest, Untouched
  <2>2. InvAt(s)'
    BY <1>0, <1>2
    DEF StartRequest, InvAt, WorkflowInv, TeardownInv, StartInv, PromptInv, StatusAt, CanSave
  <2>3. QED  BY <2>1, <2>2, OneSandbox
<1>3. CASE StartAdvance(s)
  <2>1. CASE CanSave(s, over[s])
    <3>1. status[s] = "stopped"
      BY <1>0, <1>3, <2>1 DEF StartAdvance, InvAt, StartInv, CanSave
    <3>2. /\ status' = [status EXCEPT ![s] = "starting"]
          /\ version' = [version EXCEPT ![s] = version[s] + 1]
          /\ opc' = [opc EXCEPT ![s] = "idle"]
          /\ UNCHANGED <<consumed, prompted, cancelled, tpc, over>>
      BY <1>3, <2>1 DEF StartAdvance, Advance
    <3>3. prompted[s] = 1 => consumed[s]
      BY <1>0, <3>1 DEF InvAt, PromptInv
    <3>4. wpc[s] \in Working => s \in cancelled
      BY <1>0, <3>1 DEF InvAt, WorkflowInv, StatusAt
    <3>5. CASE wpc[s] = "idle"
      <4>1. /\ wpc' = [wpc EXCEPT ![s] = "creds"]
            /\ kind' = [kind EXCEPT ![s] = "restart"]
            /\ wver' = [wver EXCEPT ![s] = version[s] + 1]
        BY <1>3, <2>1, <3>5 DEF StartAdvance
      <4>2. \A r \in Sandboxes \ {s} : Untouched(r)
        BY <3>2, <4>1 DEF Untouched
      <4>3. InvAt(s)'
        BY <1>0, <3>1, <3>2, <3>3, <4>1
        DEF InvAt, WorkflowInv, TeardownInv, StartInv, PromptInv, StatusAt, CanSave
      <4>4. QED  BY <4>2, <4>3, OneSandbox
    <3>6. CASE wpc[s] # "idle"
      <4>1. UNCHANGED wfVars
        BY <1>3, <2>1, <3>6 DEF StartAdvance
      <4>2. \A r \in Sandboxes \ {s} : Untouched(r)
        BY <3>2, <4>1 DEF Untouched
      <4>3. InvAt(s)'
        BY <1>0, <3>1, <3>2, <3>3, <3>4, <4>1
        DEF InvAt, WorkflowInv, TeardownInv, StartInv, PromptInv, StatusAt, CanSave
      <4>4. QED  BY <4>2, <4>3, OneSandbox
    <3>7. QED  BY <3>5, <3>6
  <2>2. CASE ~CanSave(s, over[s])
    <3>1. /\ opc' = [opc EXCEPT ![s] = "idle"]
          /\ UNCHANGED <<status, version, wpc, kind, wver>>
          /\ UNCHANGED <<consumed, prompted, cancelled, tpc, over>>
      BY <1>3, <2>2 DEF StartAdvance, CanSave
    <3>2. \A r \in Sandboxes \ {s} : Untouched(r)
      BY <3>1 DEF Untouched
    <3>3. InvAt(s)'
      BY <1>0, <3>1
      DEF InvAt, WorkflowInv, TeardownInv, StartInv, PromptInv, StatusAt, CanSave
    <3>4. QED  BY <3>2, <3>3, OneSandbox
  <2>3. QED  BY <2>1, <2>2
<1>4. CASE StopRequest(s)
  <2>1. \A r \in Sandboxes \ {s} : Untouched(r)
    BY <1>4 DEF StopRequest, Advance, Untouched
  <2>2. InvAt(s)'
    BY <1>0, <1>4
    DEF StopRequest, Advance, InvAt, WorkflowInv, TeardownInv, StartInv, PromptInv, StatusAt,
        CanSave
  <2>3. QED  BY <2>1, <2>2, OneSandbox
<1>5. CASE StopDone(s, ok)
  <2>1. UNCHANGED <<consumed, prompted, wpc, kind, wver, cancelled, tpc, opc, over>>
    BY <1>5 DEF StopDone
  <2>2. CASE status[s] = "stopping"
    <3>1. PICK to \in {"stopped", "failed"} : status' = [status EXCEPT ![s] = to]
      BY <1>5, <2>2 DEF StopDone, Advance, FailWith
    <3>2. version' = [version EXCEPT ![s] = version[s] + 1]
      BY <1>5, <2>2 DEF StopDone, Advance, FailWith
    <3>3. \A r \in Sandboxes \ {s} : Untouched(r)
      BY <2>1, <3>1, <3>2 DEF Untouched
    <3>4. InvAt(s)'
      BY <1>0, <2>1, <2>2, <3>1, <3>2
      DEF InvAt, WorkflowInv, TeardownInv, StartInv, PromptInv, StatusAt, CanSave
    <3>5. QED  BY <3>3, <3>4, OneSandbox
  <2>3. CASE status[s] # "stopping"
    <3>1. UNCHANGED <<status, version>>
      BY <1>5, <2>3 DEF StopDone
    <3>2. \A r \in Sandboxes : Untouched(r)
      BY <2>1, <3>1 DEF Untouched
    <3>3. QED  BY <3>2, UntouchedInv DEF LifecycleInv
  <2>4. QED  BY <2>2, <2>3
<1>6. CASE FinishRetained(s)
  <2>1. \A r \in Sandboxes : Untouched(r)
    BY <1>6 DEF FinishRetained, Untouched
  <2>2. QED  BY <2>1, UntouchedInv DEF LifecycleInv
<1>7. QED  BY <1>1, <1>2, <1>3, <1>4, <1>5, <1>6

(* Asking for a destroy cancels the workflow before anything else. *)
LEMMA DestroyInv ==
  ASSUME TypeOK, LifecycleInv, NEW s \in Sandboxes, NEW f \in BOOLEAN, NEW k \in Keep,
         DestroyRequest(s, f, k) \/ FinishTask(s, k)
  PROVE  LifecycleInv'
<1> USE DEF TypeOK, CoreType, RequestType, OutsideType,
            rowVars, wfVars, tdVars, reqVars, extVars, histVars
<1>0. InvAt(s)
  BY DEF LifecycleInv
<1>1. /\ UNCHANGED <<status, consumed, prompted, wpc, kind, wver, opc, over>>
      /\ version' = [version EXCEPT ![s] = version'[s]]
      /\ version'[s] = version[s] \/ version'[s] = version[s] + 1
      /\ status[s] # "absent"
  <2>1. CASE DestroyRequest(s, f, k)
    BY <2>1 DEF DestroyRequest
  <2>2. CASE FinishTask(s, k)
    BY <2>2 DEF FinishTask
  <2>3. QED  BY <2>1, <2>2
<1>2. PICK g \in BOOLEAN : Destroy(s, g, k)
  BY Zenon DEF DestroyRequest, FinishTask
<1>3. /\ s \in cancelled' /\ \A r \in Sandboxes \ {s} : r \in cancelled' <=> r \in cancelled
      /\ tpc' = [tpc EXCEPT ![s] = tpc'[s]]
      /\ tpc'[s] = tpc[s] \/ tpc'[s] = "mark"
  <2>1. CASE tpc[s] # "idle"
    BY <1>0, <1>2, <2>1 DEF Destroy, InvAt, TeardownInv
  <2>2. CASE tpc[s] = "idle"
    BY <1>2, <2>2 DEF Destroy, Cancel
  <2>3. QED  BY <2>1, <2>2
<1>4. \A r \in Sandboxes \ {s} : Untouched(r)
  BY <1>1, <1>3 DEF Untouched
<1>5. InvAt(s)'
  BY <1>0, <1>1, <1>3 DEF InvAt, WorkflowInv, TeardownInv, StartInv, PromptInv
<1>6. QED  BY <1>4, <1>5, OneSandbox

LEMMA TeardownStepInv ==
  ASSUME TypeOK, LifecycleInv, NEW s \in Sandboxes, TdStep(s)
  PROVE  LifecycleInv'
<1> USE DEF TypeOK, CoreType, RequestType, OutsideType,
            rowVars, wfVars, tdVars, reqVars, extVars, histVars
<1>0. InvAt(s)
  BY DEF LifecycleInv
<1>1. /\ UNCHANGED <<consumed, prompted, wpc, kind, wver, cancelled, opc, over>>
      /\ tpc[s] # "idle"
      /\ tpc' = [tpc EXCEPT ![s] = tpc'[s]]
  <2>1. UNCHANGED <<consumed, prompted, wpc, kind, wver, cancelled, opc, over>>
    BY DEF TdStep, TdMark, TdDrained, TdDrainTimeout, TdStop, TdDestroyed, TdDestroyFailed,
           TdCleanup, TdRegister, TdFinish, TdRelease, TdFail, tdOthers
  <2>2. tpc[s] # "idle"
    BY DEF TdStep, TdMark, TdDrained, TdDrainTimeout, TdStop, TdDestroyed, TdDestroyFailed,
           TdCleanup, TdRegister, TdFinish, TdRelease
  <2>3. \E pc : TdTo(s, pc)
    BY DEF TdStep, TdMark, TdDrained, TdDrainTimeout, TdStop, TdDestroyed, TdDestroyFailed,
           TdCleanup, TdRegister, TdFinish, TdRelease, TdFail
  <2>4. tpc' = [tpc EXCEPT ![s] = tpc'[s]]
    BY <2>3 DEF TdTo
  <2>5. QED  BY <2>1, <2>2, <2>4
<1>2. s \in cancelled /\ status[s] # "absent"
  BY <1>0, <1>1 DEF InvAt, WorkflowInv, TeardownInv
(* What a step does to the row, and where it may go with it. *)
<1>3. ASSUME UNCHANGED <<status, version>>,
             tpc'[s] \in {"idle", "release"} \/ status[s] = "destroying"
      PROVE  LifecycleInv'
  <2>1. \A r \in Sandboxes \ {s} : Untouched(r)
    BY <1>1, <1>3 DEF Untouched
  <2>2. InvAt(s)'
    BY <1>0, <1>1, <1>2, <1>3 DEF InvAt, WorkflowInv, TeardownInv, StartInv, PromptInv
  <2>3. QED  BY <2>1, <2>2, OneSandbox
<1>4. ASSUME NEW to \in {"destroying", "failed", "destroyed"},
             status' = [status EXCEPT ![s] = to],
             version' = [version EXCEPT ![s] = version[s] + 1],
             tpc'[s] \in {"idle", "release"} \/ to = "destroying"
      PROVE  LifecycleInv'
  <2>1. \A r \in Sandboxes \ {s} : Untouched(r)
    BY <1>1, <1>4 DEF Untouched
  <2>2. InvAt(s)'
    BY <1>0, <1>1, <1>2, <1>4 DEF InvAt, WorkflowInv, TeardownInv, StartInv, PromptInv
  <2>3. QED  BY <2>1, <2>2, OneSandbox
<1>5. ASSUME TdFail(s) PROVE LifecycleInv'
  <2>1. CASE status[s] = "destroying"
    BY <1>4, <1>5, <2>1 DEF TdFail, TdTo, KeepsProvisionFailure, Advance, FailWith
  <2>2. CASE status[s] # "destroying"
    BY <1>3, <1>5, <2>2 DEF TdFail, TdTo
  <2>3. QED  BY <2>1, <2>2
<1>6. CASE TdMark(s)
  <2>1. CASE status[s] \in NoRow \cup {"destroyed"}
    <3>1. UNCHANGED <<status, version>> /\ tpc' = [tpc EXCEPT ![s] = "idle"]
      BY <1>6, <2>1 DEF TdMark, TdTo
    <3>2. QED  BY <1>3, <3>1
  <2>2. CASE status[s] = "destroying"
    BY <1>3, <1>6, <2>2 DEF TdMark, TdTo
  <2>3. CASE status[s] \notin NoRow \cup {"destroyed", "destroying"}
    BY <1>4, <1>6, <2>3 DEF TdMark, TdTo, Advance
  <2>4. QED  BY <2>1, <2>2, <2>3
<1>7. CASE TdDrained(s)
  BY <1>0, <1>3, <1>7 DEF TdDrained, InvAt, TeardownInv
<1>8. CASE TdDrainTimeout(s)
  BY <1>5, <1>8 DEF TdDrainTimeout
<1>9. CASE \E ok \in BOOLEAN : TdStop(s, ok)
  BY <1>0, <1>3, <1>9 DEF TdStop, InvAt, TeardownInv
<1>10. CASE TdDestroyed(s)
  BY <1>0, <1>3, <1>10 DEF TdDestroyed, InvAt, TeardownInv
<1>11. CASE \E pending \in BOOLEAN : TdDestroyFailed(s, pending)
  BY <1>5, <1>11 DEF TdDestroyFailed
<1>12. CASE \E ok \in BOOLEAN : TdCleanup(s, ok)
  BY <1>0, <1>3, <1>5, <1>12 DEF TdCleanup, InvAt, TeardownInv
<1>13. CASE \E ok \in BOOLEAN : TdRegister(s, ok)
  BY <1>0, <1>3, <1>5, <1>13 DEF TdRegister, InvAt, TeardownInv
<1>14. CASE TdFinish(s)
  <2>1. status[s] = "destroying" /\ tpc'[s] = "release"
    BY <1>0, <1>14 DEF TdFinish, TdTo, InvAt, TeardownInv
  <2>2. QED  BY <1>4, <1>14, <2>1 DEF TdFinish, Advance
<1>15. CASE TdRelease(s)
  BY <1>3, <1>15 DEF TdRelease, TdTo
<1>16. QED
  BY <1>6, <1>7, <1>8, <1>9, <1>10, <1>11, <1>12, <1>13, <1>14, <1>15 DEF TdStep

(* The sweeps, the provider and the deletion of the project. *)
LEMMA OutsideStepInv ==
  ASSUME TypeOK, LifecycleInv, NEW s \in Sandboxes,
         NEW removed \in BOOLEAN, NEW cleaned \in BOOLEAN,
         \/ JobClean(s, removed, cleaned) \/ RemoveVolume(s) \/ QuotaSweep(s)
         \/ LateDestroy(s) \/ InstanceLost(s) \/ UNCHANGED vars
  PROVE  LifecycleInv'
<1>1. \A r \in Sandboxes : Untouched(r)
  BY DEF JobClean, RemoveVolume, QuotaSweep, LateDestroy, InstanceLost, Untouched,
         vars, rowVars, wfVars, tdVars, reqVars, extVars, histVars
<1>2. QED  BY <1>1, UntouchedInv DEF LifecycleInv

LEMMA ProjectDeleteInv == TypeOK /\ LifecycleInv /\ ProjectDelete => LifecycleInv'
<1> SUFFICES ASSUME TypeOK, LifecycleInv, ProjectDelete, NEW s \in Sandboxes PROVE InvAt(s)'
  BY DEF LifecycleInv
<1>1. InvAt(s)
  BY DEF LifecycleInv
<1>2. UNCHANGED <<version, consumed, prompted, wpc, kind, wver, cancelled, tpc, opc, over>>
  BY DEF ProjectDelete, wfVars, tdVars, reqVars, histVars
<1>3. \/ status'[s] = status[s]
      \/ status[s] \in {"stopped", "failed", "destroyed"} /\ status'[s] = "deleted"
  BY DEF ProjectDelete, TypeOK, CoreType
<1>4. QED
  BY <1>1, <1>2, <1>3
  DEF InvAt, WorkflowInv, TeardownInv, StartInv, PromptInv, StatusAt, CanSave

LEMMA RestartInv == TypeOK /\ LifecycleInv /\ Restart => LifecycleInv'
<1> SUFFICES ASSUME TypeOK, LifecycleInv, Restart, NEW s \in Sandboxes PROVE InvAt(s)'
  BY DEF LifecycleInv
<1>1. InvAt(s)
  BY DEF LifecycleInv
<1>2. /\ UNCHANGED <<status, version, consumed, prompted, kind, wver, over>>
      /\ wpc'[s] = "idle" /\ tpc'[s] = "idle" /\ opc'[s] = "idle"
  BY DEF Restart, rowVars
<1>3. QED
  BY <1>1, <1>2
  DEF InvAt, WorkflowInv, TeardownInv, StartInv, PromptInv, Working, BeforeSession

(* Every step preserves the invariant. *)
LEMMA NextInv == TypeOK /\ LifecycleInv /\ [Next]_vars => LifecycleInv'
<1> SUFFICES ASSUME TypeOK, LifecycleInv, [Next]_vars PROVE LifecycleInv'
  OBVIOUS
<1>1. ASSUME NEW s \in Sandboxes, NEW ok \in BOOLEAN, ProvisionBegin(s) \/ WfAnswer(s, ok)
      PROVE  LifecycleInv'
  BY <1>1, WorkflowStepInv
<1>2. ASSUME NEW s \in Sandboxes, NEW ok \in BOOLEAN,
             \/ Create(s) \/ StartRequest(s) \/ StartAdvance(s) \/ StopRequest(s)
             \/ StopDone(s, ok) \/ FinishRetained(s)
      PROVE  LifecycleInv'
  BY <1>2, RequestStepInv
<1>3. ASSUME NEW s \in Sandboxes, NEW f \in BOOLEAN, NEW k \in Keep,
             DestroyRequest(s, f, k) \/ FinishTask(s, k)
      PROVE  LifecycleInv'
  BY <1>3, DestroyInv
<1>4. ASSUME NEW s \in Sandboxes, TdStep(s) PROVE LifecycleInv'
  BY <1>4, TeardownStepInv
<1>5. ASSUME NEW s \in Sandboxes, NEW removed \in BOOLEAN, NEW cleaned \in BOOLEAN,
             \/ JobClean(s, removed, cleaned) \/ RemoveVolume(s) \/ QuotaSweep(s)
             \/ LateDestroy(s) \/ InstanceLost(s)
      PROVE  LifecycleInv'
  BY <1>5, OutsideStepInv
<1>6. CASE ProjectDelete     BY <1>6, ProjectDeleteInv
<1>7. CASE Restart           BY <1>7, RestartInv
<1>8. CASE UNCHANGED vars
  <2>1. \A r \in Sandboxes : Untouched(r)
    BY <1>8 DEF Untouched, vars, rowVars, wfVars, tdVars, reqVars, extVars, histVars
  <2>2. QED  BY <2>1, UntouchedInv DEF LifecycleInv
<1>9. QED  BY <1>1, <1>2, <1>3, <1>4, <1>5, <1>6, <1>7, <1>8 DEF Next

(* A workflow that was not cancelled, a teardown and a start request each  *)
(* know where their row stands.                                            *)
THEOREM LifecycleInvariant == Spec => [](TypeOK /\ LifecycleInv)
<1>1. Init => TypeOK /\ LifecycleInv
  BY InitType, InitInv
<1>2. TypeOK /\ LifecycleInv /\ [Next]_vars => (TypeOK /\ LifecycleInv)'
  BY NextType, NextInv
<1>3. QED  BY <1>1, <1>2, PTL DEF Spec

(* While it is not cancelled, a workflow holds the version of its row: no  *)
(* save of its own is refused, the one that records its failure included.  *)
THEOREM WorkflowIsCurrent == Spec => []UncancelledWorkflowIsCurrent
<1>1. TypeOK /\ LifecycleInv => UncancelledWorkflowIsCurrent
  BY DEF TypeOK, CoreType, LifecycleInv, InvAt, WorkflowInv, Working, BeforeSession,
         UncancelledWorkflowIsCurrent
<1>2. QED  BY <1>1, LifecycleInvariant, PTL

(* However starts, restarts of the task, restarts of the process and       *)
(* destroys interleave, the first prompt is handed to an agent once.       *)
THEOREM PromptOnce == Spec => []PromptAtMostOnce
<1>1. LifecycleInv => PromptAtMostOnce
  BY DEF LifecycleInv, InvAt, PromptInv, PromptAtMostOnce
<1>2. QED  BY <1>1, LifecycleInvariant, PTL
-----------------------------------------------------------------------------
(* Who answers for an instance, and who pays for it.                       *)

(* The workflow has no handle yet: its instance, if any, is still to come. *)
Unbound(s) ==
  \/ wpc[s] \in {"queued", "prepare", "create"}
  \/ wpc[s] = "creds" /\ kind[s] = "provision"

Ended == {"failed", "destroying", "destroyed", "deleted"}
AfterInstance == {"cleanup", "register", "finish"}

(* A teardown only goes past the instance when it has the handle, or when  *)
(* the workflow that could still bind one is over.                         *)
HandleInv(s) ==
  /\ Unbound(s) => ~handle[s]
  /\ wpc[s] = "create" => kind[s] = "provision"
  /\ status[s] = "absent" => ~handle[s]
  /\ opc[s] = "image" => handle[s]
  /\ tpc[s] # "idle" /\ ~drain[s] /\ ~handle[s] => wpc[s] = "idle"
  /\ tpc[s] \in {"stop", "destroy"} => handle[s]
  /\ tpc[s] \in AfterInstance => handle[s] \/ wpc[s] = "idle"
  /\ job[s] # "none" => status[s] = "deleted"

OwnedInv(s) ==
  /\ inst[s] # "none" /\ s \notin abandoned =>
      \/ handle[s] /\ status[s] \notin NoRow \cup {"destroyed"}
      \/ job[s] = "handle"
      \/ wpc[s] = "dropLate"
  /\ tpc[s] \in AfterInstance => inst[s] = "none" \/ s \in abandoned

(* A live row whose instance is there, or may still come, is paid for; who *)
(* may give the quota back finds the row past its life.                    *)
QuotaInv(s) ==
  /\ status[s] \in Live /\ (~handle[s] \/ inst[s] # "none") => quota[s] = "reserved"
  /\ wpc[s] \in {"undo", "undoDir"} => status[s] \in Ended
  /\ spc[s] = "stop" => status[s] \in Ended \cup {"stopping"}
  /\ tpc[s] = "release" => status[s] \in Ended

OwnAt(s) == HandleInv(s) /\ OwnedInv(s) /\ QuotaInv(s)

OwnershipInv == \A s \in Sandboxes : OwnAt(s)

(* What OwnAt reads of a sandbox does not change. *)
Kept(s) ==
  /\ status'[s] = status[s] /\ handle'[s] = handle[s]
  /\ wpc'[s] = wpc[s] /\ kind'[s] = kind[s]
  /\ tpc'[s] = tpc[s] /\ drain'[s] = drain[s] /\ opc'[s] = opc[s] /\ spc'[s] = spc[s]
  /\ inst'[s] = inst[s] /\ quota'[s] = quota[s] /\ job'[s] = job[s]
  /\ s \in abandoned' <=> s \in abandoned

LEMMA KeptOwn ==
  ASSUME NEW s \in Sandboxes, OwnAt(s), Kept(s)
  PROVE  OwnAt(s)'
BY DEF OwnAt, HandleInv, OwnedInv, QuotaInv, Unbound, AfterInstance, Ended, Kept

LEMMA OneOwner ==
  ASSUME OwnershipInv, NEW s \in Sandboxes, OwnAt(s)',
         \A r \in Sandboxes \ {s} : Kept(r)
  PROVE  OwnershipInv'
<1>1. \A r \in Sandboxes \ {s} : OwnAt(r)'
  BY KeptOwn DEF OwnershipInv
<1>2. QED  BY <1>1 DEF OwnershipInv

LEMMA InitOwn == Init => OwnershipInv
BY DEF Init, OwnershipInv, OwnAt, HandleInv, OwnedInv, QuotaInv, Unbound, AfterInstance, Ended

(* The catch block gives a late handle to the teardown or keeps it for its *)
(* own removal.                                                            *)
LEMMA CatchOwn ==
  ASSUME TypeOK, LifecycleInv, OwnershipInv, NEW s \in Sandboxes, wpc[s] \in Working,
         NEW lateHandle \in BOOLEAN, NEW made \in BOOLEAN, NEW ws,
         Catch(s, lateHandle, made, ws), UNCHANGED <<others, abandoned>>,
         lateHandle => s \in cancelled /\ wpc[s] = "create",
         \A r \in Sandboxes \ {s} : inst'[r] = inst[r],
         inst'[s] # "none" => inst[s] # "none" \/ lateHandle
  PROVE  OwnershipInv'
<1> USE DEF others, tdVars, reqVars, TypeOK, CoreType, RequestType, OutsideType
<1>1. UNCHANGED <<tpc, drain, opc, spc, job, abandoned, kind>>
  BY DEF Catch, CatchCancelled, CatchFailure
<1>2. OwnAt(s) /\ InvAt(s)
  BY DEF OwnershipInv, LifecycleInv
<1>3. wpc' = [wpc EXCEPT ![s] = wpc'[s]] /\ wpc'[s] \notin Working
  BY DEF Catch, CatchCancelled, CatchFailure, Working, BeforeSession
<1>4. lateHandle => ~handle[s] /\ kind[s] = "provision" /\ drain[s] = drain'[s]
  BY <1>1, <1>2 DEF OwnAt, HandleInv, Unbound
<1>5. wpc[s] # "idle" /\ wpc[s] # "dropLate"
  BY DEF Working, BeforeSession
<1>6. CASE s \in cancelled
  <2>1. CatchCancelled(s, lateHandle, ws)
    BY <1>6 DEF Catch
  <2>2. UNCHANGED <<status, quota>>
    BY <2>1 DEF CatchCancelled
  <2>3. /\ handle' = [handle EXCEPT ![s] = handle'[s]]
        /\ handle'[s] = (handle[s] \/ (lateHandle /\ status[s] = "destroying"))
    BY <2>1 DEF CatchCancelled, BindsLate
  <2>4. /\ lateHandle /\ status[s] # "destroying" => wpc'[s] = "dropLate"
        /\ lateHandle /\ status[s] = "destroying" => wpc'[s] = "idle"
        /\ wpc'[s] \in {"idle", "dropLate", "dropDir"}
    BY <1>4, <2>1 DEF CatchCancelled
  <2>5. \A r \in Sandboxes \ {s} : Kept(r)
    BY <1>1, <1>3, <2>2, <2>3 DEF Kept
  <2>6. HandleInv(s)'
    BY <1>1, <1>2, <1>5, <2>2, <2>3, <2>4 DEF OwnAt, HandleInv, Unbound, AfterInstance
  <2>7. OwnedInv(s)'
    BY <1>1, <1>2, <1>4, <1>5, <2>2, <2>3, <2>4
    DEF OwnAt, OwnedInv, HandleInv, AfterInstance
  <2>8. QuotaInv(s)'
    BY <1>1, <1>2, <1>4, <2>2, <2>3, <2>4 DEF OwnAt, QuotaInv
  <2>9. QED  BY <2>5, <2>6, <2>7, <2>8, OneOwner DEF OwnAt
<1>7. CASE s \notin cancelled
  <2>1. CatchFailure(s, made) /\ CanSave(s, wver[s]) /\ tpc[s] = "idle"
    BY <1>2, <1>7 DEF Catch, InvAt, WorkflowInv, TeardownInv
  <2>2. status' = [status EXCEPT ![s] = "failed"] /\ UNCHANGED handle
    BY <2>1 DEF CatchFailure, FailWith
  <2>3. wpc'[s] \in {"idle", "undo", "undoDir"}
    BY <2>1 DEF CatchFailure
  <2>4. quota' = [quota EXCEPT ![s] = quota'[s]]
    BY <2>1 DEF CatchFailure, Release
  <2>5. \A r \in Sandboxes \ {s} : Kept(r)
    BY <1>1, <1>3, <2>2, <2>4 DEF Kept
  <2>6. status[s] \notin NoRow
    BY <2>1 DEF CanSave
  <2>7. HandleInv(s)'
    BY <1>1, <1>2, <2>1, <2>2, <2>3, <2>6 DEF OwnAt, HandleInv, Unbound, AfterInstance
  <2>8. OwnedInv(s)'
    BY <1>1, <1>2, <1>5, <1>7, <2>1, <2>2, <2>3, <2>6
    DEF OwnAt, OwnedInv, HandleInv, AfterInstance
  <2>9. QuotaInv(s)'
    BY <1>1, <1>2, <2>1, <2>2, <2>3 DEF OwnAt, QuotaInv, Ended
  <2>10. QED  BY <2>5, <2>7, <2>8, <2>9, OneOwner DEF OwnAt
<1>8. QED  BY <1>6, <1>7

(* A write of the workflow: the row it moves on is live and paid for.      *)
LEMMA WfAdvanceOwn ==
  ASSUME TypeOK, LifecycleInv, OwnershipInv, NEW s \in Sandboxes, wpc[s] \in Working, Active(s),
         NEW to \in Live, NEW steps \in Nat, NEW next \in WfPc,
         WfAdvance(s, to, steps, next), UNCHANGED <<kind, quota, abandoned, others>>,
         next \in {"prepare", "creds", "start", "session", "attach", "idle"},
         next \in {"prepare", "creds"} => Unbound(s) /\ UNCHANGED handle,
         inst' = [inst EXCEPT ![s] = inst'[s]],
         handle' = [handle EXCEPT ![s] = handle'[s]],
         handle[s] => handle'[s],
         inst'[s] # inst[s] => handle'[s] /\ ~handle[s]
  PROVE  OwnershipInv'
<1> USE DEF others, tdVars, reqVars, TypeOK, CoreType, RequestType, OutsideType
<1>1. UNCHANGED <<tpc, drain, opc, spc, job>>
  OBVIOUS
<1>2. OwnAt(s) /\ InvAt(s)
  BY DEF OwnershipInv, LifecycleInv
<1>3. tpc[s] = "idle" /\ status[s] = StatusAt(s) /\ status[s] \notin NoRow
  BY <1>2 DEF Active, CanSave, InvAt, WorkflowInv, TeardownInv
<1>4. status[s] \in Live \ {"stopping"}
  BY <1>3 DEF StatusAt
<1>5. /\ status' = [status EXCEPT ![s] = to]
      /\ wpc' = [wpc EXCEPT ![s] = next]
  BY DEF WfAdvance, Advance
<1>6. \A r \in Sandboxes \ {s} : Kept(r)
  BY <1>1, <1>5 DEF Kept
<1>7. job[s] = "none"
  BY <1>2, <1>3 DEF OwnAt, HandleInv
<1>8. HandleInv(s)'
  BY <1>1, <1>2, <1>3, <1>5, <1>7 DEF OwnAt, HandleInv, Unbound, AfterInstance
<1>9. OwnedInv(s)'
  <2>1. wpc[s] # "dropLate"
    BY DEF Working, BeforeSession
  <2>2. QED  BY <1>1, <1>2, <1>3, <1>5, <1>7, <2>1 DEF OwnAt, OwnedInv, AfterInstance
<1>10. QuotaInv(s)'
  BY <1>1, <1>2, <1>3, <1>4, <1>5 DEF OwnAt, QuotaInv, Ended
<1>11. QED  BY <1>6, <1>8, <1>9, <1>10, OneOwner DEF OwnAt

(* A step that moves the workflow on without a write. *)
LEMMA GoOnOwn ==
  ASSUME TypeOK, OwnershipInv, NEW s \in Sandboxes, wpc[s] \in Working,
         NEW next, wpc' = [wpc EXCEPT ![s] = next],
         \/ wpc[s] = "creds" /\ kind[s] = "provision" /\ next = "create"
         \/ next \in {"start", "install", "inject"},
         UNCHANGED <<status, handle, kind, quota, abandoned, others>>,
         inst' = [inst EXCEPT ![s] = inst'[s]],
         inst'[s] # "none" => inst[s] # "none"
  PROVE  OwnershipInv'
<1> USE DEF others, tdVars, reqVars, TypeOK, CoreType, RequestType, OutsideType
<1>1. OwnAt(s)
  BY DEF OwnershipInv
<1>2. wpc[s] \notin {"idle", "dropLate"}
  BY DEF Working, BeforeSession
<1>3. \A r \in Sandboxes \ {s} : Kept(r)
  BY DEF Kept
<1>4. HandleInv(s)'
  BY <1>1, <1>2 DEF OwnAt, HandleInv, Unbound, AfterInstance
<1>5. OwnedInv(s)'
  BY <1>1, <1>2 DEF OwnAt, OwnedInv, AfterInstance
<1>6. QuotaInv(s)'
  BY <1>1 DEF OwnAt, QuotaInv
<1>7. QED  BY <1>3, <1>4, <1>5, <1>6, OneOwner DEF OwnAt

(* Every answer a workflow gets, and its first step. *)
LEMMA WorkflowStepOwn ==
  ASSUME TypeOK, LifecycleInv, OwnershipInv, NEW s \in Sandboxes, NEW ok \in BOOLEAN,
         ProvisionBegin(s) \/ WfAnswer(s, ok)
  PROVE  OwnershipInv'
<1> USE DEF Working, BeforeSession, TypeOK, CoreType, RequestType, OutsideType, histVars
<1>0. OwnAt(s) /\ InvAt(s)
  BY DEF OwnershipInv, LifecycleInv
<1>1. CASE ProvisionBegin(s)
  <2>1. CASE Active(s)
    BY <1>1, <2>1, WfAdvanceOwn DEF ProvisionBegin, Unbound
  <2>2. CASE ~Active(s)
    BY <1>1, <2>2, CatchOwn DEF ProvisionBegin
  <2>3. QED  BY <2>1, <2>2
<1>2. CASE PrepareDone(s, ok)
  <2>1. CASE ok /\ Active(s)
    BY <1>2, <2>1, WfAdvanceOwn DEF PrepareDone, Unbound
  <2>2. CASE ~(ok /\ Active(s))
    <3>1. Catch(s, FALSE, FALSE, ok) /\ UNCHANGED <<inst, abandoned, others>>
      BY <1>2, <2>2, Zenon DEF PrepareDone
    <3>2. QED  BY <1>2, <3>1, CatchOwn DEF PrepareDone
  <2>3. QED  BY <2>1, <2>2
<1>3. CASE CredsDone(s, ok)
  <2>1. CASE ok /\ s \notin cancelled
    BY <1>3, <2>1, GoOnOwn DEF CredsDone
  <2>2. CASE ~(ok /\ s \notin cancelled)
    BY <1>3, <2>2, CatchOwn DEF CredsDone
  <2>3. QED  BY <2>1, <2>2
<1>4. CASE CreateDone(s, ok)
  <2>1. CASE ok /\ Active(s)
    <3>1. ~handle[s]
      BY <1>0, <1>4 DEF CreateDone, OwnAt, HandleInv, Unbound
    <3>2. /\ wpc[s] = "create" /\ WfAdvance(s, "starting", 2, "start")
          /\ handle' = [handle EXCEPT ![s] = TRUE]
          /\ inst' = [inst EXCEPT ![s] = "stopped"]
          /\ UNCHANGED <<kind, quota, abandoned, others>>
      BY <1>4, <2>1 DEF CreateDone
    <3>3. /\ handle' = [handle EXCEPT ![s] = handle'[s]] /\ handle'[s]
          /\ inst' = [inst EXCEPT ![s] = inst'[s]]
      BY <3>2
    <3>4. QED  BY <2>1, <3>1, <3>2, <3>3, WfAdvanceOwn
  <2>2. CASE ~(ok /\ Active(s))
    <3>1. Catch(s, ok, ok, TRUE) /\ UNCHANGED <<abandoned, others>>
      BY <1>4, <2>2, Zenon DEF CreateDone
    <3>2. ok => s \in cancelled /\ wpc[s] = "create"
      BY <1>0, <1>4, <2>2 DEF CreateDone, InvAt, WorkflowInv, Active
    <3>3. inst' = [inst EXCEPT ![s] = IF ok THEN "stopped" ELSE @]
      BY <1>4 DEF CreateDone
    <3>4. wpc[s] = "create"
      BY <1>4 DEF CreateDone
    <3>5. inst'[s] # "none" => inst[s] # "none" \/ ok
      BY <3>3
    <3>6. \A r \in Sandboxes \ {s} : inst'[r] = inst[r]
      BY <3>3
    <3>7. wpc[s] \in Working /\ UNCHANGED others /\ UNCHANGED abandoned
      BY <3>1, <3>4
    <3>8. QED
      <4> HIDE DEF Working, BeforeSession, TypeOK, CoreType, RequestType, OutsideType
      <4> QED  BY <3>1, <3>2, <3>5, <3>6, <3>7, CatchOwn
  <2>3. QED  BY <2>1, <2>2
<1>5. CASE StartDone(s, ok)
  <2>1. PICK up \in BOOLEAN :
          inst' = [inst EXCEPT ![s] = IF up /\ @ # "none" THEN "running" ELSE @]
    BY <1>5 DEF StartDone
  <2>2. inst' = [inst EXCEPT ![s] = inst'[s]] /\ (inst'[s] # "none" => inst[s] # "none")
    BY <2>1
  <2>3. wpc[s] = "start" /\ UNCHANGED <<abandoned, others>>
    BY <1>5 DEF StartDone
  <2>4. CASE ok /\ s \notin cancelled
    BY <1>5, <2>2, <2>3, <2>4, GoOnOwn DEF StartDone, StartingStep
  <2>5. CASE ~(ok /\ s \notin cancelled)
    BY <1>5, <2>2, <2>3, <2>5, CatchOwn DEF StartDone, StartingStep
  <2>6. QED  BY <2>4, <2>5
<1>6. CASE InstallDone(s, ok)
  <2>1. CASE ok /\ s \notin cancelled
    BY <1>6, <2>1, GoOnOwn DEF InstallDone, StartingStep
  <2>2. CASE ~(ok /\ s \notin cancelled)
    BY <1>6, <2>2, CatchOwn DEF InstallDone, StartingStep
  <2>3. QED  BY <2>1, <2>2
<1>7. CASE InjectDone(s, ok)
  <2>1. CASE ok /\ Active(s)
    <3>1. PICK next \in {"session", "attach"} : WfAdvance(s, "starting", 1, next)
      BY <1>7, <2>1 DEF InjectDone
    <3>2. UNCHANGED <<handle, kind, quota, inst, abandoned, others>>
      BY <1>7, <2>1 DEF InjectDone
    <3>3. wpc[s] \in Working
      BY <1>7 DEF InjectDone
    <3>4. QED  BY <2>1, <3>1, <3>2, <3>3, WfAdvanceOwn
  <2>2. CASE ~(ok /\ Active(s))
    BY <1>7, <2>2, CatchOwn DEF InjectDone
  <2>3. QED  BY <2>1, <2>2
<1>8. CASE SessionDone(s, ok)
  <2>1. CASE ok /\ Active(s)
    <3>1. PICK steps \in {1, 2} : WfAdvance(s, "running", steps, "idle")
      BY <1>8, <2>1 DEF SessionDone
    <3>2. UNCHANGED <<handle, kind, quota, inst, abandoned, others>>
      BY <1>8, <2>1 DEF SessionDone, histVars
    <3>3. wpc[s] \in Working
      BY <1>8 DEF SessionDone
    <3>4. QED  BY <2>1, <3>1, <3>2, <3>3, WfAdvanceOwn
  <2>2. CASE ~(ok /\ Active(s))
    BY <1>8, <2>2, CatchOwn DEF SessionDone
  <2>3. QED  BY <2>1, <2>2
<1>9. CASE DropLateDone(s, ok) \/ DropDirDone(s, ok) \/ UndoDone(s, ok) \/ UndoDirDone(s, ok)
  <2> USE DEF rowVars, tdVars, reqVars
  <2>1. /\ UNCHANGED <<status, handle, kind, tpc, drain, opc, spc, job>>
        /\ \/ wpc[s] = "dropLate" /\ wpc'[s] = "dropDir"
           \/ wpc[s] = "dropDir" /\ wpc'[s] = "idle"
           \/ wpc[s] = "undo" /\ wpc'[s] = "undoDir"
           \/ wpc[s] = "undoDir" /\ wpc'[s] = "idle"
    BY <1>9 DEF DropLateDone, DropDirDone, UndoDone, UndoDirDone
  <2>2. /\ quota'[s] = quota[s] \/ wpc[s] = "undoDir"
        /\ inst'[s] = inst[s] \/ inst'[s] = "none"
        /\ s \in abandoned => s \in abandoned'
        /\ wpc[s] = "dropLate" => inst'[s] = "none" \/ s \in abandoned'
    BY <1>9 DEF DropLateDone, DropDirDone, UndoDone, UndoDirDone, Release
  <2>3. \A r \in Sandboxes \ {s} : Kept(r)
    BY <1>9 DEF DropLateDone, DropDirDone, UndoDone, UndoDirDone, Release, Kept
  <2>4. OwnAt(s)'
    BY <1>0, <2>1, <2>2
    DEF OwnAt, HandleInv, OwnedInv, QuotaInv, Unbound, AfterInstance, Ended
  <2>5. QED  BY <2>3, <2>4, OneOwner
<1>10. QED
  BY <1>1, <1>2, <1>3, <1>4, <1>5, <1>6, <1>7, <1>8, <1>9 DEF WfAnswer

(* The create, start and stop requests.  A stop that fails finds its row   *)
(* stopping, or taken by a teardown.                                       *)
LEMMA RequestStepOwn ==
  ASSUME TypeOK, LifecycleInv, OwnershipInv, NEW s \in Sandboxes, NEW ok \in BOOLEAN,
         \/ Create(s) \/ StartRequest(s) \/ StartAdvance(s) \/ StopRequest(s)
         \/ StopDone(s, ok) \/ FinishRetained(s)
  PROVE  OwnershipInv'
<1> USE DEF TypeOK, CoreType, RequestType, OutsideType,
            rowVars, wfVars, tdVars, reqVars, extVars, histVars
<1>0. OwnAt(s) /\ InvAt(s)
  BY DEF OwnershipInv, LifecycleInv
<1>1. CASE Create(s)
  <2>1. \A r \in Sandboxes \ {s} : Kept(r)
    BY <1>1 DEF Create, Kept
  <2>2. /\ tpc[s] = "idle" /\ opc[s] = "idle" /\ kind[s] = "provision" /\ wpc[s] = "idle"
        /\ ~handle[s] /\ job[s] = "none" /\ spc[s] # "stop"
    BY <1>0, <1>1 DEF Create, InvAt, WorkflowInv, OwnAt, HandleInv, QuotaInv, Ended
  <2>3. OwnAt(s)'
    BY <1>0, <1>1, <2>2
    DEF Create, OwnAt, HandleInv, OwnedInv, QuotaInv, Unbound, AfterInstance, Ended
  <2>4. QED  BY <2>1, <2>3, OneOwner
<1>2. CASE StartRequest(s)
  <2>1. \A r \in Sandboxes \ {s} : Kept(r)
    BY <1>2 DEF StartRequest, Kept
  <2>2. OwnAt(s)'
    BY <1>0, <1>2
    DEF StartRequest, OwnAt, HandleInv, OwnedInv, QuotaInv, Unbound, AfterInstance, Ended
  <2>3. QED  BY <2>1, <2>2, OneOwner
<1>3. CASE StartAdvance(s)
  <2>1. /\ UNCHANGED <<handle, tpc, drain, spc, inst, quota, job, abandoned>>
        /\ opc' = [opc EXCEPT ![s] = "idle"] /\ handle[s]
    BY <1>0, <1>3 DEF StartAdvance, OwnAt, HandleInv
  <2>2. CASE CanSave(s, over[s])
    <3>1. status[s] = "stopped" /\ status' = [status EXCEPT ![s] = "starting"]
      BY <1>0, <1>3, <2>2 DEF StartAdvance, Advance, InvAt, StartInv, CanSave
    <3>2. \/ wpc[s] = "idle" /\ wpc' = [wpc EXCEPT ![s] = "creds"]
                             /\ kind' = [kind EXCEPT ![s] = "restart"]
          \/ UNCHANGED <<wpc, kind>>
      BY <1>3, <2>2 DEF StartAdvance
    <3>3. \A r \in Sandboxes \ {s} : Kept(r)
      BY <2>1, <3>1, <3>2 DEF Kept
    <3>4. tpc[s] \notin {"release"} \cup AfterInstance /\ job[s] = "none" /\ spc[s] # "stop"
      BY <1>0, <3>1
      DEF OwnAt, HandleInv, QuotaInv, InvAt, TeardownInv, Ended, AfterInstance
    <3>5. HandleInv(s)'
      BY <1>0, <2>1, <3>1, <3>2, <3>4 DEF OwnAt, HandleInv, Unbound, AfterInstance
    <3>6. OwnedInv(s)'
      BY <1>0, <2>1, <3>1, <3>2, <3>4 DEF OwnAt, OwnedInv
    <3>7. QuotaInv(s)'
      BY <1>0, <2>1, <3>1, <3>2, <3>4 DEF OwnAt, QuotaInv, Ended
    <3>8. QED  BY <3>3, <3>5, <3>6, <3>7, OneOwner DEF OwnAt
  <2>3. CASE ~CanSave(s, over[s])
    <3>1. UNCHANGED <<status, wpc, kind>>
      BY <1>3, <2>3 DEF StartAdvance, CanSave
    <3>2. \A r \in Sandboxes \ {s} : Kept(r)
      BY <2>1, <3>1 DEF Kept
    <3>3. OwnAt(s)'
      BY <1>0, <2>1, <3>1
      DEF OwnAt, HandleInv, OwnedInv, QuotaInv, Unbound, AfterInstance, Ended
    <3>4. QED  BY <3>2, <3>3, OneOwner
  <2>4. QED  BY <2>2, <2>3
<1>4. CASE StopRequest(s)
  <2>1. \A r \in Sandboxes \ {s} : Kept(r)
    BY <1>4 DEF StopRequest, Advance, Kept
  <2>2. OwnAt(s)'
    BY <1>0, <1>4
    DEF StopRequest, Advance, OwnAt, HandleInv, OwnedInv, QuotaInv, Unbound, AfterInstance,
        Ended
  <2>3. QED  BY <2>1, <2>2, OneOwner
<1>5. CASE StopDone(s, ok)
  <2>1. /\ UNCHANGED <<handle, wpc, kind, tpc, drain, opc, job, abandoned>>
        /\ spc' = [spc EXCEPT ![s] = "idle"]
        /\ status[s] \in Ended \cup {"stopping"}
    BY <1>0, <1>5 DEF StopDone, OwnAt, QuotaInv
  <2>2. inst' = [inst EXCEPT ![s] = inst'[s]] /\ (inst'[s] # "none" => inst[s] # "none")
    BY <1>5 DEF StopDone
  <2>3. /\ status' = [status EXCEPT ![s] = status'[s]]
        /\ quota' = [quota EXCEPT ![s] = quota'[s]]
        /\ \/ status[s] = "stopping" /\ status'[s] = "stopped" /\ quota'[s] = quota[s]
           \/ status[s] = "stopping" /\ status'[s] = "failed"
           \/ status[s] # "stopping" /\ status'[s] = status[s]
    <3>1. CASE status[s] = "stopping" /\ ok
      BY <1>5, <3>1 DEF StopDone, Advance
    <3>2. CASE status[s] = "stopping" /\ ~ok
      BY <1>5, <3>2 DEF StopDone, FailWith, Release
    <3>3. CASE status[s] # "stopping"
      BY <1>5, <3>3 DEF StopDone, Release
    <3>4. QED  BY <3>1, <3>2, <3>3
  <2>4. \A r \in Sandboxes \ {s} : Kept(r)
    BY <2>1, <2>2, <2>3 DEF Kept
  <2>5. HandleInv(s)'
    BY <1>0, <2>1, <2>3 DEF OwnAt, HandleInv, Unbound, AfterInstance
  <2>6. OwnedInv(s)'
    BY <1>0, <2>1, <2>2, <2>3 DEF OwnAt, OwnedInv, AfterInstance, Ended
  <2>7. QuotaInv(s)'
    BY <1>0, <2>1, <2>2, <2>3 DEF OwnAt, QuotaInv, Ended
  <2>8. QED  BY <2>4, <2>5, <2>6, <2>7, OneOwner DEF OwnAt
<1>6. CASE FinishRetained(s)
  <2>1. \A r \in Sandboxes : Kept(r)
    BY <1>6 DEF FinishRetained, Kept
  <2>2. QED  BY <2>1, KeptOwn DEF OwnershipInv
<1>7. QED  BY <1>1, <1>2, <1>3, <1>4, <1>5, <1>6

(* A destroy that finds no workflow finds nobody who could bind a handle.  *)
LEMMA DestroyOwn ==
  ASSUME TypeOK, LifecycleInv, OwnershipInv, NEW s \in Sandboxes,
         NEW f \in BOOLEAN, NEW k \in Keep,
         DestroyRequest(s, f, k) \/ FinishTask(s, k)
  PROVE  OwnershipInv'
<1> USE DEF TypeOK, CoreType, RequestType, OutsideType,
            rowVars, wfVars, tdVars, reqVars, extVars, histVars
<1>0. OwnAt(s)
  BY DEF OwnershipInv
<1>1. UNCHANGED <<status, handle, wpc, kind, opc, spc, inst, quota, job, abandoned>>
  BY DEF DestroyRequest, FinishTask
<1>2. PICK g \in BOOLEAN : Destroy(s, g, k)
  BY Zenon DEF DestroyRequest, FinishTask
<1>3. \/ UNCHANGED <<tpc, drain>>
      \/ /\ tpc[s] = "idle" /\ tpc' = [tpc EXCEPT ![s] = "mark"]
         /\ drain' = [drain EXCEPT ![s] = drain'[s]]
         /\ ~drain'[s] => wpc[s] = "idle"
  <2>1. CASE tpc[s] # "idle"
    BY <1>2, <2>1 DEF Destroy
  <2>2. CASE tpc[s] = "idle"
    <3>1. /\ tpc' = [tpc EXCEPT ![s] = "mark"]
          /\ drain' = [drain EXCEPT ![s] = wpc[s] # "idle"]
      BY <1>2, <2>2 DEF Destroy
    <3>2. drain'[s] = (wpc[s] # "idle")
      <4>1. (wpc[s] # "idle") \in BOOLEAN
        OBVIOUS
      <4>2. DOMAIN drain = Sandboxes
        BY Zenon
      <4>3. QED  BY <3>1, <4>2, Zenon
    <3>3. drain' = [drain EXCEPT ![s] = drain'[s]]
      BY <3>1, <3>2, Zenon
    <3>4. ~drain'[s] => wpc[s] = "idle"
      BY <3>2
    <3>5. QED  BY <2>2, <3>1, <3>3, <3>4
  <2>3. QED  BY <2>1, <2>2
<1>4. \A r \in Sandboxes \ {s} : Kept(r)
  BY <1>1, <1>3 DEF Kept
<1>5. OwnAt(s)'
  BY <1>0, <1>1, <1>3
  DEF OwnAt, HandleInv, OwnedInv, QuotaInv, Unbound, AfterInstance, Ended
<1>6. QED  BY <1>4, <1>5, OneOwner

(* A teardown reaches the instance with the handle, goes past it when it   *)
(* is gone, and returns the quota when the row is past its life.           *)
LEMMA TeardownStepOwn ==
  ASSUME TypeOK, LifecycleInv, OwnershipInv, NEW s \in Sandboxes, TdStep(s)
  PROVE  OwnershipInv'
<1> USE DEF TypeOK, CoreType, RequestType, OutsideType, TdTo, tdOthers,
            rowVars, wfVars, tdVars, reqVars, extVars, histVars
<1>0. OwnAt(s) /\ InvAt(s)
  BY DEF OwnershipInv, LifecycleInv
<1>1. UNCHANGED <<handle, wpc, kind, drain, opc, spc, job, abandoned>>
  BY DEF TdStep, TdMark, TdDrained, TdDrainTimeout, TdStop, TdDestroyed, TdDestroyFailed,
         TdCleanup, TdRegister, TdFinish, TdRelease, TdFail
<1>2. tpc[s] # "idle" /\ \E pc : tpc' = [tpc EXCEPT ![s] = pc]
  BY DEF TdStep, TdMark, TdDrained, TdDrainTimeout, TdStop, TdDestroyed, TdDestroyFailed,
         TdCleanup, TdRegister, TdFinish, TdRelease, TdFail
<1>3. tpc' = [tpc EXCEPT ![s] = tpc'[s]]
  BY <1>2
<1>4. status[s] # "absent"
  BY <1>0, <1>2 DEF InvAt, WorkflowInv
(* The instance stays and the teardown goes on, or gives up on it. *)
<1>5. ASSUME UNCHANGED <<inst, quota>>,
             \A r \in Sandboxes \ {s} : status'[r] = status[r],
             \/ status'[s] = status[s]
             \/ status'[s] \in {"destroying", "failed"}
                  /\ status[s] \notin NoRow \cup {"destroyed"},
             tpc'[s] \in {"idle", "drain", "stop", "destroy", "release"} \cup AfterInstance,
             tpc'[s] \in {"stop", "destroy"} => handle[s],
             tpc'[s] = "release" => status'[s] \in Ended,
             tpc'[s] \in AfterInstance =>
               \/ tpc[s] \in AfterInstance
               \/ tpc[s] = "drain" /\ ~handle[s] /\ wpc[s] = "idle" /\ status[s] = "destroying"
      PROVE  OwnershipInv'
  <2>1. \A r \in Sandboxes \ {s} : Kept(r)
    BY <1>1, <1>3, <1>5 DEF Kept
  <2>2. HandleInv(s)'
    BY <1>0, <1>1, <1>2, <1>5 DEF OwnAt, HandleInv, Unbound, AfterInstance
  <2>3. OwnedInv(s)'
    BY <1>0, <1>1, <1>5 DEF OwnAt, OwnedInv, HandleInv, AfterInstance
  <2>4. QuotaInv(s)'
    BY <1>0, <1>1, <1>5 DEF OwnAt, QuotaInv, Ended
  <2>5. QED  BY <2>1, <2>2, <2>3, <2>4, OneOwner DEF OwnAt
<1>6. ASSUME TdFail(s), UNCHANGED <<inst, quota>>,
             tpc[s] \in {"drain", "destroy", "cleanup", "register"}
      PROVE  OwnershipInv'
  <2>1. tpc'[s] = "release"
    BY <1>6 DEF TdFail
  <2>2. status[s] = "destroying"
    BY <1>0, <1>6 DEF InvAt, TeardownInv
  <2>3. status' = [status EXCEPT ![s] = "failed"]
    BY <1>6, <2>2 DEF TdFail, KeepsProvisionFailure, Advance, FailWith
  <2>4. QED  BY <1>5, <1>6, <2>1, <2>2, <2>3 DEF AfterInstance, Ended
<1>7. CASE TdMark(s)
  <2>1. UNCHANGED <<inst, quota>>
    BY <1>7 DEF TdMark
  <2>2. CASE status[s] \in NoRow \cup {"destroyed"}
    <3>1. UNCHANGED status /\ TdTo(s, "idle")
      BY <1>7, <2>2 DEF TdMark
    <3>2. tpc'[s] = "idle"
      BY <3>1
    <3>3. QED  BY <1>5, <2>1, <3>1, <3>2 DEF AfterInstance
  <2>3. CASE status[s] \notin NoRow \cup {"destroyed"}
    <3>1. status' = [status EXCEPT ![s] = "destroying"]
      BY <1>7, <2>3 DEF TdMark, Advance
    <3>2. TdTo(s, IF handle[s] THEN AfterHandle(s, TRUE, status[s]) ELSE "drain")
      BY <1>7, <2>3 DEF TdMark
    <3>3. \/ handle[s] /\ tpc'[s] \in {"stop", "destroy"}
          \/ tpc'[s] = "drain"
      BY <3>2 DEF AfterHandle
    <3>4. QED  BY <1>5, <2>1, <2>3, <3>1, <3>3 DEF AfterInstance
  <2>4. QED  BY <2>2, <2>3
<1>8. CASE TdDrained(s)
  <2>1. /\ UNCHANGED <<inst, quota, status>> /\ tpc[s] = "drain"
        /\ tpc'[s] = AfterHandle(s, handle[s], tprev[s])
        /\ drain[s] => wpc[s] = "idle"
    BY <1>8 DEF TdDrained
  <2>2. status[s] = "destroying"
    BY <1>0, <2>1 DEF InvAt, TeardownInv
  <2>3. \/ handle[s] /\ tpc'[s] \in {"stop", "destroy"}
        \/ ~handle[s] /\ wpc[s] = "idle" /\ tpc'[s] = "cleanup"
    BY <1>0, <2>1 DEF AfterHandle, OwnAt, HandleInv
  <2>4. QED  BY <1>5, <2>1, <2>2, <2>3 DEF AfterInstance
<1>9. CASE TdDrainTimeout(s)
  BY <1>6, <1>9 DEF TdDrainTimeout
<1>10. CASE (\E ok \in BOOLEAN : TdStop(s, ok)) \/ TdDestroyed(s)
  <2>1. /\ inst' = [inst EXCEPT ![s] = inst'[s]]
        /\ inst'[s] # "none" => inst[s] # "none"
        /\ \/ tpc'[s] = "destroy"
           \/ tpc'[s] = "cleanup" /\ inst'[s] = "none"
        /\ tpc[s] \in {"stop", "destroy"} /\ UNCHANGED <<status, quota>>
    <3>1. CASE \E ok \in BOOLEAN : TdStop(s, ok)
      <4>1. PICK ok \in BOOLEAN : TdStop(s, ok)
        BY <3>1
      <4>2. inst' = [inst EXCEPT ![s] = IF ok /\ inst[s] = "running" THEN "stopped" ELSE inst[s]]
        BY <4>1 DEF TdStop
      <4>3. QED  BY <4>1, <4>2 DEF TdStop
    <3>2. CASE TdDestroyed(s)
      BY <3>2 DEF TdDestroyed
    <3>3. QED  BY <1>10, <3>1, <3>2
  <2>2. \A r \in Sandboxes \ {s} : Kept(r)
    BY <1>1, <1>3, <2>1 DEF Kept
  <2>3. HandleInv(s)'
    BY <1>0, <1>1, <2>1 DEF OwnAt, HandleInv, Unbound, AfterInstance
  <2>4. OwnedInv(s)' /\ QuotaInv(s)'
    BY <1>0, <1>1, <2>1 DEF OwnAt, OwnedInv, QuotaInv, AfterInstance, Ended
  <2>5. QED  BY <2>2, <2>3, <2>4, OneOwner DEF OwnAt
<1>11. CASE \E pending \in BOOLEAN : TdDestroyFailed(s, pending)
  BY <1>6, <1>11 DEF TdDestroyFailed
<1>12. CASE \E ok \in BOOLEAN : TdCleanup(s, ok)
  <2>1. PICK ok \in BOOLEAN : TdCleanup(s, ok)
    BY <1>12
  <2>2. CASE ~ok
    BY <1>6, <2>1, <2>2 DEF TdCleanup
  <2>3. CASE ok
    <3>1. UNCHANGED <<inst, quota, status>> /\ tpc[s] = "cleanup"
      BY <2>1, <2>3 DEF TdCleanup
    <3>2. tpc'[s] \in {"register", "finish"}
      BY <2>1, <2>3 DEF TdCleanup
    <3>3. QED  BY <1>5, <3>1, <3>2 DEF AfterInstance
  <2>4. QED  BY <2>2, <2>3
<1>13. CASE \E ok \in BOOLEAN : TdRegister(s, ok)
  <2>1. PICK ok \in BOOLEAN : TdRegister(s, ok)
    BY <1>13
  <2>2. CASE ~ok /\ RegisterThrows(s)
    BY <1>6, <2>1, <2>2 DEF TdRegister
  <2>3. CASE ~(~ok /\ RegisterThrows(s))
    <3>1. UNCHANGED <<inst, quota, status>> /\ tpc[s] = "register"
      BY <2>1, <2>3 DEF TdRegister
    <3>2. tpc'[s] = "finish"
      BY <2>1, <2>3 DEF TdRegister
    <3>3. QED  BY <1>5, <3>1, <3>2 DEF AfterInstance
  <2>4. QED  BY <2>2, <2>3
<1>14. CASE TdFinish(s)
  <2>1. /\ UNCHANGED <<inst, quota>> /\ tpc[s] = "finish" /\ tpc'[s] = "release"
        /\ status' = [status EXCEPT ![s] = "destroyed"]
    BY <1>0, <1>14 DEF TdFinish, Advance, InvAt, TeardownInv
  <2>2. inst[s] = "none" \/ s \in abandoned
    BY <1>0, <2>1 DEF OwnAt, OwnedInv, AfterInstance
  <2>3. status[s] = "destroying"
    BY <1>0, <2>1 DEF InvAt, TeardownInv
  <2>4. \A r \in Sandboxes \ {s} : Kept(r)
    BY <1>1, <1>3, <2>1 DEF Kept
  <2>5. HandleInv(s)'
    BY <1>0, <1>1, <2>1, <2>3 DEF OwnAt, HandleInv, Unbound, AfterInstance
  <2>6. OwnedInv(s)' /\ QuotaInv(s)'
    BY <1>0, <1>1, <2>1, <2>2 DEF OwnAt, OwnedInv, QuotaInv, AfterInstance, Ended
  <2>7. QED  BY <2>4, <2>5, <2>6, OneOwner DEF OwnAt
<1>15. CASE TdRelease(s)
  <2>1. /\ UNCHANGED <<inst, status>> /\ tpc[s] = "release" /\ tpc'[s] = "idle"
        /\ quota' = [quota EXCEPT ![s] = quota'[s]]
    BY <1>15 DEF TdRelease, Release
  <2>2. \A r \in Sandboxes \ {s} : Kept(r)
    BY <1>1, <1>3, <2>1 DEF Kept
  <2>3. OwnAt(s)'
    BY <1>0, <1>1, <2>1
    DEF OwnAt, HandleInv, OwnedInv, QuotaInv, Unbound, AfterInstance, Ended
  <2>4. QED  BY <2>2, <2>3, OneOwner
<1>16. QED
  BY <1>7, <1>8, <1>9, <1>10, <1>11, <1>12, <1>13, <1>14, <1>15 DEF TdStep

(* The sweeps and the provider. *)
LEMMA OutsideStepOwn ==
  ASSUME TypeOK, OwnershipInv, NEW s \in Sandboxes,
         NEW removed \in BOOLEAN, NEW cleaned \in BOOLEAN,
         \/ JobClean(s, removed, cleaned) \/ RemoveVolume(s) \/ QuotaSweep(s)
         \/ LateDestroy(s) \/ InstanceLost(s)
  PROVE  OwnershipInv'
<1> USE DEF TypeOK, CoreType, RequestType, OutsideType,
            rowVars, wfVars, tdVars, reqVars, extVars, histVars
<1>0. OwnAt(s)
  BY DEF OwnershipInv
<1>1. UNCHANGED <<status, handle, wpc, kind, tpc, drain, opc, spc, abandoned>>
  BY DEF JobClean, RemoveVolume, QuotaSweep, LateDestroy, InstanceLost
<1>2. /\ inst' = [inst EXCEPT ![s] = inst'[s]] /\ inst'[s] \in {inst[s], "none"}
      /\ job' = [job EXCEPT ![s] = job'[s]] /\ job'[s] \in {job[s], "none"}
      /\ job[s] = "handle" /\ job'[s] = "none" => inst'[s] = "none"
  <2>1. CASE JobClean(s, removed, cleaned)
    BY <2>1 DEF JobClean, InstanceRemoved
  <2>2. CASE RemoveVolume(s) \/ QuotaSweep(s) \/ LateDestroy(s) \/ InstanceLost(s)
    BY <2>2 DEF RemoveVolume, QuotaSweep, LateDestroy, InstanceLost
  <2>3. QED  BY <2>1, <2>2
<1>3. /\ quota' = [quota EXCEPT ![s] = quota'[s]]
      /\ \/ quota'[s] = quota[s]
         \/ status[s] \notin Live
         \/ handle[s] /\ inst[s] = "none"
  <2>1. CASE QuotaSweep(s)
    BY <2>1 DEF QuotaSweep, Release, VerdictGone
  <2>2. CASE ~QuotaSweep(s)
    BY <2>2 DEF JobClean, RemoveVolume, LateDestroy, InstanceLost
  <2>3. QED  BY <2>1, <2>2
<1>4. \A r \in Sandboxes \ {s} : Kept(r)
  BY <1>1, <1>2, <1>3 DEF Kept
<1>5. HandleInv(s)'
  BY <1>0, <1>1, <1>2 DEF OwnAt, HandleInv, Unbound, AfterInstance
<1>6. OwnedInv(s)'
  BY <1>0, <1>1, <1>2 DEF OwnAt, OwnedInv, AfterInstance
<1>7. QuotaInv(s)'
  BY <1>0, <1>1, <1>2, <1>3 DEF OwnAt, QuotaInv, Ended
<1>8. QED  BY <1>4, <1>5, <1>6, <1>7, OneOwner DEF OwnAt

LEMMA ProjectDeleteOwn ==
  ASSUME TypeOK, LifecycleInv, OwnershipInv, ProjectDelete
  PROVE  OwnershipInv'
<1> SUFFICES ASSUME NEW s \in Sandboxes PROVE OwnAt(s)'
  BY DEF OwnershipInv
<1> USE DEF TypeOK, CoreType, RequestType, OutsideType
<1>0. OwnAt(s) /\ InvAt(s)
  BY DEF OwnershipInv, LifecycleInv
<1>1. UNCHANGED <<handle, wpc, kind, tpc, drain, opc, spc, inst, quota, abandoned>>
  BY DEF ProjectDelete, wfVars, tdVars, reqVars, histVars
<1>2. CASE status[s] \in NoRow
  <2>1. status'[s] = status[s] /\ job'[s] = job[s]
    BY <1>2 DEF ProjectDelete
  <2>2. QED
    BY <1>0, <1>1, <2>1
    DEF OwnAt, HandleInv, OwnedInv, QuotaInv, Unbound, AfterInstance, Ended
<1>3. CASE status[s] \notin NoRow
  <2>1. /\ status[s] \in {"stopped", "failed", "destroyed"} /\ status'[s] = "deleted"
        /\ job'[s] = IF handle[s] THEN "handle" ELSE "bare"
    BY <1>3 DEF ProjectDelete
  <2>2. job[s] = "none" /\ tpc[s] \notin AfterInstance
    BY <1>0, <2>1 DEF OwnAt, HandleInv, InvAt, TeardownInv, AfterInstance
  <2>3. HandleInv(s)'
    BY <1>0, <1>1, <2>1, <2>2 DEF OwnAt, HandleInv, Unbound, AfterInstance
  <2>4. OwnedInv(s)'
    BY <1>0, <1>1, <2>1, <2>2 DEF OwnAt, OwnedInv, AfterInstance
  <2>5. QuotaInv(s)'
    BY <1>0, <1>1, <2>1 DEF OwnAt, QuotaInv, Ended
  <2>6. QED  BY <2>3, <2>4, <2>5 DEF OwnAt
<1>4. QED  BY <1>2, <1>3

(* A restart leaves no instance without an owner but those whose creation  *)
(* or removal it cut short.                                                *)
LEMMA RestartOwn ==
  ASSUME TypeOK, LifecycleInv, OwnershipInv, Restart
  PROVE  OwnershipInv'
<1> SUFFICES ASSUME NEW s \in Sandboxes PROVE OwnAt(s)'
  BY DEF OwnershipInv
<1> USE DEF TypeOK, CoreType, RequestType, OutsideType
<1>0. OwnAt(s)
  BY DEF OwnershipInv
<1>1. /\ UNCHANGED <<status, handle, kind, drain, quota, job>>
      /\ wpc'[s] = "idle" /\ tpc'[s] = "idle" /\ opc'[s] = "idle" /\ spc'[s] = "idle"
  BY DEF Restart, rowVars
<1>2. PICK left \in [Sandboxes -> {"none", "stopped", "running"}] :
        /\ \A r \in Sandboxes : left[r] \in AfterCrash(r)
        /\ inst' = left
        /\ abandoned' = abandoned \cup
             {r \in Sandboxes : wpc[r] \in {"create", "dropLate"} /\ left[r] # "none"}
  BY Zenon DEF Restart
<1>3. inst'[s] # "none" => inst[s] # "none" \/ wpc[s] = "create"
  BY <1>2 DEF AfterCrash
<1>4. inst'[s] # "none" /\ s \notin abandoned' =>
        s \notin abandoned /\ wpc[s] \notin {"create", "dropLate"}
  BY <1>2
<1>5. wpc[s] = "create" => ~handle[s]
  BY <1>0 DEF OwnAt, HandleInv, Unbound
<1>6. HandleInv(s)'
  BY <1>0, <1>1 DEF OwnAt, HandleInv, Unbound, AfterInstance
<1>7. OwnedInv(s)'
  BY <1>0, <1>1, <1>3, <1>4 DEF OwnAt, OwnedInv, AfterInstance
<1>8. QuotaInv(s)'
  BY <1>0, <1>1, <1>3, <1>5 DEF OwnAt, QuotaInv
<1>9. QED  BY <1>6, <1>7, <1>8 DEF OwnAt

(* Every step preserves the ownership of the instances. *)
LEMMA NextOwn == TypeOK /\ LifecycleInv /\ OwnershipInv /\ [Next]_vars => OwnershipInv'
<1> SUFFICES ASSUME TypeOK, LifecycleInv, OwnershipInv, [Next]_vars PROVE OwnershipInv'
  OBVIOUS
<1>1. ASSUME NEW s \in Sandboxes, NEW ok \in BOOLEAN, ProvisionBegin(s) \/ WfAnswer(s, ok)
      PROVE  OwnershipInv'
  BY <1>1, WorkflowStepOwn
<1>2. ASSUME NEW s \in Sandboxes, NEW ok \in BOOLEAN,
             \/ Create(s) \/ StartRequest(s) \/ StartAdvance(s) \/ StopRequest(s)
             \/ StopDone(s, ok) \/ FinishRetained(s)
      PROVE  OwnershipInv'
  BY <1>2, RequestStepOwn
<1>3. ASSUME NEW s \in Sandboxes, NEW f \in BOOLEAN, NEW k \in Keep,
             DestroyRequest(s, f, k) \/ FinishTask(s, k)
      PROVE  OwnershipInv'
  BY <1>3, DestroyOwn
<1>4. ASSUME NEW s \in Sandboxes, TdStep(s) PROVE OwnershipInv'
  BY <1>4, TeardownStepOwn
<1>5. ASSUME NEW s \in Sandboxes, NEW removed \in BOOLEAN, NEW cleaned \in BOOLEAN,
             \/ JobClean(s, removed, cleaned) \/ RemoveVolume(s) \/ QuotaSweep(s)
             \/ LateDestroy(s) \/ InstanceLost(s)
      PROVE  OwnershipInv'
  BY <1>5, OutsideStepOwn
<1>6. CASE ProjectDelete     BY <1>6, ProjectDeleteOwn
<1>7. CASE Restart           BY <1>7, RestartOwn
<1>8. CASE UNCHANGED vars
  <2>1. \A r \in Sandboxes : Kept(r)
    BY <1>8 DEF Kept, vars, rowVars, wfVars, tdVars, reqVars, extVars, histVars
  <2>2. QED  BY <2>1, KeptOwn DEF OwnershipInv
<1>9. QED  BY <1>1, <1>2, <1>3, <1>4, <1>5, <1>6, <1>7, <1>8 DEF Next

(* At every moment somebody answers for an instance, a teardown that has   *)
(* gone past it left none behind, and who gives a quota back does so for a *)
(* row past its life or an instance that is gone.                          *)
THEOREM OwnershipInvariant == Spec => []OwnershipInv
<1>1. Init => OwnershipInv
  BY InitOwn
<1>2. TypeOK /\ LifecycleInv /\ OwnershipInv /\ [Next]_vars => OwnershipInv'
  BY NextOwn
<1>3. QED  BY <1>1, <1>2, LifecycleInvariant, PTL DEF Spec

(* No interleaving of provisioning, stopping, destroying and deleting the  *)
(* project loses sight of an instance, a restart of the process included.  *)
THEOREM InstanceOwned == Spec => []InstanceIsOwned
<1>1. OwnershipInv => InstanceIsOwned
  BY DEF OwnershipInv, OwnAt, OwnedInv, InstanceIsOwned
<1>2. QED  BY <1>1, OwnershipInvariant, PTL

(* The quota of a live row whose instance is there is reserved, whichever  *)
(* of the workflow, a failed stop, a teardown or the sweep releases quotas *)
(* meanwhile.                                                              *)
THEOREM LiveInstancePaid == Spec => []LiveInstanceHoldsQuota
<1>1. OwnershipInv => LiveInstanceHoldsQuota
  BY DEF OwnershipInv, OwnAt, QuotaInv, LiveInstanceHoldsQuota
<1>2. QED  BY <1>1, OwnershipInvariant, PTL

-----------------------------------------------------------------------------
(* What a step may do to a row.                                            *)

Forward ==
  {<<"pending", "preparing-workspace">>, <<"preparing-workspace", "creating">>,
   <<"creating", "starting">>, <<"starting", "starting">>, <<"starting", "running">>,
   <<"stopped", "starting">>, <<"running", "stopping">>, <<"idle", "stopping">>,
   <<"stopping", "stopped">>}

(* A row goes forward with its failure cleared, fails in the operation at  *)
(* work, or is taken down by a teardown or by the deletion of its project. *)
RowMove(s) ==
  \/ status'[s] = status[s] /\ failOp'[s] = failOp[s]
  \/ status[s] = "absent" /\ status'[s] = "pending" /\ failOp'[s] = failOp[s]
  \/ <<status[s], status'[s]>> \in Forward /\ failOp'[s] = "none"
  \/ /\ status[s] \in {"preparing-workspace", "creating", "starting", "stopping"}
     /\ status'[s] = "failed"
  \/ /\ status[s] \notin NoRow \cup {"destroying", "destroyed"}
     /\ status'[s] = "destroying" /\ failOp'[s] = failOp[s]
  \/ /\ status[s] = "destroying" /\ status'[s] = "destroyed" /\ failOp'[s] = failOp[s]
  \/ /\ status[s] = "destroying" /\ status'[s] = "failed"
     /\ finished[s] /\ failOp[s] = "provision" => failOp'[s] = "provision"
  \/ /\ status[s] \in {"stopped", "failed", "destroyed"} /\ status'[s] = "deleted"
     /\ failOp'[s] = failOp[s]

OthersStay(s) == \A r \in Sandboxes \ {s} : status'[r] = status[r] /\ failOp'[r] = failOp[r]

LEMMA CatchMove ==
  ASSUME TypeOK, LifecycleInv, NEW s \in Sandboxes, wpc[s] \in Working \ {"queued"},
         NEW lateHandle, NEW made, NEW ws, Catch(s, lateHandle, made, ws)
  PROVE  RowMove(s) /\ OthersStay(s)
<1> USE DEF TypeOK, CoreType
<1>1. CASE s \in cancelled
  <2>1. UNCHANGED <<status, failOp>>
    BY <1>1 DEF Catch, CatchCancelled
  <2>2. QED  BY <2>1 DEF RowMove, OthersStay
<1>2. CASE s \notin cancelled
  <2>1. CanSave(s, wver[s]) /\ status[s] = StatusAt(s)
    BY <1>2 DEF LifecycleInv, InvAt, WorkflowInv
  <2>2. \E op \in FailOp : FailWith(s, op)
    BY <1>2, <2>1 DEF Catch, CatchFailure
  <2>3. status[s] \in {"preparing-workspace", "creating", "starting"}
    BY <2>1 DEF StatusAt, Working, BeforeSession
  <2>4. QED  BY <2>2, <2>3 DEF FailWith, RowMove, OthersStay
<1>3. QED  BY <1>1, <1>2

LEMMA AdvanceMove ==
  ASSUME TypeOK, NEW s \in Sandboxes, NEW to \in Live, NEW steps, Advance(s, to, steps),
         <<status[s], to>> \in Forward
  PROVE  RowMove(s) /\ OthersStay(s)
BY DEF TypeOK, CoreType, Advance, RowMove, OthersStay

LEMMA WorkflowMove ==
  ASSUME TypeOK, LifecycleInv, NEW s \in Sandboxes, NEW ok \in BOOLEAN,
         ProvisionBegin(s) \/ WfAnswer(s, ok)
  PROVE  RowMove(s) /\ OthersStay(s)
<1> USE DEF TypeOK, CoreType, Working, BeforeSession
<1>0. InvAt(s)
  BY DEF LifecycleInv
<1>1. ASSUME Active(s), wpc[s] \in Working PROVE status[s] = StatusAt(s)
  BY <1>0, <1>1 DEF InvAt, WorkflowInv, Active
<1>2. CASE ProvisionBegin(s)
  <2>1. CASE Active(s)
    <3>1. status[s] = "pending" /\ Advance(s, "preparing-workspace", 2)
      BY <1>1, <1>2, <2>1 DEF ProvisionBegin, WfAdvance, StatusAt
    <3>2. QED  BY <3>1, AdvanceMove DEF Forward
  <2>2. CASE ~Active(s)
    <3>1. s \in cancelled /\ UNCHANGED <<status, failOp>>
      BY <1>0, <1>2, <2>2
      DEF ProvisionBegin, InvAt, WorkflowInv, Active, Catch, CatchCancelled
    <3>2. QED  BY <3>1 DEF RowMove, OthersStay
  <2>3. QED  BY <2>1, <2>2
<1>3. CASE PrepareDone(s, ok)
  <2>1. CASE ok /\ Active(s)
    <3>1. status[s] = "preparing-workspace" /\ Advance(s, "creating", 1)
      BY <1>1, <1>3, <2>1 DEF PrepareDone, WfAdvance, StatusAt
    <3>2. QED  BY <3>1, AdvanceMove DEF Forward
  <2>2. CASE ~(ok /\ Active(s))
    <3>1. Catch(s, FALSE, FALSE, ok) /\ wpc[s] = "prepare"
      BY <1>3, <2>2, Zenon DEF PrepareDone
    <3>2. QED  BY <3>1, CatchMove
  <2>3. QED  BY <2>1, <2>2
<1>4. CASE CredsDone(s, ok)
  BY <1>4, CatchMove DEF CredsDone, RowMove, OthersStay
<1>5. CASE CreateDone(s, ok)
  <2>1. CASE ok /\ Active(s)
    <3>1. status[s] = "creating" /\ Advance(s, "starting", 2)
      BY <1>1, <1>5, <2>1 DEF CreateDone, WfAdvance, StatusAt
    <3>2. QED  BY <3>1, AdvanceMove DEF Forward
  <2>2. CASE ~(ok /\ Active(s))
    <3>1. Catch(s, ok, ok, TRUE) /\ wpc[s] = "create"
      BY <1>5, <2>2, Zenon DEF CreateDone
    <3>2. QED  BY <3>1, CatchMove
  <2>3. QED  BY <2>1, <2>2
<1>6. CASE StartDone(s, ok)
  BY <1>6, CatchMove DEF StartDone, StartingStep, RowMove, OthersStay
<1>7. CASE InstallDone(s, ok)
  BY <1>7, CatchMove DEF InstallDone, StartingStep, RowMove, OthersStay
<1>8. CASE InjectDone(s, ok)
  <2>1. CASE ok /\ Active(s)
    <3>1. status[s] = "starting" /\ Advance(s, "starting", 1)
      BY <1>1, <1>8, <2>1 DEF InjectDone, WfAdvance, StatusAt
    <3>2. QED  BY <3>1, AdvanceMove DEF Forward
  <2>2. CASE ~(ok /\ Active(s))
    BY <1>8, <2>2, CatchMove DEF InjectDone
  <2>3. QED  BY <2>1, <2>2
<1>9. CASE SessionDone(s, ok)
  <2>1. CASE ok /\ Active(s)
    <3>1. status[s] = "starting"
      BY <1>1, <1>9, <2>1 DEF SessionDone, StatusAt
    <3>2. PICK steps \in {1, 2} : Advance(s, "running", steps)
      BY <1>9, <2>1 DEF SessionDone, WfAdvance
    <3>3. QED  BY <3>1, <3>2, AdvanceMove DEF Forward
  <2>2. CASE ~(ok /\ Active(s))
    BY <1>9, <2>2, CatchMove DEF SessionDone
  <2>3. QED  BY <2>1, <2>2
<1>10. CASE DropLateDone(s, ok) \/ DropDirDone(s, ok) \/ UndoDone(s, ok) \/ UndoDirDone(s, ok)
  BY <1>10 DEF DropLateDone, DropDirDone, UndoDone, UndoDirDone, rowVars, RowMove, OthersStay
<1>11. QED
  BY <1>2, <1>3, <1>4, <1>5, <1>6, <1>7, <1>8, <1>9, <1>10 DEF WfAnswer

LEMMA RequestMove ==
  ASSUME TypeOK, LifecycleInv, NEW s \in Sandboxes, NEW ok \in BOOLEAN, NEW k \in Keep,
         \/ Create(s) \/ StartRequest(s) \/ StartAdvance(s) \/ StopRequest(s)
         \/ StopDone(s, ok) \/ DestroyRequest(s, ok, k) \/ FinishTask(s, k)
         \/ FinishRetained(s)
  PROVE  RowMove(s) /\ OthersStay(s)
<1> USE DEF TypeOK, CoreType
<1>1. CASE Create(s)
  BY <1>1 DEF Create, RowMove, OthersStay
<1>2. CASE StartAdvance(s)
  <2>1. CASE CanSave(s, over[s])
    <3>1. status[s] = "stopped" /\ Advance(s, "starting", 1)
      BY <1>2, <2>1 DEF StartAdvance, LifecycleInv, InvAt, StartInv, CanSave
    <3>2. QED  BY <3>1, AdvanceMove DEF Forward
  <2>2. CASE ~CanSave(s, over[s])
    BY <1>2, <2>2 DEF StartAdvance, CanSave, RowMove, OthersStay
  <2>3. QED  BY <2>1, <2>2
<1>3. CASE StopRequest(s)
  BY <1>3, AdvanceMove DEF StopRequest, Forward
<1>4. CASE StopDone(s, ok)
  <2>1. CASE status[s] = "stopping" /\ ok
    BY <1>4, <2>1, AdvanceMove DEF StopDone, Forward
  <2>2. CASE status[s] = "stopping" /\ ~ok
    BY <1>4, <2>2 DEF StopDone, FailWith, RowMove, OthersStay
  <2>3. CASE status[s] # "stopping"
    BY <1>4, <2>3 DEF StopDone, RowMove, OthersStay
  <2>4. QED  BY <2>1, <2>2, <2>3
<1>5. CASE StartRequest(s) \/ DestroyRequest(s, ok, k) \/ FinishTask(s, k) \/ FinishRetained(s)
  BY <1>5 DEF StartRequest, DestroyRequest, FinishTask, FinishRetained, rowVars,
              RowMove, OthersStay
<1>6. QED  BY <1>1, <1>2, <1>3, <1>4, <1>5

LEMMA TeardownMove ==
  ASSUME TypeOK, LifecycleInv, NEW s \in Sandboxes, TdStep(s)
  PROVE  RowMove(s) /\ OthersStay(s)
<1> USE DEF TypeOK, CoreType, TdTo
<1>1. ASSUME UNCHANGED <<status, failOp>> PROVE RowMove(s) /\ OthersStay(s)
  BY <1>1 DEF RowMove, OthersStay
<1>2. ASSUME NEW to \in {"destroying", "destroyed", "failed"},
             status' = [status EXCEPT ![s] = to], UNCHANGED failOp,
             \/ to = "destroying" /\ status[s] \notin NoRow \cup {"destroying", "destroyed"}
             \/ to # "destroying" /\ status[s] = "destroying"
      PROVE  RowMove(s) /\ OthersStay(s)
  BY <1>2 DEF RowMove, OthersStay
<1>3. ASSUME TdFail(s) PROVE RowMove(s) /\ OthersStay(s)
  <2>1. CASE status[s] # "destroying"
    BY <1>1, <1>3, <2>1 DEF TdFail
  <2>2. CASE status[s] = "destroying" /\ KeepsProvisionFailure(s)
    <3>1. /\ status' = [status EXCEPT ![s] = "failed"]
          /\ failOp' = [failOp EXCEPT ![s] = failOp[s]]
      BY <1>3, <2>2 DEF TdFail, Advance
    <3>2. UNCHANGED failOp
      BY <3>1
    <3>3. QED  BY <1>2, <2>2, <3>1, <3>2
  <2>3. CASE status[s] = "destroying" /\ ~KeepsProvisionFailure(s)
    BY <1>3, <2>3 DEF TdFail, FailWith, KeepsProvisionFailure, RowMove, OthersStay
  <2>4. QED  BY <2>1, <2>2, <2>3
<1>4. CASE TdMark(s)
  <2>1. CASE status[s] \in NoRow \cup {"destroying", "destroyed"}
    <3>1. UNCHANGED <<status, failOp>>
      BY <1>4, <2>1 DEF TdMark
    <3>2. QED  BY <1>1, <3>1
  <2>2. CASE status[s] \notin NoRow \cup {"destroying", "destroyed"}
    <3>1. /\ status' = [status EXCEPT ![s] = "destroying"]
          /\ failOp' = [failOp EXCEPT ![s] = failOp[s]]
      BY <1>4, <2>2 DEF TdMark, Advance
    <3>2. UNCHANGED failOp
      BY <3>1
    <3>3. QED  BY <1>2, <2>2, <3>1, <3>2
  <2>3. QED  BY <2>1, <2>2
<1>5. CASE TdFinish(s)
  <2>1. status[s] = "destroying"
    BY <1>5 DEF TdFinish, LifecycleInv, InvAt, TeardownInv
  <2>2. /\ status' = [status EXCEPT ![s] = "destroyed"]
        /\ failOp' = [failOp EXCEPT ![s] = failOp[s]]
    BY <1>5, <2>1 DEF TdFinish, Advance
  <2>3. UNCHANGED failOp
    BY <2>2
  <2>4. QED  BY <1>2, <2>1, <2>2, <2>3
<1>6. CASE \/ TdDrained(s) \/ (\E ok \in BOOLEAN : TdStop(s, ok)) \/ TdDestroyed(s)
           \/ TdRelease(s)
  BY <1>1, <1>6 DEF TdDrained, TdStop, TdDestroyed, TdRelease, rowVars
<1>7. CASE TdDrainTimeout(s) \/ \E pending \in BOOLEAN : TdDestroyFailed(s, pending)
  BY <1>3, <1>7 DEF TdDrainTimeout, TdDestroyFailed
<1>8. CASE \E ok \in BOOLEAN : TdCleanup(s, ok)
  BY <1>1, <1>3, <1>8 DEF TdCleanup, rowVars
<1>9. CASE \E ok \in BOOLEAN : TdRegister(s, ok)
  BY <1>1, <1>3, <1>9 DEF TdRegister, rowVars
<1>10. QED  BY <1>4, <1>5, <1>6, <1>7, <1>8, <1>9 DEF TdStep

(* Every step of the specification moves every row in one of these ways.   *)
LEMMA NextMove ==
  ASSUME TypeOK, LifecycleInv, [Next]_vars, NEW r \in Sandboxes
  PROVE  RowMove(r)
<1>1. ASSUME NEW s \in Sandboxes, RowMove(s), OthersStay(s) PROVE RowMove(r)
  BY <1>1 DEF OthersStay, RowMove
<1>2. ASSUME UNCHANGED <<status, failOp>> PROVE RowMove(r)
  BY <1>2 DEF RowMove
<1>3. ASSUME NEW s \in Sandboxes, NEW ok \in BOOLEAN, ProvisionBegin(s) \/ WfAnswer(s, ok)
      PROVE  RowMove(r)
  BY <1>1, <1>3, WorkflowMove
<1>4. ASSUME NEW s \in Sandboxes, NEW ok \in BOOLEAN, NEW k \in Keep,
             \/ Create(s) \/ StartRequest(s) \/ StartAdvance(s) \/ StopRequest(s)
             \/ StopDone(s, ok) \/ DestroyRequest(s, ok, k) \/ FinishTask(s, k)
             \/ FinishRetained(s)
      PROVE  RowMove(r)
  BY <1>1, <1>4, RequestMove
<1>5. ASSUME NEW s \in Sandboxes, TdStep(s) PROVE RowMove(r)
  BY <1>1, <1>5, TeardownMove
<1>6. ASSUME NEW s \in Sandboxes, NEW removed \in BOOLEAN, NEW cleaned \in BOOLEAN,
             \/ JobClean(s, removed, cleaned) \/ RemoveVolume(s) \/ QuotaSweep(s)
             \/ LateDestroy(s) \/ InstanceLost(s)
      PROVE  RowMove(r)
  BY <1>2, <1>6 DEF JobClean, RemoveVolume, QuotaSweep, LateDestroy, InstanceLost, rowVars
<1>7. CASE ProjectDelete
  BY <1>7 DEF ProjectDelete, TypeOK, CoreType, RowMove
<1>8. CASE Restart
  BY <1>2, <1>8 DEF Restart, rowVars
<1>9. CASE UNCHANGED vars
  BY <1>2, <1>9 DEF vars, rowVars
<1>10. QED  BY <1>3, <1>4, <1>5, <1>6, <1>7, <1>8, <1>9 DEF Next

(* A row only makes the moves of the status table, whichever of the       *)
(* workflow, the requests, a teardown and the project's deletion writes    *)
(* it, and however late an answer comes: UncancelledWorkflowIsCurrent is   *)
(* what keeps a workflow from writing a row that moved on.                 *)
THEOREM RowKeepsToTable == Spec => RowFollowsLifecycle
<1>1. TypeOK /\ LifecycleInv /\ [Next]_vars =>
        [\A s \in Sandboxes :
           status'[s] # status[s] =>
             \/ <<status[s], status'[s]>> \in LegalMoves
             \/ <<status[s], status'[s]>> = <<"pending", "preparing-workspace">>
             \/ status[s] = "absent" /\ status'[s] = "pending"
             \/ status[s] \in {"stopped", "failed", "destroyed"} /\ status'[s] = "deleted"]_vars
  <2> SUFFICES ASSUME TypeOK, LifecycleInv, [Next]_vars, NEW s \in Sandboxes,
                      status'[s] # status[s]
               PROVE  \/ <<status[s], status'[s]>> \in LegalMoves
                      \/ <<status[s], status'[s]>> = <<"pending", "preparing-workspace">>
                      \/ status[s] = "absent" /\ status'[s] = "pending"
                      \/ status[s] \in {"stopped", "failed", "destroyed"}
                           /\ status'[s] = "deleted"
    OBVIOUS
  <2>1. RowMove(s) /\ status[s] \in Status
    BY NextMove DEF TypeOK, CoreType
  <2>2. QED  BY <2>1 DEF RowMove, Forward, LegalMoves
<1>2. QED  BY <1>1, LifecycleInvariant, PTL DEF Spec, RowFollowsLifecycle

(* A row that works has no failure on it. *)
FailureInv == \A s \in Sandboxes : failOp[s] # "none" => status[s] \in Ended

LEMMA FailureInvariant == Spec => []FailureInv
<1>1. Init => FailureInv
  BY DEF Init, FailureInv
<1>2. TypeOK /\ LifecycleInv /\ FailureInv /\ [Next]_vars => FailureInv'
  <2> SUFFICES ASSUME TypeOK, LifecycleInv, FailureInv, [Next]_vars, NEW s \in Sandboxes,
                      failOp'[s] # "none"
               PROVE  status'[s] \in Ended
    BY DEF FailureInv
  <2>1. RowMove(s)
    BY NextMove
  <2>2. QED  BY <2>1 DEF FailureInv, RowMove, Forward, Ended
<1>3. QED  BY <1>1, <1>2, LifecycleInvariant, PTL DEF Spec

(* Once an automation is done with a task whose provision failed, no      *)
(* teardown, retried or failing, writes over that failure.                 *)
THEOREM FailureSurvives == Spec => ProvisionFailureSurvives
<1>1. TypeOK /\ LifecycleInv /\ FailureInv /\ [Next]_vars =>
        [\A s \in Sandboxes :
           finished[s] /\ failOp[s] = "provision" => failOp'[s] = "provision"]_vars
  <2> SUFFICES ASSUME TypeOK, LifecycleInv, FailureInv, [Next]_vars, NEW s \in Sandboxes,
                      finished[s], failOp[s] = "provision"
               PROVE  failOp'[s] = "provision"
    OBVIOUS
  <2>1. RowMove(s) /\ status[s] \in Ended
    BY NextMove DEF FailureInv
  <2>2. QED  BY <2>1 DEF RowMove, Forward, Ended
<1>2. QED
  BY <1>1, LifecycleInvariant, FailureInvariant, PTL DEF Spec, ProvisionFailureSurvives

(* The agent session is only started in a task that is still starting and  *)
(* that nobody is tearing down.                                            *)
THEOREM SessionStartsInTime == Spec => SessionOnlyWhileStarting
<1>1. TypeOK /\ LifecycleInv /\ [Next]_vars =>
        [\A s \in Sandboxes :
           wpc[s] # wpc'[s] /\ wpc'[s] \in {"session", "attach"} =>
             status[s] = "starting" /\ tpc[s] = "idle"]_vars
  <2> SUFFICES ASSUME TypeOK, LifecycleInv, [Next]_vars, NEW s \in Sandboxes,
                      wpc[s] # wpc'[s], wpc'[s] \in {"session", "attach"}
               PROVE  status[s] = "starting" /\ tpc[s] = "idle"
    OBVIOUS
  <2> USE DEF TypeOK, CoreType
  <2>1. PICK ok \in BOOLEAN : InjectDone(s, ok) /\ ok /\ Active(s)
    <3>1. ASSUME NEW r \in Sandboxes, NEW lateHandle, NEW made, NEW ws,
                 Catch(r, lateHandle, made, ws)
          PROVE  FALSE
      BY <3>1 DEF Catch, CatchCancelled, CatchFailure
    <3>2. ASSUME NEW r \in Sandboxes, NEW ok \in BOOLEAN, ProvisionBegin(r) \/ WfAnswer(r, ok)
          PROVE  InjectDone(s, ok) /\ ok /\ Active(s)
      <4>1. CASE ProvisionBegin(r)  BY <3>1, <4>1 DEF ProvisionBegin, WfAdvance
      <4>2. CASE PrepareDone(r, ok)
        <5>1. CASE ok /\ Active(r)  BY <4>2, <5>1 DEF PrepareDone, WfAdvance
        <5>2. CASE ~(ok /\ Active(r))
          <6>1. Catch(r, FALSE, FALSE, ok)  BY <4>2, <5>2, Zenon DEF PrepareDone
          <6>2. QED  BY <3>1, <6>1
        <5>3. QED  BY <5>1, <5>2
      <4>3. CASE CredsDone(r, ok)   BY <3>1, <4>3 DEF CredsDone
      <4>4. CASE CreateDone(r, ok)
        <5>1. CASE ok /\ Active(r)  BY <4>4, <5>1 DEF CreateDone, WfAdvance
        <5>2. CASE ~(ok /\ Active(r))
          <6>1. Catch(r, ok, ok, TRUE)  BY <4>4, <5>2, Zenon DEF CreateDone
          <6>2. QED  BY <3>1, <6>1
        <5>3. QED  BY <5>1, <5>2
      <4>5. CASE StartDone(r, ok)   BY <3>1, <4>5 DEF StartDone, StartingStep
      <4>6. CASE InstallDone(r, ok) BY <3>1, <4>6 DEF InstallDone, StartingStep
      <4>7. CASE InjectDone(r, ok)
        <5>1. ok /\ Active(r)       BY <3>1, <4>7 DEF InjectDone
        <5>2. r = s                 BY <4>7, <5>1 DEF InjectDone, WfAdvance
        <5>3. QED  BY <4>7, <5>1, <5>2
      <4>8. CASE SessionDone(r, ok)
        BY <3>1, <4>8 DEF SessionDone, WfAdvance
      <4>9. CASE \/ DropLateDone(r, ok) \/ DropDirDone(r, ok)
                \/ UndoDone(r, ok) \/ UndoDirDone(r, ok)
        BY <4>9 DEF DropLateDone, DropDirDone, UndoDone, UndoDirDone
      <4>10. QED
        BY <3>2, <4>1, <4>2, <4>3, <4>4, <4>5, <4>6, <4>7, <4>8, <4>9 DEF WfAnswer
    <3>3. ASSUME NEW r \in Sandboxes, Create(r) \/ StartAdvance(r) PROVE FALSE
      BY <3>3 DEF Create, StartAdvance, wfVars
    <3>4. ASSUME NEW r \in Sandboxes, NEW ok \in BOOLEAN, NEW k \in Keep, NEW c \in BOOLEAN,
                 \/ StartRequest(r) \/ StopRequest(r) \/ StopDone(r, ok)
                 \/ DestroyRequest(r, ok, k) \/ FinishTask(r, k) \/ FinishRetained(r)
                 \/ JobClean(r, ok, c) \/ RemoveVolume(r) \/ QuotaSweep(r)
                 \/ LateDestroy(r) \/ InstanceLost(r)
          PROVE  FALSE
      BY <3>4 DEF StartRequest, StopRequest, StopDone, DestroyRequest, FinishTask,
                  FinishRetained, JobClean, RemoveVolume, QuotaSweep, LateDestroy,
                  InstanceLost, wfVars
    <3>5. ASSUME NEW r \in Sandboxes, TdStep(r) PROVE FALSE
      BY <3>5 DEF TdStep, TdMark, TdDrained, TdDrainTimeout, TdStop, TdDestroyed,
                  TdDestroyFailed, TdCleanup, TdRegister, TdFinish, TdRelease, tdOthers, wfVars
    <3>6. CASE ProjectDelete \/ Restart \/ UNCHANGED vars
      BY <3>6 DEF ProjectDelete, Restart, vars, wfVars
    <3>7. QED  BY <3>2, <3>3, <3>4, <3>5, <3>6 DEF Next
  <2>2. wpc[s] = "inject"
    BY <2>1 DEF InjectDone
  <2>3. QED
    BY <2>1, <2>2 DEF LifecycleInv, InvAt, WorkflowInv, TeardownInv, StatusAt, Active,
                      Working, BeforeSession
<1>2. QED  BY <1>1, LifecycleInvariant, PTL DEF Spec, SessionOnlyWhileStarting
=============================================================================
