------------------------- MODULE RuntimeCredentials -------------------------
(***************************************************************************)
(* The credentials of one runtime in one mode: their rows, the sandboxes   *)
(* they were put into, the handler that tears those down when a credential *)
(* is revoked, the deletion of a sandbox with its project, and the scanner *)
(* that refreshes a credential before its end.                             *)
(*                                                                         *)
(* Reading, encrypting and writing rows does not yield, so that a store, a *)
(* revocation and the check before an injection are each one step; calls   *)
(* of the sandbox provider and of the login helper do.                     *)
(***************************************************************************)
EXTENDS Naturals, FiniteSets

CONSTANTS
  Sandbox,
  MaxCredentials,         \* bound: credentials stored in all
  REFRESH_FAILURE_LIMIT,
  MaxCrashes              \* bound: restarts of the process

ASSUME CredentialConstants ==
  MaxCredentials \in Nat /\ REFRESH_FAILURE_LIMIT \in Nat \ {0} /\ MaxCrashes \in Nat

VARIABLES
  cred,       \* the rows: active, revoked by a user, or replaced by a later login
  blob,       \* the rows that hold ciphertext
  age,        \* how far the credential is from expiresAt
  fails,      \* refreshFailures
  bound,      \* the uncleared bindings <<sandbox, credential>>
  clearing,   \* the bindings whose sandbox the handler is tearing down
  box,        \* the sandboxes
  held,       \* the credential a sandbox's workflow has prepared, 0 for none
  making,     \* the sandboxes whose provider.create is under way
  named,      \* the sandboxes whose row names the instance
  job,        \* the durable jobs that remove the instance of a deleted sandbox
  abandoned,  \* history: the sandboxes with an instance that no row names
  secret,     \* history: the credentials whose secret is in the instance
  line,       \* history: the first of the logins a credential replaces
  refresh,    \* the credential being refreshed, 0 for none
  crashes

credVars == <<cred, blob, age, fails, line>>
instVars == <<making, named, job, abandoned>>
boxVars == <<box, held, secret, instVars>>
handlerVars == <<bound, clearing>>
vars == <<credVars, boxVars, handlerVars, refresh, crashes>>

Cred == 1..MaxCredentials
Working == {"creating", "starting", "injecting"}
Gone == {"none", "destroyed", "deleted"}
\* "cut": a restart ended the workflow or the teardown and left the row as it was
Boxes == Working \cup Gone \cup {"running", "stopped", "failed", "destroying", "cut"}

Init ==
  /\ cred = [c \in Cred |-> "none"] /\ blob = {}
  /\ age = [c \in Cred |-> "fresh"] /\ fails = [c \in Cred |-> 0]
  /\ line = [c \in Cred |-> c]
  /\ box = [b \in Sandbox |-> "none"] /\ held = [b \in Sandbox |-> 0]
  /\ secret = [b \in Sandbox |-> {}]
  /\ making = {} /\ named = {} /\ job = {} /\ abandoned = {}
  /\ bound = {} /\ clearing = {} /\ refresh = 0 /\ crashes = 0

Active == {c \in Cred : cred[c] = "active"}

(* deriveStatus is not expired *)
Usable(c) ==
  c \in Active /\ age[c] # "expired" /\ fails[c] < REFRESH_FAILURE_LIMIT

-----------------------------------------------------------------------------
(* Storing and revoking *)

Unused == {c \in Cred : cred[c] = "none"}

(* migrateCredentialSync *)
Migrated(c) == {IF p[2] \in Active THEN <<p[1], c>> ELSE p : p \in bound}

(* storeRuntimeCredential: the active one is erased and its bindings go to *)
(* the new one, in one transaction                                         *)
Store ==
  \E c \in Unused :
    /\ \A d \in Unused : c <= d
    /\ cred' = [d \in Cred |-> IF d = c THEN "active" ELSE IF d \in Active THEN "replaced"
                               ELSE cred[d]]
    /\ blob' = (blob \ Active) \cup {c}
    /\ line' = [line EXCEPT ![c] = IF Active = {} THEN c ELSE line[CHOOSE d \in Active : TRUE]]
    /\ bound' = Migrated(c)
    /\ UNCHANGED <<age, fails, boxVars, clearing, refresh, crashes>>

(* The row is gone or destroyed. *)
Over(b) == box[b] \in Gone

(* clearBinding of several bindings: a sandbox that is over is cleared, of *)
(* any other the teardown is asked for                                     *)
Clears(bindings) ==
  LET fresh == bindings \ clearing
      going == {p \in fresh : ~Over(p[1])}
  IN  /\ bound' = bound \ (fresh \ going)
      /\ clearing' = clearing \cup going
      /\ box' = [b \in Sandbox |-> IF \E p \in going : p[1] = b THEN "destroying" ELSE box[b]]
      /\ UNCHANGED <<held, secret, instVars>>

(* revoke, then onRevoked, which may fail to read the bindings *)
Revoke(c) ==
  /\ c \in Active
  /\ cred' = [cred EXCEPT ![c] = "revoked"] /\ blob' = blob \ {c}
  /\ \/ Clears({p \in bound : p[2] = c})
     \/ UNCHANGED <<handlerVars, boxVars>>
  /\ UNCHANGED <<age, fails, line, refresh, crashes>>

(* listPendingRevocations *)
\* A variant that only sees bindings of replaced credentials.
PendingReplaced == {p \in bound : cred[p[2]] = "replaced"}
Pending == {p \in bound : cred[p[2]] \in {"revoked", "replaced"}}

RetryPending ==
  /\ Pending \ clearing # {}
  /\ Clears(Pending)
  /\ UNCHANGED <<credVars, refresh, crashes>>

(* destroyBound gives up on both its deadlines, the teardown goes on *)
ClearGivesUp(p) ==
  /\ p \in clearing /\ clearing' = clearing \ {p}
  /\ UNCHANGED <<credVars, boxVars, bound, refresh, crashes>>

-----------------------------------------------------------------------------
(* The sandboxes, as far as they hold a credential *)

(* recordInjection *)
Bound(b, c) == bound \cup {<<b, c>>}

(* prepareCredentials and reserveInjection, up to provider.create; there   *)
(* may be none, or the one prepared cannot be used any more.               *)
Provision(b) ==
  /\ box[b] = "none" /\ box' = [box EXCEPT ![b] = "creating"]
  /\ making' = making \cup {b}
  /\ \/ UNCHANGED <<held, bound>>
     \/ \E c \in Cred :
          /\ Usable(c)
          /\ held' = [held EXCEPT ![b] = c] /\ bound' = Bound(b, c)
  /\ UNCHANGED <<credVars, secret, named, job, abandoned, clearing, refresh, crashes>>

Into(b) == [secret EXCEPT ![b] = @ \cup ({held[b]} \ {0})]

(* The environment of the instance carries the secret, and the row its     *)
(* handle.                                                                 *)
Created(b) ==
  /\ box[b] = "creating" /\ box' = [box EXCEPT ![b] = "starting"]
  /\ secret' = Into(b)
  /\ making' = making \ {b} /\ named' = named \cup {b}
  /\ UNCHANGED <<credVars, held, job, abandoned, handlerVars, refresh, crashes>>

(* provider.create answers a workflow that was cancelled.  There may be no *)
(* instance; a teardown that still waits is given its handle; any other    *)
(* instance is removed here, and when that fails nobody knows it.          *)
CreatedLate(b) ==
  /\ b \in making /\ box[b] # "creating"
  /\ making' = making \ {b} /\ held' = [held EXCEPT ![b] = 0]
  /\ \/ UNCHANGED <<named, abandoned, secret>>
     \/ /\ secret' = Into(b)
        /\ IF box[b] = "destroying"
             THEN named' = named \cup {b} /\ UNCHANGED abandoned
             ELSE abandoned' = abandoned \cup {b} /\ UNCHANGED named
  /\ UNCHANGED <<credVars, box, job, handlerVars, refresh, crashes>>

(* injectCredentials *)
InjectStarts(b) ==
  /\ box[b] = "starting"
  /\ \/ held[b] = 0 /\ UNCHANGED <<bound, secret>>
     \/ held[b] # 0 /\ Usable(held[b]) /\ bound' = Bound(b, held[b]) /\ secret' = Into(b)
  /\ box' = [box EXCEPT ![b] = "injecting"]
  /\ UNCHANGED <<credVars, held, instVars, clearing, refresh, crashes>>

(* An injection that throws is only logged, so that a credential may have  *)
(* become unusable when the sandbox runs.                                  *)
InjectEnds(b) ==
  /\ box[b] = "injecting"
  /\ box' = [box EXCEPT ![b] = "running"] /\ held' = [held EXCEPT ![b] = 0]
  /\ UNCHANGED <<credVars, secret, instVars, handlerVars, refresh, crashes>>

(* Any step of the workflow may fail, and it does when the credential is   *)
(* not usable any more; the compensation may fail to remove the instance.  *)
Fails(b) ==
  /\ box[b] \in Working
  /\ box' = [box EXCEPT ![b] = "failed"] /\ held' = [held EXCEPT ![b] = 0]
  /\ \E left \in {{}, secret[b]} : secret' = [secret EXCEPT ![b] = left]
  /\ making' = making \ {b}
  /\ UNCHANGED <<credVars, named, job, abandoned, handlerVars, refresh, crashes>>

Stops(b) ==
  /\ box[b] = "running" /\ box' = [box EXCEPT ![b] = "stopped"]
  /\ UNCHANGED <<credVars, held, secret, instVars, handlerVars, refresh, crashes>>

(* restartInstance: nothing is recorded before the injection *)
Starts(b) ==
  /\ box[b] = "stopped" /\ box' = [box EXCEPT ![b] = "starting"]
  /\ \/ UNCHANGED held
     \/ \E c \in Cred : Usable(c) /\ held' = [held EXCEPT ![b] = c]
  /\ UNCHANGED <<credVars, secret, instVars, handlerVars, refresh, crashes>>

UserDestroys(b) ==
  /\ ~Over(b) /\ box[b] # "destroying"
  /\ box' = [box EXCEPT ![b] = "destroying"]
  /\ UNCHANGED <<credVars, held, secret, instVars, handlerVars, refresh, crashes>>

(* destroyBound: markClearedSync of what waited for the teardown *)
\* A variant that clears a binding however the teardown ends.
ClearedAnyway(b, gone) == {p \in clearing : p[1] = b}
Cleared(b, gone) == {p \in clearing : p[1] = b /\ gone}

(* A teardown waits for the create under way, or gives up; it removes the  *)
(* instance that the row names, and destroys a row without one all the     *)
(* same.                                                                   *)
DestroyEnds(b, gone) ==
  /\ box[b] = "destroying"
  /\ gone => b \notin making
  /\ box' = [box EXCEPT ![b] = IF gone THEN "destroyed" ELSE "failed"]
  /\ held' = [held EXCEPT ![b] = IF b \in making THEN @ ELSE 0]
  /\ secret' = [secret EXCEPT ![b] = IF gone /\ b \in named THEN {} ELSE @]
  /\ bound' = bound \ Cleared(b, gone)
  /\ clearing' = {p \in clearing : p[1] # b}
  /\ UNCHANGED <<credVars, instVars, refresh, crashes>>

(* The project is deleted, once the sandbox does not work any more: the    *)
(* bindings go with the row, a job takes over the instance that it names.  *)
DeleteProject(b) ==
  /\ box[b] \in {"stopped", "failed", "destroyed"}
  /\ box' = [box EXCEPT ![b] = "deleted"]
  /\ bound' = {p \in bound : p[1] # b}
  /\ job' = IF b \in named THEN job \cup {b} ELSE job
  /\ UNCHANGED <<credVars, held, secret, making, named, abandoned, clearing, refresh, crashes>>

(* clean: an attempt that fails leaves the job. *)
JobCleaned(b) ==
  /\ b \in job /\ job' = job \ {b}
  /\ secret' = [secret EXCEPT ![b] = {}]
  /\ UNCHANGED <<credVars, box, held, making, named, abandoned, handlerVars, refresh, crashes>>

-----------------------------------------------------------------------------
(* The refresh *)

Ages(c) ==
  /\ c \in Active /\ age[c] # "expired"
  /\ age' = [age EXCEPT ![c] = IF @ = "fresh" THEN "due" ELSE "expired"]
  /\ UNCHANGED <<cred, blob, fails, line, boxVars, handlerVars, refresh, crashes>>

(* listRefreshDue and prepareForRefresh, under the lock of runOnce *)
RefreshStarts(c) ==
  /\ refresh = 0 /\ refresh' = c
  /\ c \in Active /\ age[c] # "fresh" /\ fails[c] < REFRESH_FAILURE_LIMIT
  /\ UNCHANGED <<credVars, boxVars, handlerVars, crashes>>

(* credentials_erased_ck: the table refuses ciphertext in a revoked row *)
AcceptsCiphertext(c) == c \in Active

(* applyRefresh *)
Refreshed ==
  /\ refresh # 0 /\ refresh' = 0
  /\ AcceptsCiphertext(refresh)
  /\ blob' = blob \cup {refresh}
  /\ age' = [age EXCEPT ![refresh] = "fresh"] /\ fails' = [fails EXCEPT ![refresh] = 0]
  /\ UNCHANGED <<cred, line, boxVars, handlerVars, crashes>>

(* recordRefreshFailure: the probe failed, or the table refused *)
RefreshFails ==
  /\ refresh # 0 /\ refresh' = 0
  /\ fails' = [fails EXCEPT ![refresh] = @ + 1]
  /\ UNCHANGED <<cred, blob, age, line, boxVars, handlerVars, crashes>>

(* HelperUnavailableError: not counted *)
RefreshSkipped ==
  /\ refresh # 0 /\ refresh' = 0
  /\ UNCHANGED <<credVars, boxVars, handlerVars, crashes>>

-----------------------------------------------------------------------------
(* The process dies and starts again.  Of a create that was under way the  *)
(* instance may be there, and no row names it; RuntimeReconciler may       *)
(* remove the instances at boot that no row in use names.                  *)
InUse(b) == b \in named /\ box[b] \notin Gone \cup {"failed"}

Restart ==
  /\ crashes < MaxCrashes /\ crashes' = crashes + 1
  /\ clearing' = {} /\ refresh' = 0 /\ held' = [b \in Sandbox |-> 0]
  /\ making' = {}
  /\ box' = [b \in Sandbox |-> IF box[b] \in Working \cup {"destroying"} THEN "cut" ELSE box[b]]
  /\ \E made \in SUBSET making, removed \in SUBSET {b \in Sandbox : ~InUse(b)} :
       /\ secret' = [b \in Sandbox |-> IF b \in removed THEN {}
                                      ELSE IF b \in made THEN Into(b)[b] ELSE secret[b]]
       /\ abandoned' = abandoned \cup (made \ removed)
  /\ UNCHANGED <<credVars, named, job, bound>>

BoxProceeds(b) ==
  \/ Created(b) \/ CreatedLate(b) \/ InjectStarts(b) \/ InjectEnds(b) \/ Fails(b)
  \/ \E gone \in BOOLEAN : DestroyEnds(b, gone)

Next ==
  \/ Store \/ \E c \in Cred : Revoke(c) \/ Ages(c) \/ RefreshStarts(c)
  \/ RetryPending \/ Refreshed \/ RefreshFails \/ RefreshSkipped
  \/ \E p \in clearing : ClearGivesUp(p)
  \/ \E b \in Sandbox :
       \/ Provision(b) \/ Stops(b) \/ Starts(b) \/ UserDestroys(b) \/ BoxProceeds(b)
       \/ DeleteProject(b) \/ JobCleaned(b)
  \/ Restart

(* The handler's timer comes round, and a teardown or a job that is tried  *)
(* over and over succeeds once.                                            *)
Fairness ==
  /\ WF_vars(RetryPending)
  /\ \A b \in Sandbox : SF_vars(DestroyEnds(b, TRUE)) /\ WF_vars(JobCleaned(b))

Spec == Init /\ [][Next]_vars
FairSpec == Spec /\ Fairness

-----------------------------------------------------------------------------
(* Properties *)

(* Every variable has its type. *)
TypeOK ==
  /\ cred \in [Cred -> {"none", "active", "revoked", "replaced"}] /\ blob \subseteq Cred
  /\ age \in [Cred -> {"fresh", "due", "expired"}] /\ line \in [Cred -> Cred]
  /\ fails \in [Cred -> 0..REFRESH_FAILURE_LIMIT]
  /\ box \in [Sandbox -> Boxes] /\ held \in [Sandbox -> {0} \cup Cred]
  /\ secret \in [Sandbox -> SUBSET Cred]
  /\ making \subseteq Sandbox /\ named \subseteq Sandbox
  /\ job \subseteq Sandbox /\ abandoned \subseteq Sandbox
  /\ bound \subseteq Sandbox \X Cred /\ clearing \subseteq bound
  /\ refresh \in {0} \cup Cred /\ crashes \in 0..MaxCrashes

(* A binding tells of the secret: one of that sandbox to the credential    *)
(* that the secret's login has become, which the handler finds when that   *)
(* one is revoked.                                                         *)
Told(b, c) ==
  \E p \in bound : p[1] = b /\ line[p[2]] = line[c] /\ cred[p[2]] \in {"active", "revoked"}

(* Whatever is replaced, revoked, refreshed, failed, deleted or restarted  *)
(* when: of every secret in an instance a binding tells, or the job of its *)
(* deleted sandbox removes it.  What is lost is an instance of a create    *)
(* that answered too late or was cut off, once its sandbox is over.        *)
EverySecretIsBound ==
  \A b \in Sandbox : \A c \in secret[b] :
    Told(b, c) \/ b \in job \/ (b \in abandoned /\ Over(b))

(* At most one credential is active, and no other row holds ciphertext,    *)
(* although a refresh of it may be on its way (I-CRD-3, I-CRD-5).          *)
RevokedIsErased == blob = Active /\ Cardinality(Active) <= 1

SecretsAreAccounted == EverySecretIsBound /\ RevokedIsErased

(* When a credential is revoked, its secret and those of the credentials   *)
(* it replaced leave every sandbox in the end, whose instance a row named. *)
RevokedIsRemoved ==
  \A b \in Sandbox, c \in Cred :
    (/\ c \in secret[b] /\ b \notin abandoned
     /\ \E d \in Cred : line[d] = line[c] /\ cred[d] = "revoked") ~> (c \notin secret[b])

(* A binding is cleared only when its sandbox was actually torn down, says *)
(* the comment at the handler: with no exception.                          *)
ClearedIsTornDown ==
  \A b \in Sandbox : \A c \in secret[b] : Told(b, c) \/ b \in job
=============================================================================
