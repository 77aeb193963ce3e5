------------------------- MODULE AutomationScheduler -------------------------
(***************************************************************************)
(* The AutomationScheduler: rules that come due, the runs they start, the  *)
(* sandboxes of the runs, and the outcomes that degrade or disable a rule. *)
(*                                                                         *)
(* One sweep runs at a time, in stages: outcomes that were left pending,   *)
(* retries, runs in flight, rules that are due.  Within a stage the        *)
(* scheduler awaits sandboxes, files and teardowns with a rule it has read *)
(* before; requests change the rules meanwhile, and the last save wins.    *)
(* Awaits of the database alone do not yield.                              *)
(***************************************************************************)
EXTENDS Integers, Sequences, FiniteSets

CONSTANTS
  Rules,
  Period, DailyPeriod,     \* ticks between two slots; of a degraded rule
  DegradeAt, DisableAt,    \* FailurePolicy
  MaxAttempts,             \* RetryPolicy
  Requests,                \* what users ask for: enable, disable, remove
  MaxNow,                  \* bound: ticks of the clock
  MaxRuns,                 \* how many runs of a rule the liveness formulas name
  MaxCrashes               \* bound: restarts of the process

ASSUME SchedulerConstants ==
  /\ Period \in Nat \ {0} /\ DailyPeriod \in Nat \ {0}
  /\ DegradeAt \in Nat \ {0} /\ DisableAt \in Nat /\ DegradeAt <= DisableAt
  /\ Requests \subseteq {"enable", "disable", "remove"}
  /\ MaxAttempts \in Nat /\ MaxNow \in Nat /\ MaxRuns \in Nat /\ MaxCrashes \in Nat

VARIABLES
  now,
  exists,    \* the rules that have a row
  rule,      \* their rows: [enabled, degraded, fails, next]
  runs,      \* by rule, oldest first: [status, box, tries, again, slot, applied]
  boxes,     \* the sandboxes by creation: what phaseOf says of each
  stage,     \* the stage of the sweep, idle between two
  todo,      \* the runs, or rules, the stage has listed and not yet visited
  held,      \* the rules as listDue returned them
  began,     \* the time of the sweep
  at,        \* what the scheduler awaits
  key,       \* the run it is about: <<rule, number>>
  mine,      \* the rule as it holds it
  seen,      \* of the run before: [going, tries]
  counted,   \* history: how often the outcome of each run was recorded
  crashes

rowVars == <<exists, rule, runs, counted>>
sweepVars == <<stage, todo, held, began>>
vars == <<now, exists, rule, runs, boxes, stage, todo, held, began, at, key, mine, seen,
          counted, crashes>>

Never == -1
Ended == {"success", "failed", "timeout"}
Terminal == Ended \cup {"skipped", "missed"}
Finished == {"success", "failed", "timeout", "capacity"}
NoRun == <<"none", 0>>

NewRule == [enabled |-> TRUE, degraded |-> FALSE, fails |-> 0, next |-> Period]
NewRun(status, slot) ==
  [status |-> status, box |-> 0, tries |-> 0, again |-> FALSE, slot |-> slot,
   applied |-> status \in {"skipped", "missed"}]

Keys == UNION {{<<r, i>> : i \in DOMAIN runs[r]} : r \in Rules}
Run(k) == runs[k[1]][k[2]]
Stored(k) == k \in Keys
Phase(k) == boxes[Run(k).box]

Init ==
  /\ now = 0
  /\ exists = Rules
  /\ rule = [r \in Rules |-> NewRule]
  /\ runs = [r \in Rules |-> <<>>]
  /\ boxes = <<>>
  /\ stage = "idle" /\ todo = {} /\ held = rule /\ began = 0
  /\ at = "none" /\ key = NoRun
  /\ mine = NewRule /\ seen = [going |-> FALSE, tries |-> 0]
  /\ counted = [r \in Rules |-> <<>>]
  /\ crashes = 0

-----------------------------------------------------------------------------
(* The rule.                                                               *)

NextSlotInclusive(a, t) ==
  LET p == IF a.degraded THEN DailyPeriod ELSE Period IN ((t + p - 1) \div p) * p
NextSlot(a, t) ==
  LET p == IF a.degraded THEN DailyPeriod ELSE Period IN (t \div p + 1) * p

Reschedule(a, t) == IF a.enabled THEN [a EXCEPT !.next = NextSlot(a, t)] ELSE a

(* A slot that is due already is left to the sweep. *)
RecomputeFutureTrigger(a, t) ==
  IF a.next # Never /\ a.next <= t THEN a ELSE Reschedule(a, t)

Disabled(a) == [a EXCEPT !.enabled = FALSE, !.degraded = TRUE, !.next = Never]

RecordFailure(a, t) ==
  LET b == [a EXCEPT !.fails = @ + 1] IN
  IF b.fails >= DisableAt THEN Disabled(b)
  ELSE IF b.fails >= DegradeAt /\ ~a.degraded
       THEN RecomputeFutureTrigger([b EXCEPT !.degraded = TRUE], t)
       ELSE b

RecordSuccess(a, t) ==
  LET b == [a EXCEPT !.fails = 0, !.degraded = FALSE] IN
  IF a.degraded THEN RecomputeFutureTrigger(b, t) ELSE b

RecordOutcome(a, outcome, t) ==
  IF outcome = "success" THEN RecordSuccess(a, t) ELSE RecordFailure(a, t)

-----------------------------------------------------------------------------
(* Writes.  A run whose rule was deleted is gone, and saving it violates   *)
(* the foreign key; saving a rule that was deleted inserts it again.       *)

Unsaved == UNCHANGED rowVars

SaveRule(r, a) ==
  /\ exists' = exists \cup {r}
  /\ rule' = [rule EXCEPT ![r] = a]

SaveRun(k, run) ==
  IF Stored(k)
    THEN /\ runs' = [runs EXCEPT ![k[1]][k[2]] = run]
         /\ UNCHANGED <<exists, rule, counted>>
    ELSE Unsaved

ApplyOutcomeForgetful(k, run, a) ==
  IF Stored(k)
    THEN /\ runs' = [runs EXCEPT ![k[1]][k[2]] = run]
         /\ SaveRule(k[1], RecordOutcome(a, run.status, now))
         /\ counted' = [counted EXCEPT ![k[1]][k[2]] = @ + 1]
    ELSE Unsaved

(* The outcome and the mark that it was recorded are one transaction. *)
ApplyOutcome(k, run, a) ==
  IF Stored(k)
    THEN /\ runs' = [runs EXCEPT ![k[1]][k[2]] = [run EXCEPT !.applied = TRUE]]
         /\ SaveRule(k[1], RecordOutcome(a, run.status, now))
         /\ counted' = [counted EXCEPT ![k[1]][k[2]] = @ + 1]
    ELSE Unsaved

Finalize(k, status) == [Run(k) EXCEPT !.status = status]
Fail(k, a) == ApplyOutcome(k, [Run(k) EXCEPT !.status = "failed"], a)

QueueRetry(run) == [run EXCEPT !.status = "resource-exhausted", !.tries = @ + 1, !.again = FALSE]

QueueAndCount(k, a) ==
  IF Stored(k) /\ Run(k).tries < MaxAttempts
    THEN /\ runs' = [runs EXCEPT ![k[1]][k[2]] = QueueRetry(Run(k))]
         /\ SaveRule(k[1], RecordFailure(a, now))
         /\ UNCHANGED counted
    ELSE Fail(k, a)

(* Another attempt of the same run, or the end of it. *)
QueueOrGiveUp(k, a) ==
  IF Stored(k) /\ Run(k).tries < MaxAttempts
    THEN SaveRun(k, QueueRetry(Run(k)))
    ELSE Fail(k, a)

-----------------------------------------------------------------------------
(* The sweep and its stages.                                               *)

Await(what, k, a) == at' = what /\ key' = k /\ mine' = a
Idle == Await("none", NoRun, NewRule)

ListFailedPending == {k \in Keys : Run(k).status = "failed" /\ ~Run(k).applied}
ListOutcomePending == {k \in Keys : Run(k).status \in Ended /\ ~Run(k).applied}
ListFreshRetries ==
  {k \in Keys : Run(k).status = "resource-exhausted" /\ Run(k).again /\ Run(k).box = 0}
ListPendingRetries == {k \in Keys : Run(k).status = "resource-exhausted" /\ Run(k).again}
ListActive == {k \in Keys : Run(k).status \in {"pending", "running"}}
Due(r) == rule[r].enabled /\ rule[r].next # Never /\ rule[r].next <= now
ListOnTime == {r \in exists : Due(r) /\ rule[r].next = now}
ListDue == {r \in exists : Due(r)}

(* runOnce: the stages in order, each with a list of its own. *)
NextStage ==
  /\ at = "none" /\ todo = {}
  /\ \/ stage = "idle"     /\ stage' = "outcomes" /\ todo' = ListOutcomePending
     \/ stage = "outcomes" /\ stage' = "retries"  /\ todo' = ListPendingRetries
     \/ stage = "retries"  /\ stage' = "flight"   /\ todo' = ListActive
     \/ stage = "flight"   /\ stage' = "fire"     /\ todo' = ListDue
     \/ stage = "fire"     /\ stage' = "idle"     /\ todo' = {}
  /\ held' = IF stage = "flight" THEN rule ELSE [r \in Rules |-> NewRule]
  /\ began' = IF stage = "flight" THEN now ELSE 0
  /\ UNCHANGED <<now, rowVars, boxes, at, key, mine, seen, crashes>>

Visit(during, k) ==
  /\ stage = during /\ at = "none" /\ k \in todo
  /\ todo' = todo \ {k}
  /\ UNCHANGED <<now, boxes, stage, held, began, crashes>>

(* applyPendingOutcomes: finish the task, then record the outcome. *)
VisitOutcome(k) ==
  /\ Visit("outcomes", k)
  /\ IF Stored(k) THEN Await("finish", k, rule[k[1]]) ELSE Idle
  /\ Unsaved /\ UNCHANGED seen

(* advanceInFlight: the retries that came due ... *)
VisitRetry(k) ==
  /\ Visit("retries", k)
  /\ IF Stored(k) THEN Await("create", k, rule[k[1]]) ELSE Idle
  /\ Unsaved /\ UNCHANGED seen

(* ... and advanceOne, by the phase; a run without a sandbox is left alone. *)
Backed(k) == Stored(k) /\ Run(k).box # 0
Busy == {"provisioning", "running"}

VisitRun(k) ==
  /\ Visit("flight", k)
  /\ UNCHANGED seen
  /\ \/ /\ Backed(k) => Phase(k) \in Busy
        /\ Idle /\ Unsaved
     \/ /\ Backed(k) /\ Phase(k) = "ready"
        /\ Await("start", k, rule[k[1]]) /\ Unsaved
     \/ /\ Backed(k) /\ Phase(k) \in Ended
        /\ Await("summary", k, rule[k[1]]) /\ Unsaved
     \/ /\ Backed(k) /\ Phase(k) = "capacity"
        /\ Idle /\ QueueOrGiveUp(k, rule[k[1]])
     \/ /\ Backed(k) /\ Phase(k) = "gone"
        /\ Idle /\ Fail(k, rule[k[1]])

-----------------------------------------------------------------------------
(* What an await answers.                                                  *)

SameSweep == UNCHANGED <<now, stage, todo, held, began, seen, crashes>>

(* finishTask tears the sandbox down; a throw leaves the run to the next sweep. *)
FinishDone ==
  /\ at = "finish" /\ Idle /\ SameSweep
  /\ boxes' = IF Backed(key) /\ Phase(key) \in {"provisioning", "ready"}
                THEN [boxes EXCEPT ![Run(key).box] = "gone"] ELSE boxes
  /\ IF Stored(key) THEN ApplyOutcome(key, Run(key), mine) ELSE Unsaved
FinishThrows ==
  /\ at = "finish" /\ Idle /\ SameSweep
  /\ UNCHANGED <<boxes, rowVars>>

(* The end of the run is saved before the sandbox is finished. *)
SummaryDone ==
  /\ at = "summary" /\ SameSweep
  /\ UNCHANGED boxes
  /\ IF Stored(key)
       THEN /\ SaveRun(key, Finalize(key, Phase(key)))
            /\ Await("finish", key, mine)
       ELSE Idle /\ Unsaved

StartDone ==
  /\ at = "start" /\ Idle /\ SameSweep
  /\ IF Backed(key) THEN Phase(key) = "ready" ELSE TRUE
  /\ boxes' = IF Backed(key) THEN [boxes EXCEPT ![Run(key).box] = "running"] ELSE boxes
  /\ Unsaved
StartThrows ==
  /\ at = "start" /\ SameSweep
  /\ UNCHANGED boxes
  /\ IF Stored(key)
       THEN /\ SaveRun(key, Finalize(key, "failed"))
            /\ Await("finish", key, mine)
       ELSE Idle /\ Unsaved

(* tryStartSandbox *)
CreateDone ==
  /\ at = "create" /\ Idle /\ SameSweep
  /\ boxes' = Append(boxes, "provisioning")
  /\ IF Stored(key)
       THEN SaveRun(key, [Run(key) EXCEPT !.status = "running", !.box = Len(boxes) + 1,
                                          !.again = FALSE])
       ELSE Unsaved
CreateThrows ==
  /\ at = "create" /\ Idle /\ SameSweep
  /\ UNCHANGED boxes
  /\ IF Stored(key) THEN QueueOrGiveUp(key, mine) \/ Fail(key, mine) ELSE Unsaved

-----------------------------------------------------------------------------
(* fireOne, a due rule: look at the run before, ask for capacity, decide.  *)

Latest(r) == <<r, Len(runs[r])>>
Open(k) == Stored(k) /\ Run(k).status \notin Terminal

(* isPreviousStillGoing *)
StillGoing(k) ==
  Open(k) /\ (Run(k).box # 0 => Phase(k) \notin Finished \cup {"gone"})

VisitRule(r) ==
  /\ Visit("fire", r)
  /\ Await("capacity", <<r, 0>>, held[r])
  /\ seen' = [going |-> StillGoing(Latest(r)),
              tries |-> IF Open(Latest(r)) THEN Run(Latest(r)).tries ELSE 0]
  /\ Unsaved

(* TriggerDecisionService.decide: late, before running, credential, capacity. *)
Decide(usable, free) ==
  IF began > mine.next THEN "missed"
  ELSE IF seen.going \/ ~usable THEN "skip"
  ELSE IF free THEN "trigger"
  ELSE IF seen.tries < MaxAttempts THEN "retry" ELSE "fail"

AdvanceTrigger(a, t) == [a EXCEPT !.next = NextSlot(a, t)]

AddRun(r, run, recorded) ==
  /\ runs' = [runs EXCEPT ![r] = Append(@, run)]
  /\ counted' = [counted EXCEPT ![r] = Append(@, recorded)]

(* The slot is advanced and saved before anything else is done about it. *)
CapacityAnswer ==
  \E usable, free \in BOOLEAN :
    LET r == key[1]
        d == Decide(usable, free)
        a == AdvanceTrigger(mine, began)
        open == NewRun("pending", mine.next)
    IN
    /\ at = "capacity"
    /\ UNCHANGED <<now, boxes, stage, todo, held, began, seen, crashes>>
    /\ \/ /\ d = "missed" /\ Idle
          /\ SaveRule(r, a) /\ AddRun(r, NewRun("missed", mine.next), 0)
       \/ /\ d = "skip" /\ Idle
          /\ SaveRule(r, a) /\ AddRun(r, NewRun("skipped", mine.next), 0)
       \/ /\ d = "retry" /\ Idle
          /\ SaveRule(r, a) /\ AddRun(r, QueueRetry(open), 0)
       \/ /\ d = "fail" /\ Idle
          /\ SaveRule(r, RecordOutcome(a, "failed", now))
          /\ AddRun(r, [open EXCEPT !.status = "failed", !.applied = TRUE], 1)
       \/ /\ d = "trigger" /\ Await("create", <<r, Len(runs[r]) + 1>>, a)
          /\ SaveRule(r, a) /\ AddRun(r, open, 0)

-----------------------------------------------------------------------------
(* The users, the clock, the sandboxes and the process.                    *)

NotTheSweep == UNCHANGED <<stage, todo, held, began, at, key, mine, seen, crashes>>

Disable(r) ==
  /\ "disable" \in Requests /\ r \in exists /\ rule[r].enabled
  /\ rule' = [rule EXCEPT ![r].enabled = FALSE, ![r].next = Never]
  /\ UNCHANGED <<now, exists, runs, counted, boxes>> /\ NotTheSweep

Enable(r) ==
  /\ "enable" \in Requests /\ r \in exists
  /\ rule' = [rule EXCEPT ![r] = RecomputeFutureTrigger(
                [@ EXCEPT !.enabled = TRUE, !.degraded = FALSE, !.fails = 0], now)]
  /\ UNCHANGED <<now, exists, runs, counted, boxes>> /\ NotTheSweep

(* The runs go with the rule, by cascade. *)
Remove(r) ==
  /\ "remove" \in Requests /\ r \in exists
  /\ exists' = exists \ {r}
  /\ rule' = [rule EXCEPT ![r] = NewRule]
  /\ runs' = [runs EXCEPT ![r] = <<>>]
  /\ counted' = [counted EXCEPT ![r] = <<>>]
  /\ UNCHANGED <<now, boxes>> /\ NotTheSweep

Tick ==
  /\ now < MaxNow
  /\ now' = now + 1
  /\ UNCHANGED <<rowVars, boxes>> /\ NotTheSweep

(* The interval of a queued retry is over. *)
RetryDue(k) ==
  /\ Stored(k) /\ Run(k).status = "resource-exhausted" /\ ~Run(k).again
  /\ runs' = [runs EXCEPT ![k[1]][k[2]].again = TRUE]
  /\ UNCHANGED <<now, exists, rule, counted, boxes>> /\ NotTheSweep

(* Provisioning and the task come to an end; a user may destroy a sandbox. *)
BoxMoves(b) ==
  /\ boxes[b] \in Busy
  /\ \E p \in IF boxes[b] = "running" THEN Ended ELSE {"ready", "failed", "capacity"} :
       boxes' = [boxes EXCEPT ![b] = p]
  /\ UNCHANGED <<now, rowVars>> /\ NotTheSweep
BoxDestroyed(b) ==
  /\ boxes[b] \in {"provisioning", "ready"}
  /\ boxes' = [boxes EXCEPT ![b] = "gone"]
  /\ UNCHANGED <<now, rowVars>> /\ NotTheSweep

(* The process dies; what it asked for may have been done, and the slot    *)
(* may have been saved without its run.                                    *)
Crash ==
  /\ crashes < MaxCrashes
  /\ crashes' = crashes + 1
  /\ stage' = "idle" /\ todo' = {} /\ held' = [r \in Rules |-> NewRule] /\ began' = 0
  /\ Idle /\ seen' = [going |-> FALSE, tries |-> 0]
  /\ UNCHANGED <<now, runs, counted>>
  /\ \/ UNCHANGED <<exists, rule, boxes>>
     \/ /\ at = "create"
        /\ boxes' = Append(boxes, "provisioning") /\ UNCHANGED <<exists, rule>>
     \/ /\ at = "start" /\ Backed(key) /\ Phase(key) = "ready"
        /\ boxes' = [boxes EXCEPT ![Run(key).box] = "running"] /\ UNCHANGED <<exists, rule>>
     \/ /\ at = "finish" /\ Backed(key) /\ Phase(key) \in {"provisioning", "ready"}
        /\ boxes' = [boxes EXCEPT ![Run(key).box] = "gone"] /\ UNCHANGED <<exists, rule>>
     \/ /\ at = "capacity"
        /\ SaveRule(key[1], AdvanceTrigger(mine, began)) /\ UNCHANGED boxes

Answer ==
  \/ FinishDone \/ FinishThrows \/ SummaryDone \/ StartDone \/ StartThrows
  \/ CreateDone \/ CreateThrows \/ CapacityAnswer

VisitSome == \E k \in todo : VisitOutcome(k) \/ VisitRetry(k) \/ VisitRun(k) \/ VisitRule(k)

Next ==
  \/ NextStage \/ Answer \/ VisitSome \/ Tick \/ Crash
  \/ \E k \in Keys : RetryDue(k)
  \/ \E r \in Rules : Disable(r) \/ Enable(r) \/ Remove(r)
  \/ \E b \in DOMAIN boxes : BoxMoves(b) \/ BoxDestroyed(b)

Spec == Init /\ [][Next]_vars

(* Timers and queues go on; an await answers; teardown that is tried again *)
(* and again succeeds; provisioning and tasks have deadlines.  A list gets *)
(* shorter by every visit, a run has a few retries and a sandbox a few     *)
(* phases, so it is enough that some visit, retry or sandbox goes on.      *)
Fairness ==
  /\ WF_vars(NextStage) /\ WF_vars(VisitSome) /\ WF_vars(Answer)
  /\ SF_vars(FinishDone)
  /\ WF_vars(\E k \in Keys : RetryDue(k))
  /\ WF_vars(\E b \in DOMAIN boxes : BoxMoves(b))

FairSpec == Spec /\ Fairness

-----------------------------------------------------------------------------
(* Properties.                                                             *)

Aggregate ==
  [enabled : BOOLEAN, degraded : BOOLEAN, fails : Nat, next : Nat \cup {Never}]
RunRows ==
  [status : {"pending", "running", "resource-exhausted"} \cup Terminal, box : Nat,
   tries : 0..MaxAttempts, again : BOOLEAN, slot : Nat, applied : BOOLEAN]
Phases == {"provisioning", "ready", "running", "gone"} \cup Finished

(* Every variable has its type; a run is never queued more often than its  *)
(* retry budget.                                                           *)
TypeOK ==
  /\ now \in 0..MaxNow /\ exists \subseteq Rules /\ crashes \in 0..MaxCrashes
  /\ rule \in [Rules -> Aggregate] /\ held \in [Rules -> Aggregate] /\ mine \in Aggregate
  /\ \A r \in Rules :
       /\ \A i \in DOMAIN runs[r] : runs[r][i] \in RunRows
       /\ DOMAIN counted[r] = DOMAIN runs[r]
  /\ \A b \in DOMAIN boxes : boxes[b] \in Phases
  /\ stage \in {"idle", "outcomes", "retries", "flight", "fire"} /\ began \in 0..MaxNow
  /\ at \in {"none", "finish", "create", "start", "summary", "capacity"}
  /\ \A k \in todo : stage # "fire" => k[1] \in Rules

(* A slot is fired once, and slots fire in order: advanceTrigger is saved  *)
(* before anything is launched, so neither a crash nor a request brings a  *)
(* slot back (I-AUT-8).                                                    *)
SlotsInOrder ==
  \A r \in Rules : \A i, j \in DOMAIN runs[r] :
    i < j => runs[r][i].slot < runs[r][j].slot

(* The outcome of a run is recorded against its rule exactly when it is    *)
(* marked so, and once, whatever crash or failed teardown repeats it.      *)
CountedOnce ==
  \A r \in Rules : \A i \in DOMAIN runs[r] :
    LET run == runs[r][i] IN
    counted[r][i] = IF run.applied /\ run.status \in Ended THEN 1 ELSE 0

(* A rule that failed DisableAt times in a row is off the schedule, one    *)
(* that failed DegradeAt times is slowed down, and only an enabled rule    *)
(* has a next slot.                                                        *)
RuleIsCoherent ==
  \A r \in Rules :
    LET a == rule[r] IN
    /\ a.fails >= DisableAt => ~a.enabled
    /\ a.fails >= DegradeAt => a.degraded
    /\ a.enabled <=> a.next # Never

(* Outcomes are recorded once each, and the policy follows from them.      *)
OutcomesAreKept == CountedOnce /\ RuleIsCoherent

(* The rule the scheduler holds is the row still: no request got between. *)
Undisturbed == at # "none" => key[1] \in exists /\ mine = rule[key[1]]

(* A slot that is due leaves the schedule only with a run in the history,  *)
(* unless a request or a crash interferes: degrading and recovering do not *)
(* move it (I-AUT-10).                                                     *)
DueSlotIsNotEaten ==
  [][\A r \in exists :
       (Undisturbed /\ Due(r) /\ r \in exists' /\ rule'[r].enabled /\ crashes' = crashes
        /\ rule'[r].next # rule[r].next)
         => \E i \in DOMAIN runs'[r] \ DOMAIN runs[r] : runs'[r][i].slot = rule[r].next]_vars

(* Only a run that ended badly counts as a failure of the rule: a lack of  *)
(* capacity does not until its last retry is used up.                      *)
FailuresAreFinal ==
  [][\A r \in exists :
       Undisturbed /\ rule'[r].fails > rule[r].fails
         => \E i \in DOMAIN runs'[r] :
              /\ runs'[r][i].status \in {"failed", "timeout"} /\ runs'[r][i].applied
              /\ i \in DOMAIN runs[r] => ~runs[r][i].applied]_vars

(* The scheduler moves a rule's slot and counts its failures for a reason  *)
(* its history shows, and for no other.                                    *)
RuleMovesForCause == DueSlotIsNotEaten /\ FailuresAreFinal

Settled(k) == Stored(k) /\ Run(k).status \in Terminal /\ Run(k).applied

(* The process died before the run had a sandbox, and nobody launches it   *)
(* any more.                                                               *)
CutOff(k) == crashes > 0 /\ Open(k) /\ Run(k).status = "pending" /\ Run(k).box = 0 /\ key # k

(* A run comes to an end and its outcome is recorded, or it goes with its  *)
(* rule: also when the process dies at any await, between saving the end   *)
(* and recording the outcome too.  The one exception is a launch that was  *)
(* cut off.                                                                *)
RunIsSettled ==
  \A r \in Rules : \A i \in 1..MaxRuns :
    LET k == <<r, i>> IN Stored(k) ~> ~Stored(k) \/ Settled(k) \/ CutOff(k)

(* A rule that is due fires, is turned off or is removed.                  *)
DueIsHandled ==
  \A r \in Rules :
    (r \in exists /\ Due(r)) ~> (r \notin exists \/ ~Due(r))

-----------------------------------------------------------------------------
(* What the code says of itself and does not do.                           *)

(* A rule a user disabled stays so until a user enables it.                *)
DisabledStaysDisabled ==
  [][\A r \in exists \cap exists' :
       ~rule[r].enabled /\ rule'[r].enabled => at' = at /\ key' = key]_vars

(* A deleted rule does not come back.                                      *)
DeletedStaysDeleted == [][exists' \subseteq exists]_vars

(* No two tasks of a rule run at once: a slot is skipped while the run     *)
(* before is going on (PREVIOUS_RUNNING).                                  *)
OneTaskPerRule ==
  \A r \in Rules : \A i, j \in DOMAIN runs[r] :
    /\ Backed(<<r, i>>) /\ Phase(<<r, i>>) = "running"
    /\ Backed(<<r, j>>) /\ Phase(<<r, j>>) = "running"
    => i = j

(* A run that was opened comes to an end or goes with its rule: after a    *)
(* restart the next round goes on with it, says the comment at             *)
(* advanceInFlight.                                                        *)
RunEnds ==
  \A r \in Rules : \A i \in 1..MaxRuns :
    Stored(<<r, i>>) ~> ~Stored(<<r, i>>) \/ runs[r][i].status \in Terminal

(* Every sandbox that was made for a run is named by that run.             *)
BoxIsRecorded ==
  \A b \in DOMAIN boxes : boxes[b] \in {"provisioning", "ready", "running"} => \E k \in Keys : Run(k).box = b
=============================================================================
