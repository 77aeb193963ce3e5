---------------------- MODULE AutomationScheduler_proofs ----------------------
(***************************************************************************)
(* Proofs about AutomationScheduler: slots fire once and in order, the     *)
(* outcome of a run is recorded once, and a rule's state is coherent, for  *)
(* every set of rules, every policy and whatever users do meanwhile.       *)
(***************************************************************************)
EXTENDS AutomationScheduler, SequenceTheorems, TLAPS

USE SchedulerConstants

-----------------------------------------------------------------------------
(* The invariant.                                                          *)

Unended == {"pending", "running", "resource-exhausted"}

ScalarType ==
  /\ now \in 0..MaxNow /\ exists \subseteq Rules /\ crashes \in 0..MaxCrashes
  /\ rule \in [Rules -> Aggregate] /\ held \in [Rules -> Aggregate] /\ mine \in Aggregate
  /\ seen \in [going : BOOLEAN, tries : 0..MaxAttempts]
  /\ stage \in {"idle", "outcomes", "retries", "flight", "fire"} /\ began \in 0..MaxNow
  /\ at \in {"none", "finish", "create", "start", "summary", "capacity"}

HistoryType ==
  /\ runs \in [Rules -> Seq(RunRows)] /\ counted \in [Rules -> Seq(Nat)]
  /\ \A r \in Rules : Len(counted[r]) = Len(runs[r])
  /\ boxes \in Seq(Phases)

\* A run and the number of times its outcome was recorded.
RunGood(run, c) ==
  /\ run.status \in Unended => ~run.applied
  /\ c = IF run.applied /\ run.status \in Ended THEN 1 ELSE 0
  /\ run.slot <= now
  /\ run.box <= Len(boxes)

HistoryInv ==
  \A r \in Rules : \A i \in 1..Len(runs[r]) : RunGood(runs[r][i], counted[r][i])

Coherent(a) ==
  /\ a.fails >= DisableAt => ~a.enabled
  /\ a.fails >= DegradeAt => a.degraded
  /\ a.enabled <=> a.next # Never

\* A value of the row of r that may be saved: its next slot is later than every run's.
RuleGood(r, a) ==
  /\ a \in Aggregate /\ Coherent(a)
  /\ a.next # Never => \A i \in 1..Len(runs[r]) : runs[r][i].slot < a.next

\* What the scheduler may take for granted of a run it has listed, or waits for.
Listed(run) ==
  /\ stage = "outcomes" => run.status \in Ended /\ ~run.applied
  /\ stage = "retries" => run.status = "resource-exhausted"
  /\ stage = "flight" => run.status \in {"pending", "running"}
Awaited(run) ==
  /\ at = "finish" => run.status \in Ended /\ ~run.applied
  /\ at = "create" => run.status \in {"pending", "resource-exhausted"}
  /\ at \in {"start", "summary"} => run.status \in {"pending", "running"}
  /\ at = "summary" => run.box \in 1..Len(boxes) /\ boxes[run.box] \in Ended

ListedInv == \A r \in Rules : \A i \in 1..Len(runs[r]) : <<r, i>> \in todo => Listed(runs[r][i])
AwaitedInv == \A r \in Rules : \A i \in 1..Len(runs[r]) : key = <<r, i>> => Awaited(runs[r][i])

StageInv ==
  /\ began <= now
  /\ stage = "idle" => at = "none" /\ todo = {}
  /\ at = "finish" => stage \in {"outcomes", "flight"}
  /\ at = "create" => stage \in {"retries", "fire"}
  /\ at \in {"start", "summary"} => stage = "flight"
  /\ at = "capacity" => stage = "fire" /\ key[1] \notin todo
  /\ at # "none" => key \in Rules \X Nat /\ (stage # "fire" => key \notin todo)
  /\ stage \in {"outcomes", "retries", "flight"} => todo \subseteq Rules \X Nat
  /\ stage = "fire" => todo \subseteq Rules

IsDue(a) == a.enabled /\ a.next # Never /\ a.next <= began

RulesInv ==
  /\ \A r \in Rules : RuleGood(r, rule[r])
  /\ at # "none" => RuleGood(key[1], mine)
  /\ at = "capacity" => IsDue(mine)
  /\ stage = "fire" => \A r \in Rules : r \in todo => RuleGood(r, held[r]) /\ IsDue(held[r])

IInv ==
  /\ ScalarType /\ HistoryType
  /\ SlotsInOrder /\ HistoryInv
  /\ ListedInv /\ AwaitedInv /\ StageInv /\ RulesInv

-----------------------------------------------------------------------------
(* The rule.                                                               *)

LEMMA SlotAfter ==
  ASSUME NEW t \in Nat, NEW p \in Nat \ {0}
  PROVE  (t \div p + 1) * p \in Nat /\ (t \div p + 1) * p > t
<1>1. (t \div p + 1) * p > t OBVIOUS
<1>2. t \div p \in Nat OBVIOUS
<1> QED BY <1>1, <1>2

LEMMA NextSlotLater ==
  ASSUME NEW a, NEW t \in Nat
  PROVE  NextSlot(a, t) \in Nat /\ NextSlot(a, t) > t
BY SlotAfter DEF NextSlot

\* What a change of a rule at time t may do: it stays coherent, and its next slot stays, goes,
\* or is in the future.
ChangedAt(b, a, t) ==
  /\ b \in Aggregate /\ Coherent(b)
  /\ b.next = a.next \/ b.next = Never \/ b.next > t

LEMMA NewRuleGood == NewRule \in Aggregate /\ Coherent(NewRule)
BY DEF NewRule, Aggregate, Coherent, Never

LEMMA RecomputeGood ==
  ASSUME NEW a \in Aggregate, NEW t \in Nat, a.enabled => a.fails < DisableAt,
         a.fails >= DegradeAt => a.degraded, ~a.enabled => a.next = Never
  PROVE  ChangedAt(RecomputeFutureTrigger(a, t), a, t)
<1> DEFINE b == [a EXCEPT !.next = NextSlot(a, t)]
<1>1. CASE a.next # Never /\ a.next <= t
  BY <1>1 DEF RecomputeFutureTrigger, ChangedAt, Coherent, Aggregate
<1>2. CASE ~(a.next # Never /\ a.next <= t) /\ a.enabled
  <2>1. RecomputeFutureTrigger(a, t) = b BY <1>2 DEF RecomputeFutureTrigger, Reschedule
  <2>2. NextSlot(a, t) \in Nat /\ NextSlot(a, t) > t BY NextSlotLater
  <2>3. /\ b \in Aggregate /\ b.next = NextSlot(a, t) /\ b.enabled = a.enabled
        /\ b.fails = a.fails /\ b.degraded = a.degraded
    BY <2>2 DEF Aggregate
  <2> QED BY <1>2, <2>1, <2>2, <2>3 DEF ChangedAt, Coherent, Never, Aggregate
<1>3. CASE ~(a.next # Never /\ a.next <= t) /\ ~a.enabled
  BY <1>3 DEF RecomputeFutureTrigger, Reschedule, ChangedAt, Coherent, Aggregate
<1> QED BY <1>1, <1>2, <1>3 DEF Aggregate

LEMMA SuccessGood ==
  ASSUME NEW a \in Aggregate, Coherent(a), NEW t \in Nat
  PROVE  ChangedAt(RecordSuccess(a, t), a, t)
<1> DEFINE b == [a EXCEPT !.fails = 0, !.degraded = FALSE]
<1>1. /\ b \in Aggregate /\ b.fails = 0 /\ b.enabled = a.enabled /\ b.next = a.next
  BY DEF Aggregate
<1>2. Coherent(b) /\ (b.enabled => b.fails < DisableAt) /\ (~b.enabled => b.next = Never)
  BY <1>1 DEF Coherent
<1>3. RecordSuccess(a, t) = IF a.degraded THEN RecomputeFutureTrigger(b, t) ELSE b
  BY DEF RecordSuccess
<1> HIDE DEF b
<1>4. CASE a.degraded BY <1>1, <1>2, <1>3, <1>4, RecomputeGood DEF ChangedAt, Coherent
<1>5. CASE ~a.degraded BY <1>1, <1>2, <1>3, <1>5 DEF ChangedAt
<1> QED BY <1>4, <1>5 DEF Aggregate

LEMMA FailureGood ==
  ASSUME NEW a \in Aggregate, Coherent(a), NEW t \in Nat
  PROVE  ChangedAt(RecordFailure(a, t), a, t)
<1> DEFINE b == [a EXCEPT !.fails = @ + 1]
           d == [b EXCEPT !.degraded = TRUE]
<1>1. /\ b \in Aggregate /\ b.fails = a.fails + 1 /\ b.enabled = a.enabled /\ b.next = a.next
      /\ b.degraded = a.degraded
  BY DEF Aggregate
<1>2. RecordFailure(a, t) = IF b.fails >= DisableAt THEN Disabled(b)
                            ELSE IF b.fails >= DegradeAt /\ ~a.degraded
                                 THEN RecomputeFutureTrigger(d, t) ELSE b
  BY DEF RecordFailure
<1> HIDE DEF b
<1>3. CASE b.fails >= DisableAt
  <2>1. /\ Disabled(b) \in Aggregate /\ ~Disabled(b).enabled /\ Disabled(b).degraded
        /\ Disabled(b).next = Never
    BY <1>1 DEF Disabled, Aggregate
  <2> QED BY <1>2, <1>3, <2>1 DEF ChangedAt, Coherent
<1>4. CASE ~(b.fails >= DisableAt) /\ b.fails >= DegradeAt /\ ~a.degraded
  <2>1. /\ d \in Aggregate /\ d.fails = b.fails /\ d.enabled = b.enabled /\ d.next = b.next
        /\ d.degraded
    BY <1>1 DEF Aggregate
  <2> HIDE DEF d
  <2>2. d.fails < DisableAt /\ (~d.enabled => d.next = Never)
    BY <1>1, <1>4, <2>1 DEF Coherent, Aggregate
  <2>3. ChangedAt(RecomputeFutureTrigger(d, t), d, t) BY <2>1, <2>2, RecomputeGood
  <2> QED BY <1>1, <1>2, <1>4, <2>1, <2>3 DEF ChangedAt
<1>5. CASE ~(b.fails >= DisableAt) /\ ~(b.fails >= DegradeAt /\ ~a.degraded)
  BY <1>1, <1>2, <1>5 DEF ChangedAt, Coherent, Aggregate
<1> QED BY <1>3, <1>4, <1>5

LEMMA OutcomeGood ==
  ASSUME NEW a \in Aggregate, Coherent(a), NEW t \in Nat, NEW outcome
  PROVE  ChangedAt(RecordOutcome(a, outcome, t), a, t)
BY SuccessGood, FailureGood DEF RecordOutcome

LEMMA AdvanceGood ==
  ASSUME NEW a \in Aggregate, Coherent(a), a.enabled, NEW t \in Nat
  PROVE  /\ AdvanceTrigger(a, t) \in Aggregate /\ Coherent(AdvanceTrigger(a, t))
         /\ AdvanceTrigger(a, t).next \in Nat /\ AdvanceTrigger(a, t).next > t
<1> DEFINE b == [a EXCEPT !.next = NextSlot(a, t)]
<1>1. NextSlot(a, t) \in Nat /\ NextSlot(a, t) > t BY NextSlotLater
<1>2. /\ b \in Aggregate /\ b.next = NextSlot(a, t) /\ b.enabled = a.enabled
      /\ b.fails = a.fails /\ b.degraded = a.degraded
  BY <1>1 DEF Aggregate
<1>3. AdvanceTrigger(a, t) = b BY DEF AdvanceTrigger
<1> QED BY <1>1, <1>2, <1>3 DEF Coherent, Never, Aggregate

LEMMA EnabledGood ==
  ASSUME NEW a \in Aggregate, Coherent(a), NEW t \in Nat
  PROVE  ChangedAt(RecomputeFutureTrigger([a EXCEPT !.enabled = TRUE, !.degraded = FALSE,
                                                    !.fails = 0], t), a, t)
<1> DEFINE b == [a EXCEPT !.enabled = TRUE, !.degraded = FALSE, !.fails = 0]
<1>1. b \in Aggregate /\ b.enabled /\ b.fails = 0 /\ b.next = a.next BY DEF Aggregate
<1> HIDE DEF b
<1>2. ChangedAt(RecomputeFutureTrigger(b, t), b, t) BY <1>1, RecomputeGood
<1>3. ChangedAt(RecomputeFutureTrigger(b, t), a, t) BY <1>1, <1>2 DEF ChangedAt
<1> QED BY <1>3 DEF b

-----------------------------------------------------------------------------
(* The rows: one run is written, and perhaps its rule.                     *)

LEMMA StoredKey ==
  ASSUME HistoryType, NEW k \in Rules \X Nat
  PROVE  /\ k = <<k[1], k[2]>> /\ k[1] \in Rules
         /\ Stored(k) <=> k[2] \in 1..Len(runs[k[1]])
<1>1. k = <<k[1], k[2]>> /\ k[1] \in Rules OBVIOUS
<1>2. \A r \in Rules : runs[r] \in Seq(RunRows) /\ DOMAIN runs[r] = 1..Len(runs[r])
  BY DEF HistoryType
<1> QED BY <1>1, <1>2 DEF Stored, Keys

LEMMA RunType ==
  ASSUME HistoryType, NEW r \in Rules, NEW i \in 1..Len(runs[r])
  PROVE  runs[r][i] \in RunRows /\ counted[r][i] \in Nat
<1>1. runs[r] \in Seq(RunRows) /\ counted[r] \in Seq(Nat) /\ Len(counted[r]) = Len(runs[r])
  BY DEF HistoryType
<1> QED BY <1>1, ElementOfSeq

SameSlots ==
  \A r \in Rules : /\ Len(runs'[r]) = Len(runs[r])
                  /\ \A i \in 1..Len(runs[r]) : runs'[r][i].slot = runs[r][i].slot

OnlyRun(r, i) ==
  \A q \in Rules : \A j \in 1..Len(runs[q]) :
    <<q, j>> # <<r, i>> => runs'[q][j] = runs[q][j] /\ counted'[q][j] = counted[q][j]

RowsGood ==
  /\ exists \subseteq Rules /\ rule \in [Rules -> Aggregate]
  /\ HistoryType /\ SlotsInOrder /\ HistoryInv
  /\ \A r \in Rules : RuleGood(r, rule[r])

LEMMA SeqWrite ==
  ASSUME NEW S, NEW f \in [Rules -> Seq(S)], NEW r \in Rules, NEW i \in 1..Len(f[r]), NEW e \in S
  PROVE  LET g == [f EXCEPT ![r][i] = e]
         IN  /\ g \in [Rules -> Seq(S)]
             /\ \A q \in Rules : Len(g[q]) = Len(f[q])
             /\ g[r][i] = e
             /\ \A q \in Rules : \A j \in 1..Len(f[q]) : <<q, j>> # <<r, i>> => g[q][j] = f[q][j]
<1> DEFINE g == [f EXCEPT ![r][i] = e]
           h == [f[r] EXCEPT ![i] = e]
<1>1. f[r] \in Seq(S) OBVIOUS
<1>2. /\ h \in Seq(S) /\ Len(h) = Len(f[r])
      /\ \A j \in 1..Len(f[r]) : h[j] = IF j = i THEN e ELSE f[r][j]
  BY <1>1, ExceptSeq
<1>3. g = [f EXCEPT ![r] = h] OBVIOUS
<1> HIDE DEF g, h
<1>4. g \in [Rules -> Seq(S)] /\ g[r] = h /\ \A q \in Rules : q # r => g[q] = f[q]
  BY <1>2, <1>3
<1> QED BY <1>2, <1>4 DEF g

\* Run i of r is replaced by one of the same slot, and perhaps counted.
Writes(r, i, run) ==
  /\ run.slot = runs[r][i].slot /\ runs' = [runs EXCEPT ![r][i] = run]
  /\ \/ counted' = counted
     \/ counted' = [counted EXCEPT ![r][i] = @ + 1]

LEMMA WriteRun ==
  ASSUME HistoryType, NEW r \in Rules, NEW i \in 1..Len(runs[r]), NEW run \in RunRows,
         Writes(r, i, run), boxes' \in Seq(Phases)
  PROVE  /\ HistoryType' /\ SameSlots /\ OnlyRun(r, i) /\ runs'[r][i] = run
         /\ counted' = counted => counted'[r][i] = counted[r][i]
         /\ counted' # counted => counted'[r][i] = counted[r][i] + 1
<1> DEFINE n == counted[r][i] + 1
<1>1. runs \in [Rules -> Seq(RunRows)] /\ counted \in [Rules -> Seq(Nat)] BY DEF HistoryType
<1>2. i \in 1..Len(counted[r]) /\ n \in Nat BY RunType DEF HistoryType
<1>3. /\ runs' \in [Rules -> Seq(RunRows)]
      /\ \A q \in Rules : Len(runs'[q]) = Len(runs[q])
      /\ runs'[r][i] = run
      /\ \A q \in Rules : \A j \in 1..Len(runs[q]) : <<q, j>> # <<r, i>> => runs'[q][j] = runs[q][j]
  BY <1>1, SeqWrite DEF Writes
<1>4. /\ counted' \in [Rules -> Seq(Nat)]
      /\ \A q \in Rules : Len(counted'[q]) = Len(counted[q])
      /\ counted' # counted => counted'[r][i] = n
      /\ \A q \in Rules : \A j \in 1..Len(counted[q]) :
           <<q, j>> # <<r, i>> => counted'[q][j] = counted[q][j]
  <2>1. CASE counted' = counted BY <1>1, <2>1
  <2>2. CASE counted' = [counted EXCEPT ![r][i] = @ + 1]
    <3>1. counted' = [counted EXCEPT ![r][i] = n] BY <2>2
    <3> HIDE DEF n
    <3> QED BY <1>1, <1>2, <3>1, SeqWrite
  <2> QED BY <2>1, <2>2 DEF Writes
<1>5. HistoryType' BY <1>3, <1>4 DEF HistoryType
<1>6. SameSlots
  <2>1. ASSUME NEW q \in Rules, NEW j \in 1..Len(runs[q]) PROVE runs'[q][j].slot = runs[q][j].slot
    <3>1. CASE <<q, j>> = <<r, i>> BY <1>3, <3>1 DEF Writes
    <3>2. CASE <<q, j>> # <<r, i>> BY <1>3, <3>2
    <3> QED BY <3>1, <3>2
  <2> QED BY <1>3, <2>1 DEF SameSlots
<1>7. OnlyRun(r, i) BY <1>3, <1>4 DEF OnlyRun, HistoryType
<1> QED BY <1>3, <1>4, <1>5, <1>6, <1>7

LEMMA SlotsKept ==
  ASSUME HistoryType, HistoryType', SlotsInOrder, SameSlots
  PROVE  SlotsInOrder'
<1>1. ASSUME NEW r \in Rules, NEW i \in DOMAIN runs'[r], NEW j \in DOMAIN runs'[r], i < j
      PROVE  runs'[r][i].slot < runs'[r][j].slot
  <2>1. DOMAIN runs'[r] = 1..Len(runs[r]) /\ DOMAIN runs[r] = 1..Len(runs[r])
    BY DEF HistoryType, SameSlots
  <2> QED BY <1>1, <2>1 DEF SlotsInOrder, SameSlots
<1> QED BY <1>1 DEF SlotsInOrder

\* A run is saved with another state, and nothing is counted.
LEMMA RunSaved ==
  ASSUME RowsGood, NEW r \in Rules, NEW i \in 1..Len(runs[r]), NEW run \in RunRows, SaveRun(<<r, i>>, run),
         run.slot = runs[r][i].slot, ~run.applied, ~runs[r][i].applied, run.box <= Len(boxes'),
         now' = now, boxes' \in Seq(Phases), Len(boxes) <= Len(boxes')
  PROVE  RowsGood' /\ SameSlots /\ OnlyRun(r, i) /\ runs'[r][i] = run
<1>0. Stored(<<r, i>>) BY StoredKey DEF RowsGood
<1>1. runs' = [runs EXCEPT ![r][i] = run] /\ UNCHANGED <<exists, rule, counted>> BY <1>0 DEF SaveRun
<1>2. HistoryType' /\ SameSlots /\ OnlyRun(r, i) /\ runs'[r][i] = run /\ counted'[r][i] = counted[r][i]
  <2>1. HistoryType BY DEF RowsGood
  <2>2. counted' = counted BY <1>1
  <2>3. Writes(r, i, run) BY <1>1, <2>2 DEF Writes
  <2>4. HistoryType' /\ SameSlots /\ OnlyRun(r, i) /\ runs'[r][i] = run
    BY <2>1, <2>3, WriteRun
  <2> QED BY <2>2, <2>4
<1>3. SlotsInOrder' BY <1>2, SlotsKept DEF RowsGood
<1>4. ASSUME NEW q \in Rules, NEW j \in 1..Len(runs'[q]) PROVE RunGood(runs[q][j], counted[q][j])'
  <2>1. j \in 1..Len(runs[q]) /\ RunGood(runs[q][j], counted[q][j])
    BY <1>2 DEF SameSlots, RowsGood, HistoryInv
  <2>2. CASE <<q, j>> # <<r, i>>
    <3>1. runs'[q][j] = runs[q][j] /\ counted'[q][j] = counted[q][j] BY <1>2, <2>1, <2>2 DEF OnlyRun
    <3>2. runs[q][j].box \in Nat BY <2>1, RunType DEF RowsGood, RunRows
    <3> QED BY <2>1, <3>1, <3>2 DEF RunGood, RowsGood, HistoryType
  <2>3. CASE <<q, j>> = <<r, i>>
    <3>1. run.slot <= now BY <2>1, <2>3 DEF RunGood
    <3>2. counted[q][j] = 0 BY <2>1, <2>3 DEF RunGood
    <3> QED BY <1>2, <2>3, <3>1, <3>2 DEF RunGood
  <2> QED BY <2>2, <2>3
<1>5. \A q \in Rules : RuleGood(q, rule[q])'
  BY <1>1, <1>2 DEF RowsGood, RuleGood, SameSlots
<1> QED BY <1>1, <1>2, <1>3, <1>4, <1>5 DEF RowsGood, HistoryInv

\* An outcome is recorded: the run is marked, and the rule the scheduler holds is saved with it.
LEMMA OutcomeSaved ==
  ASSUME RowsGood, NEW r \in Rules, NEW i \in 1..Len(runs[r]), NEW run \in RunRows, NEW a,
         ApplyOutcome(<<r, i>>, run, a), RuleGood(r, a), now \in Nat,
         run.slot = runs[r][i].slot, run.box = runs[r][i].box, run.status \in Ended, ~runs[r][i].applied,
         now' = now, boxes' \in Seq(Phases), Len(boxes) <= Len(boxes')
  PROVE  RowsGood' /\ SameSlots /\ OnlyRun(r, i)
<1>0. Stored(<<r, i>>) BY StoredKey DEF RowsGood
<1> DEFINE done == [run EXCEPT !.applied = TRUE]
           b == RecordOutcome(a, run.status, now)
<1>1. /\ runs' = [runs EXCEPT ![r][i] = done]
      /\ exists' = exists \cup {r} /\ rule' = [rule EXCEPT ![r] = b]
      /\ counted' = [counted EXCEPT ![r][i] = @ + 1]
  BY <1>0 DEF ApplyOutcome, SaveRule
<1>2. /\ done \in RunRows /\ done.slot = run.slot /\ done.box = run.box /\ done.status = run.status
      /\ done.applied
  BY DEF RunRows
<1> HIDE DEF done
<1>3. runs[r][i] \in RunRows /\ counted[r][i] \in Nat BY <1>0, RunType DEF RowsGood
<1>4. HistoryType' /\ SameSlots /\ OnlyRun(r, i) /\ runs'[r][i] = done
      /\ (counted' # counted => counted'[r][i] = counted[r][i] + 1)
  <2>1. HistoryType BY DEF RowsGood
  <2>2. Writes(r, i, done) BY <1>1, <1>2 DEF Writes
  <2> QED BY <1>2, <2>1, <2>2, WriteRun
<1>5. counted'[r][i] = counted[r][i] + 1
  <2>1. counted \in [Rules -> Seq(Nat)] /\ i \in 1..Len(counted[r]) BY <1>0 DEF RowsGood, HistoryType
  <2>2. counted[r][i] + 1 \in Nat BY <1>3
  <2> QED BY <1>0, <1>1, <2>1, <2>2, SeqWrite
<1>6. ChangedAt(b, a, now) BY OutcomeGood DEF RuleGood
<1> HIDE DEF b
<1>7. SlotsInOrder' BY <1>4, SlotsKept DEF RowsGood
<1>8. ASSUME NEW q \in Rules, NEW j \in 1..Len(runs'[q]) PROVE RunGood(runs[q][j], counted[q][j])'
  <2>1. j \in 1..Len(runs[q]) /\ RunGood(runs[q][j], counted[q][j])
    BY <1>4 DEF SameSlots, RowsGood, HistoryInv
  <2>2. runs[q][j].box \in Nat BY <2>1, RunType DEF RowsGood, RunRows
  <2>3. CASE <<q, j>> # <<r, i>>
    <3>1. runs'[q][j] = runs[q][j] /\ counted'[q][j] = counted[q][j] BY <1>4, <2>1, <2>3 DEF OnlyRun
    <3> QED BY <2>1, <2>2, <3>1 DEF RunGood, RowsGood, HistoryType
  <2>4. CASE <<q, j>> = <<r, i>>
    <3>1. runs[r][i] = runs[q][j] BY <2>4
    <3>2. counted[q][j] = 0 BY <2>1, <3>1 DEF RunGood
    <3>3. runs'[q][j] = done /\ counted'[q][j] = 1 BY <1>4, <1>5, <2>4, <3>2
    <3>4. done.slot <= now' /\ done.box <= Len(boxes')
      BY <1>2, <2>1, <2>2, <3>1 DEF RunGood, RowsGood, HistoryType
    <3> QED BY <1>2, <3>3, <3>4 DEF RunGood, Unended, Ended
  <2> QED BY <2>3, <2>4
<1>9. b \in Aggregate /\ Coherent(b) BY <1>6 DEF ChangedAt
<1>10. ASSUME b.next # Never, NEW j \in 1..Len(runs[r]) PROVE runs[r][j].slot < b.next
  <2>1. runs[r][j].slot \in Nat /\ runs[r][j].slot <= now
    BY <1>0, RunType DEF RowsGood, HistoryInv, RunGood, RunRows
  <2>2. b.next \in Int BY <1>9 DEF Aggregate, Never
  <2> QED BY <1>6, <1>10, <2>1, <2>2 DEF ChangedAt, RuleGood
<1>11. \A q \in Rules : RuleGood(q, rule[q])'
  <2>1. ASSUME NEW q \in Rules PROVE RuleGood(q, rule[q])'
    <3>1. CASE q # r
      BY <1>1, <1>4, <3>1 DEF RowsGood, RuleGood, SameSlots
    <3>2. CASE q = r
      <4>1. rule'[q] = b BY <1>1, <3>2 DEF RowsGood
      <4> QED BY <1>4, <1>9, <1>10, <3>2, <4>1 DEF RuleGood, SameSlots
    <3> QED BY <3>1, <3>2
  <2> QED BY <2>1
<1>12. exists' \subseteq Rules /\ rule' \in [Rules -> Aggregate]
  BY <1>0, <1>1, <1>9 DEF RowsGood
<1> QED BY <1>4, <1>7, <1>8, <1>11, <1>12 DEF RowsGood, HistoryInv

-----------------------------------------------------------------------------
(* The steps of the sweep that keep to the runs it has listed.             *)

\* What the scheduler awaits next fits the stage, the run and the rule it holds.
AwaitGood ==
  /\ at = "finish" => stage \in {"outcomes", "flight"}
  /\ at = "create" => stage \in {"retries", "fire"}
  /\ at \in {"start", "summary"} => stage = "flight"
  /\ key \in Rules \X Nat /\ (stage # "fire" => key \notin todo)
  /\ RuleGood(key[1], mine)
  /\ AwaitedInv

\* The rows stay good, the runs that are still listed stay as they are, and the scheduler
\* awaits nothing or something that fits.
LEMMA SweepOn ==
  ASSUME IInv, RowsGood', SameSlots, UNCHANGED <<now, stage, held, began, crashes>>,
         todo' \subseteq todo, seen' \in [going : BOOLEAN, tries : 0..MaxAttempts],
         stage # "fire" => \A q \in Rules : \A j \in 1..Len(runs[q]) :
                             <<q, j>> \in todo' => runs'[q][j] = runs[q][j],
         mine' \in Aggregate, at' \in {"none", "finish", "create", "start", "summary"},
         at' # "none" => stage # "idle" /\ AwaitGood'
  PROVE  IInv'
<1> USE DEF IInv
<1>1. ScalarType' BY DEF ScalarType, RowsGood
<1>2. HistoryType' /\ SlotsInOrder' /\ HistoryInv' BY DEF RowsGood
<1>3. ListedInv' BY DEF ListedInv, Listed, SameSlots
<1>4. AwaitedInv' BY DEF AwaitGood, AwaitedInv, Awaited
<1>5. StageInv'
  <2>1. stage = "idle" => at' = "none" /\ todo' = {} BY DEF StageInv
  <2>2. /\ stage \in {"outcomes", "retries", "flight"} => todo' \subseteq Rules \X Nat
        /\ stage = "fire" => todo' \subseteq Rules
        /\ began <= now
    BY DEF StageInv
  <2> QED BY <2>1, <2>2 DEF StageInv, AwaitGood
<1>6. RulesInv'
  <2>1. \A r \in Rules : RuleGood(r, rule[r])' BY DEF RowsGood
  <2>2. ASSUME stage = "fire", NEW r \in Rules, r \in todo'
        PROVE  RuleGood(r, held[r])' /\ IsDue(held[r])'
    <3>1. RuleGood(r, held[r]) /\ IsDue(held[r]) BY <2>2 DEF RulesInv
    <3> QED BY <3>1 DEF RuleGood, SameSlots, IsDue
  <2>3. at' # "none" => RuleGood(key[1], mine)' BY DEF AwaitGood
  <2> QED BY <2>1, <2>2, <2>3 DEF RulesInv
<1> QED BY <1>1, <1>2, <1>3, <1>4, <1>5, <1>6

\* The same when no row is written.
LEMMA SweepOnly ==
  ASSUME IInv, Unsaved, UNCHANGED <<now, stage, held, began, crashes>>,
         todo' \subseteq todo, seen' \in [going : BOOLEAN, tries : 0..MaxAttempts],
         boxes' \in Seq(Phases), Len(boxes) <= Len(boxes'),
         mine' \in Aggregate, at' \in {"none", "finish", "create", "start", "summary"},
         at' # "none" => stage # "idle" /\ AwaitGood'
  PROVE  IInv'
<1> USE DEF IInv
<1>1. UNCHANGED <<exists, rule, runs, counted>> BY DEF Unsaved, rowVars
<1>2. HistoryInv'
  <2>1. ASSUME NEW r \in Rules, NEW i \in 1..Len(runs[r]) PROVE RunGood(runs[r][i], counted[r][i])'
    <3>1. RunGood(runs[r][i], counted[r][i]) /\ runs[r][i].box \in Nat
      BY RunType DEF HistoryInv, RunRows
    <3> QED BY <1>1, <3>1 DEF RunGood, HistoryType
  <2> QED BY <1>1, <2>1 DEF HistoryInv
<1>3. RowsGood'
  BY <1>1, <1>2 DEF RowsGood, ScalarType, HistoryType, SlotsInOrder, RulesInv, RuleGood
<1>4. SameSlots BY <1>1 DEF SameSlots
<1> QED BY <1>1, <1>3, <1>4, SweepOn

LEMMA SeqBoxes ==
  ASSUME HistoryType, NEW p \in Phases
  PROVE  /\ Append(boxes, p) \in Seq(Phases) /\ Len(Append(boxes, p)) = Len(boxes) + 1
         /\ \A b \in 1..Len(boxes) : /\ [boxes EXCEPT ![b] = p] \in Seq(Phases)
                                    /\ Len([boxes EXCEPT ![b] = p]) = Len(boxes)
         /\ Len(boxes) \in Nat /\ DOMAIN boxes = 1..Len(boxes)
BY AppendProperties, ExceptSeq, LenProperties DEF HistoryType

LEMMA KeyParts ==
  ASSUME HistoryType, NEW k \in Rules \X Nat
  PROVE  \E r \in Rules : \E i \in Nat :
           /\ k = <<r, i>> /\ k[1] = r /\ Run(k) = runs[r][i]
           /\ Stored(k) <=> i \in 1..Len(runs[r])
<1>1. k = <<k[1], k[2]>> /\ k[1] \in Rules /\ k[2] \in Nat OBVIOUS
<1>2. Stored(k) <=> k[2] \in 1..Len(runs[k[1]]) BY StoredKey
<1>3. Run(k) = runs[k[1]][k[2]] BY DEF Run
<1> QED BY <1>1, <1>2, <1>3

\* A stage visits a run it has listed and awaits something about it.
LEMMA VisitAwaits ==
  ASSUME IInv, NEW during \in {"outcomes", "retries", "flight"}, NEW k, Visit(during, k), Unsaved,
         UNCHANGED seen, NEW what \in {"finish", "create", "start", "summary"},
         Await(what, k, rule[k[1]]), Stored(k),
         what = "finish" => during = "outcomes",
         what = "create" => during = "retries",
         what \in {"start", "summary"} => during = "flight",
         what = "summary" => Run(k).box # 0 /\ Phase(k) \in Ended
  PROVE  IInv'
<1> USE DEF IInv
<1>0. /\ stage = during /\ at = "none" /\ k \in todo /\ todo' = todo \ {k}
      /\ UNCHANGED <<now, boxes, stage, held, began, crashes>>
      /\ UNCHANGED <<exists, rule, runs, counted>>
      /\ at' = what /\ key' = k /\ mine' = rule[k[1]]
  BY DEF Visit, Unsaved, rowVars, Await
<1>1. k \in Rules \X Nat BY <1>0 DEF StageInv
<1>2. PICK r \in Rules, i \in Nat : /\ k = <<r, i>> /\ k[1] = r /\ Run(k) = runs[r][i]
                                  /\ i \in 1..Len(runs[r])
  BY <1>1, KeyParts
<1>3. Listed(runs[r][i]) BY <1>0, <1>2 DEF ListedInv
<1>4. RunGood(runs[r][i], counted[r][i]) /\ runs[r][i] \in RunRows
  BY <1>2, RunType DEF HistoryInv
<1>5. Awaited(runs[r][i])'
  <2>1. what = "summary" => runs[r][i].box \in 1..Len(boxes) /\ boxes[runs[r][i].box] \in Ended
    BY <1>2, <1>4 DEF RunGood, Phase, RunRows, HistoryType
  <2> QED BY <1>0, <1>3, <2>1 DEF Awaited, Listed
<1>6. AwaitedInv'
  <2>1. ASSUME NEW q \in Rules, NEW j \in 1..Len(runs'[q]), key' = <<q, j>>
        PROVE  Awaited(runs[q][j])'
    BY <1>0, <1>2, <1>5, <2>1
  <2> QED BY <2>1 DEF AwaitedInv
<1>7. RuleGood(key[1], mine)'
  BY <1>0, <1>2 DEF RulesInv, RuleGood
<1>8. AwaitGood' BY <1>0, <1>1, <1>6, <1>7 DEF AwaitGood
<1>9. mine' \in Aggregate BY <1>0, <1>2 DEF ScalarType
<1> QED BY <1>0, <1>8, <1>9, SweepOnly DEF ScalarType, HistoryType

\* A visit or an answer after which the scheduler awaits nothing and no row has changed.
LEMMA NothingDone ==
  ASSUME IInv, Unsaved, Idle, UNCHANGED <<now, stage, held, began, crashes>>, todo' \subseteq todo,
         seen' \in [going : BOOLEAN, tries : 0..MaxAttempts],
         boxes' \in Seq(Phases), Len(boxes) <= Len(boxes')
  PROVE  IInv'
BY SweepOnly, NewRuleGood DEF Idle, Await

LEMMA VisitOutcomeIInv == ASSUME IInv, NEW k, VisitOutcome(k) PROVE IInv'
<1>1. CASE Stored(k) BY <1>1, VisitAwaits DEF VisitOutcome
<1>2. CASE ~Stored(k)
  BY <1>2, NothingDone DEF VisitOutcome, Visit, IInv, HistoryType, ScalarType
<1> QED BY <1>1, <1>2

LEMMA VisitRetryIInv == ASSUME IInv, NEW k, VisitRetry(k) PROVE IInv'
<1>1. CASE Stored(k) BY <1>1, VisitAwaits DEF VisitRetry
<1>2. CASE ~Stored(k)
  BY <1>2, NothingDone DEF VisitRetry, Visit, IInv, HistoryType, ScalarType
<1> QED BY <1>1, <1>2

\* The run the scheduler is about is written, and then it awaits nothing, or something that fits.
LEMMA WrittenThen ==
  ASSUME IInv, NEW r \in Rules, NEW i \in 1..Len(runs[r]), RowsGood', SameSlots, OnlyRun(r, i),
         UNCHANGED <<now, stage, held, began, crashes>>, todo' \subseteq todo,
         stage # "fire" => <<r, i>> \notin todo',
         seen' \in [going : BOOLEAN, tries : 0..MaxAttempts],
         mine' \in Aggregate, at' \in {"none", "finish", "create", "start", "summary"},
         at' # "none" => stage # "idle" /\ AwaitGood'
  PROVE  IInv'
BY SweepOn DEF OnlyRun

LEMMA WrittenThenIdle ==
  ASSUME IInv, NEW r \in Rules, NEW i \in 1..Len(runs[r]), RowsGood', SameSlots, OnlyRun(r, i),
         UNCHANGED <<now, stage, held, began, crashes>>, todo' \subseteq todo,
         stage # "fire" => <<r, i>> \notin todo',
         seen' \in [going : BOOLEAN, tries : 0..MaxAttempts], Idle
  PROVE  IInv'
BY WrittenThen, NewRuleGood DEF Idle, Await

LEMMA IInvRows == ASSUME IInv PROVE RowsGood
BY DEF IInv, RowsGood, ScalarType, RulesInv

LEMMA Failed ==
  ASSUME RowsGood, NEW r \in Rules, NEW i \in 1..Len(runs[r]), NEW a, RuleGood(r, a),
         Fail(<<r, i>>, a), ~runs[r][i].applied, now \in Nat,
         now' = now, boxes' \in Seq(Phases), Len(boxes) <= Len(boxes')
  PROVE  RowsGood' /\ SameSlots /\ OnlyRun(r, i)
<1> DEFINE run == [runs[r][i] EXCEPT !.status = "failed"]
<1>1. runs[r][i] \in RunRows BY RunType DEF RowsGood
<1>2. /\ run \in RunRows /\ run.slot = runs[r][i].slot /\ run.box = runs[r][i].box
      /\ run.status = "failed"
  BY <1>1 DEF RunRows, Terminal, Ended
<1>3. ApplyOutcome(<<r, i>>, run, a) BY DEF Fail, Run
<1> HIDE DEF run
<1> QED BY <1>2, <1>3, OutcomeSaved DEF Ended

LEMMA QueueRetryType ==
  ASSUME NEW run \in RunRows, run.tries < MaxAttempts
  PROVE  /\ QueueRetry(run) \in RunRows /\ QueueRetry(run).slot = run.slot
         /\ QueueRetry(run).box = run.box /\ QueueRetry(run).applied = run.applied
         /\ QueueRetry(run).status = "resource-exhausted"
<1>1. run.tries + 1 \in 0..MaxAttempts BY DEF RunRows
<1> QED BY <1>1 DEF QueueRetry, RunRows

LEMMA QueuedOrFailed ==
  ASSUME RowsGood, NEW r \in Rules, NEW i \in 1..Len(runs[r]), NEW a, RuleGood(r, a),
         QueueOrGiveUp(<<r, i>>, a), runs[r][i].status \in Unended, ~runs[r][i].applied, now \in Nat,
         now' = now, boxes' \in Seq(Phases), Len(boxes) <= Len(boxes')
  PROVE  RowsGood' /\ SameSlots /\ OnlyRun(r, i)
<1>0. Run(<<r, i>>) = runs[r][i] BY DEF Run
<1>1. CASE Stored(<<r, i>>) /\ runs[r][i].tries < MaxAttempts
  <2> DEFINE run == QueueRetry(runs[r][i])
  <2>1. runs[r][i] \in RunRows /\ RunGood(runs[r][i], counted[r][i])
    BY RunType DEF RowsGood, HistoryInv
  <2>2. /\ run \in RunRows /\ run.slot = runs[r][i].slot /\ run.box = runs[r][i].box
        /\ ~run.applied
    BY <1>1, <2>1, QueueRetryType
  <2>3. SaveRun(<<r, i>>, run) BY <1>0, <1>1 DEF QueueOrGiveUp
  <2> HIDE DEF run
  <2>4. run.box <= Len(boxes')
    <3>1. runs[r][i].box <= Len(boxes) /\ runs[r][i].box \in Nat BY <2>1 DEF RunGood, RunRows
    <3>2. Len(boxes) \in Nat /\ Len(boxes') \in Nat BY LenProperties DEF RowsGood, HistoryType
    <3> QED BY <2>2, <3>1, <3>2
  <2> QED BY <2>2, <2>3, <2>4, RunSaved
<1>2. CASE ~(Stored(<<r, i>>) /\ runs[r][i].tries < MaxAttempts)
  BY <1>0, <1>2, Failed DEF QueueOrGiveUp
<1> QED BY <1>1, <1>2

LEMMA VisitRunIInv == ASSUME IInv, NEW k, VisitRun(k) PROVE IInv'
<1> USE DEF IInv
<1>0. Visit("flight", k) /\ UNCHANGED seen BY DEF VisitRun
<1>1. /\ stage = "flight" /\ at = "none" /\ k \in todo /\ todo' = todo \ {k}
      /\ UNCHANGED <<now, boxes, stage, held, began, crashes>>
  BY <1>0 DEF Visit
<1>2. k \in Rules \X Nat BY <1>1 DEF StageInv
<1>3. /\ boxes' \in Seq(Phases) /\ Len(boxes) <= Len(boxes') /\ now \in Nat
      /\ seen' \in [going : BOOLEAN, tries : 0..MaxAttempts]
  BY <1>0, <1>1 DEF HistoryType, ScalarType
<1>4. CASE Idle /\ Unsaved BY <1>1, <1>3, <1>4, NothingDone
<1>5. CASE Backed(k) /\ Phase(k) = "ready" /\ Await("start", k, rule[k[1]]) /\ Unsaved
  BY <1>0, <1>5, VisitAwaits DEF Backed
<1>6. CASE Backed(k) /\ Phase(k) \in Ended /\ Await("summary", k, rule[k[1]]) /\ Unsaved
  BY <1>0, <1>6, VisitAwaits DEF Backed
<1>7. CASE Backed(k) /\ Idle /\ (QueueOrGiveUp(k, rule[k[1]]) \/ Fail(k, rule[k[1]]))
  <2>1. PICK r \in Rules, i \in Nat : /\ k = <<r, i>> /\ k[1] = r /\ Run(k) = runs[r][i]
                                    /\ i \in 1..Len(runs[r])
    BY <1>2, <1>7, KeyParts DEF Backed
  <2>2. RuleGood(r, rule[r]) BY DEF RulesInv
  <2>3. runs[r][i].status \in Unended /\ ~runs[r][i].applied
    BY <1>1, <2>1 DEF ListedInv, Listed, HistoryInv, RunGood, Unended
  <2>4. RowsGood' /\ SameSlots /\ OnlyRun(r, i)
    <3>1. CASE QueueOrGiveUp(k, rule[k[1]])
      BY <1>1, <1>3, <2>1, <2>2, <2>3, <3>1, IInvRows, QueuedOrFailed
    <3>2. CASE Fail(k, rule[k[1]])
      BY <1>1, <1>3, <2>1, <2>2, <2>3, <3>2, IInvRows, Failed
    <3> QED BY <1>7, <3>1, <3>2
  <2> QED BY <1>1, <1>3, <1>7, <2>1, <2>4, WrittenThenIdle
<1> QED BY <1>4, <1>5, <1>6, <1>7 DEF VisitRun

-----------------------------------------------------------------------------
(* The answers.                                                            *)

\* What is known of the run an answer is about, if it is stored.
LEMMA AnswerParts ==
  ASSUME IInv, at # "none", Stored(key)
  PROVE  \E r \in Rules : \E i \in Nat :
           /\ i \in 1..Len(runs[r])
           /\ key = <<r, i>> /\ Run(key) = runs[r][i] /\ runs[r][i] \in RunRows
           /\ RunGood(runs[r][i], counted[r][i]) /\ Awaited(runs[r][i])
           /\ RuleGood(r, mine) /\ mine \in Aggregate
           /\ stage # "fire" => <<r, i>> \notin todo
<1> USE DEF IInv
<1>1. key \in Rules \X Nat BY DEF StageInv
<1>2. PICK r \in Rules, i \in Nat : /\ key = <<r, i>> /\ key[1] = r /\ Run(key) = runs[r][i]
                                  /\ i \in 1..Len(runs[r])
  BY <1>1, KeyParts
<1>3. runs[r][i] \in RunRows /\ RunGood(runs[r][i], counted[r][i]) /\ Awaited(runs[r][i])
  BY <1>2, RunType DEF HistoryInv, AwaitedInv
<1>4. RuleGood(r, mine) /\ mine \in Aggregate BY <1>2 DEF RulesInv, RuleGood
<1>5. stage # "fire" => <<r, i>> \notin todo BY <1>2 DEF StageInv
<1> QED BY <1>2, <1>3, <1>4, <1>5

LEMMA BoxStored ==
  ASSUME HistoryType, NEW run \in RunRows, NEW c, RunGood(run, c), run.box # 0
  PROVE  run.box \in 1..Len(boxes)
BY LenProperties DEF RunRows, RunGood, HistoryType

LEMMA FinishDoneIInv == ASSUME IInv, FinishDone PROVE IInv'
<1> USE DEF IInv
<1>1. at = "finish" /\ Idle /\ UNCHANGED <<now, stage, todo, held, began, seen, crashes>>
  BY DEF FinishDone, SameSweep
<1>2. boxes' \in Seq(Phases) /\ Len(boxes) <= Len(boxes')
  <2>1. CASE Backed(key) /\ Phase(key) \in {"provisioning", "ready"}
    <3>1. PICK r \in Rules, i \in Nat :
            /\ i \in 1..Len(runs[r])
            /\ Run(key) = runs[r][i] /\ runs[r][i] \in RunRows
            /\ RunGood(runs[r][i], counted[r][i])
      BY <1>1, <2>1, AnswerParts DEF Backed
    <3>2. Run(key).box \in 1..Len(boxes) BY <2>1, <3>1, BoxStored DEF Backed
    <3>3. boxes' = [boxes EXCEPT ![Run(key).box] = "gone"] BY <2>1 DEF FinishDone
    <3>4. Len(boxes) \in Nat BY SeqBoxes DEF Phases
    <3> QED BY <3>2, <3>3, <3>4, SeqBoxes DEF Phases
  <2>2. CASE ~(Backed(key) /\ Phase(key) \in {"provisioning", "ready"})
    BY <2>2, LenProperties DEF FinishDone, HistoryType
  <2> QED BY <2>1, <2>2
<1>3. CASE Stored(key)
  <2>1. PICK r \in Rules, i \in Nat :
          /\ i \in 1..Len(runs[r])
          /\ key = <<r, i>> /\ Run(key) = runs[r][i] /\ runs[r][i] \in RunRows
          /\ Awaited(runs[r][i]) /\ RuleGood(r, mine)
          /\ stage # "fire" => <<r, i>> \notin todo
    BY <1>1, <1>3, AnswerParts
  <2>2. runs[r][i].status \in Ended /\ ~runs[r][i].applied BY <1>1, <2>1 DEF Awaited
  <2>3. ApplyOutcome(<<r, i>>, runs[r][i], mine) BY <1>3, <2>1 DEF FinishDone
  <2>4. RowsGood' /\ SameSlots /\ OnlyRun(r, i)
    <3>1. now \in Nat /\ now' = now BY <1>1 DEF ScalarType
    <3> QED BY <1>2, <2>1, <2>2, <2>3, <3>1, OutcomeSaved, IInvRows
  <2>5. todo' \subseteq todo /\ (stage # "fire" => <<r, i>> \notin todo')
        /\ seen' \in [going : BOOLEAN, tries : 0..MaxAttempts]
    BY <1>1, <2>1 DEF ScalarType
  <2> QED BY <1>1, <2>1, <2>4, <2>5, WrittenThenIdle
<1>4. CASE ~Stored(key)
  BY <1>1, <1>2, <1>4, NothingDone DEF FinishDone, ScalarType
<1> QED BY <1>3, <1>4

LEMMA FinishThrowsIInv == ASSUME IInv, FinishThrows PROVE IInv'
BY NothingDone, LenProperties DEF FinishThrows, SameSweep, Unsaved, IInv, ScalarType, HistoryType

\* The run the scheduler awaits something about is saved as ended, then it is finished.
LEMMA EndedThenFinish ==
  ASSUME IInv, at \in {"start", "summary"}, Stored(key), NEW status \in Ended, SameSweep,
         UNCHANGED boxes, SaveRun(key, Finalize(key, status)), Await("finish", key, mine)
  PROVE  IInv'
<1> USE DEF IInv
<1>1. /\ UNCHANGED <<now, stage, todo, held, began, seen, crashes>>
      /\ at' = "finish" /\ key' = key /\ mine' = mine /\ stage = "flight"
  BY DEF SameSweep, Await, StageInv
<1>2. PICK r \in Rules, i \in Nat :
        /\ i \in 1..Len(runs[r])
        /\ key = <<r, i>> /\ Run(key) = runs[r][i] /\ runs[r][i] \in RunRows
        /\ RunGood(runs[r][i], counted[r][i]) /\ Awaited(runs[r][i])
        /\ RuleGood(r, mine) /\ mine \in Aggregate
        /\ stage # "fire" => <<r, i>> \notin todo
  BY AnswerParts
<1> DEFINE run == [runs[r][i] EXCEPT !.status = status]
<1>3. ~runs[r][i].applied BY <1>2 DEF Awaited, RunGood, Unended
<1>4. /\ run \in RunRows /\ run.slot = runs[r][i].slot /\ run.box = runs[r][i].box
      /\ run.status = status /\ ~run.applied
  BY <1>2, <1>3 DEF RunRows, Terminal
<1>5. SaveRun(<<r, i>>, run) BY <1>2 DEF Finalize
<1> HIDE DEF run
<1>6. RowsGood' /\ SameSlots /\ OnlyRun(r, i) /\ runs'[r][i] = run
  <2>1. run.box <= Len(boxes') /\ boxes' \in Seq(Phases) /\ Len(boxes) <= Len(boxes')
    BY <1>2, <1>4, LenProperties DEF RunGood, HistoryType
  <2> QED BY <1>1, <1>2, <1>3, <1>4, <1>5, <2>1, RunSaved, IInvRows
<1>7. AwaitedInv'
  <2>1. ASSUME NEW q \in Rules, NEW j \in 1..Len(runs'[q]), key' = <<q, j>>
        PROVE  Awaited(runs[q][j])'
    BY <1>1, <1>2, <1>4, <1>6, <2>1 DEF Awaited
  <2> QED BY <2>1 DEF AwaitedInv
<1>8. AwaitGood'
  <2>1. RuleGood(key[1], mine)' BY <1>1, <1>2, <1>6 DEF RuleGood, SameSlots
  <2>2. key' \in Rules \X Nat BY <1>1 DEF StageInv
  <2> QED BY <1>1, <1>2, <1>7, <2>1, <2>2 DEF AwaitGood
<1>9. todo' \subseteq todo /\ (stage # "fire" => <<r, i>> \notin todo')
      /\ seen' \in [going : BOOLEAN, tries : 0..MaxAttempts]
  BY <1>1, <1>2 DEF ScalarType
<1> QED BY <1>1, <1>2, <1>6, <1>8, <1>9, WrittenThen

LEMMA SummaryDoneIInv == ASSUME IInv, SummaryDone PROVE IInv'
<1> USE DEF IInv
<1>1. CASE Stored(key)
  <2>1. PICK r \in Rules, i \in Nat :
          /\ i \in 1..Len(runs[r])
          /\ key = <<r, i>> /\ Run(key) = runs[r][i] /\ Awaited(runs[r][i])
    BY <1>1, AnswerParts DEF SummaryDone
  <2>2. Phase(key) \in Ended BY <2>1 DEF SummaryDone, Awaited, Phase
  <2> QED BY <1>1, <2>2, EndedThenFinish DEF SummaryDone
<1>2. CASE ~Stored(key)
  BY <1>2, NothingDone, LenProperties DEF SummaryDone, SameSweep, ScalarType, HistoryType
<1> QED BY <1>1, <1>2

LEMMA StartThrowsIInv == ASSUME IInv, StartThrows PROVE IInv'
<1> USE DEF IInv
<1>1. CASE Stored(key) BY <1>1, EndedThenFinish DEF StartThrows, Ended
<1>2. CASE ~Stored(key)
  BY <1>2, NothingDone, LenProperties DEF StartThrows, SameSweep, ScalarType, HistoryType
<1> QED BY <1>1, <1>2

LEMMA StartDoneIInv == ASSUME IInv, StartDone PROVE IInv'
<1> USE DEF IInv
<1>1. boxes' \in Seq(Phases) /\ Len(boxes) <= Len(boxes')
  <2>1. CASE Backed(key)
    <3>1. PICK r \in Rules, i \in Nat :
            /\ i \in 1..Len(runs[r])
            /\ key = <<r, i>> /\ Run(key) = runs[r][i] /\ runs[r][i] \in RunRows
            /\ RunGood(runs[r][i], counted[r][i])
      BY <2>1, AnswerParts DEF Backed, StartDone
    <3>2. Run(key).box \in 1..Len(boxes) BY <2>1, <3>1, BoxStored DEF Backed
    <3>3. boxes' = [boxes EXCEPT ![Run(key).box] = "running"] BY <2>1 DEF StartDone
    <3>4. Len(boxes) \in Nat BY SeqBoxes DEF Phases
    <3> QED BY <3>2, <3>3, <3>4, SeqBoxes DEF Phases
  <2>2. CASE ~Backed(key) BY <2>2, LenProperties DEF StartDone, HistoryType
  <2> QED BY <2>1, <2>2
<1> QED BY <1>1, NothingDone DEF StartDone, SameSweep, ScalarType

LEMMA StartedType ==
  ASSUME NEW run \in RunRows, NEW b \in Nat
  PROVE  LET x == [run EXCEPT !.status = "running", !.box = b, !.again = FALSE]
         IN  x \in RunRows /\ x.slot = run.slot /\ x.box = b /\ x.applied = run.applied
BY DEF RunRows

LEMMA CreateDoneIInv == ASSUME IInv, CreateDone PROVE IInv'
<1> USE DEF IInv
<1>1. at = "create" /\ Idle /\ UNCHANGED <<now, stage, todo, held, began, seen, crashes>>
  BY DEF CreateDone, SameSweep
<1>2. boxes' \in Seq(Phases) /\ Len(boxes') = Len(boxes) + 1 /\ Len(boxes) \in Nat
  BY SeqBoxes DEF CreateDone, Phases
<1>3. todo' \subseteq todo /\ seen' \in [going : BOOLEAN, tries : 0..MaxAttempts]
  BY <1>1 DEF ScalarType
<1>4. CASE Stored(key)
  <2>1. PICK r \in Rules, i \in Nat :
          /\ i \in 1..Len(runs[r])
          /\ key = <<r, i>> /\ Run(key) = runs[r][i] /\ runs[r][i] \in RunRows
          /\ RunGood(runs[r][i], counted[r][i]) /\ Awaited(runs[r][i])
          /\ stage # "fire" => <<r, i>> \notin todo
    BY <1>1, <1>4, AnswerParts
  <2> DEFINE run == [runs[r][i] EXCEPT !.status = "running", !.box = Len(boxes) + 1, !.again = FALSE]
  <2>2. ~runs[r][i].applied BY <1>1, <2>1 DEF Awaited, RunGood, Unended
  <2>3. run \in RunRows /\ run.slot = runs[r][i].slot /\ run.box = Len(boxes) + 1 /\ ~run.applied
    <3>1. Len(boxes) + 1 \in Nat BY <1>2
    <3> QED BY <2>1, <2>2, <3>1, StartedType
  <2>4. SaveRun(<<r, i>>, run) BY <1>4, <2>1 DEF CreateDone
  <2> HIDE DEF run
  <2>5. RowsGood' /\ SameSlots /\ OnlyRun(r, i)
    <3>1. run.box <= Len(boxes') /\ Len(boxes) <= Len(boxes') BY <1>2, <2>3
    <3> QED BY <1>1, <1>2, <2>1, <2>2, <2>3, <2>4, <3>1, RunSaved, IInvRows
  <2>6. stage # "fire" => <<r, i>> \notin todo' BY <1>1, <2>1
  <2> QED BY <1>1, <1>3, <2>1, <2>5, <2>6, WrittenThenIdle
<1>5. CASE ~Stored(key) BY <1>1, <1>2, <1>3, <1>5, NothingDone DEF CreateDone
<1> QED BY <1>4, <1>5

LEMMA CreateThrowsIInv == ASSUME IInv, CreateThrows PROVE IInv'
<1> USE DEF IInv
<1>1. at = "create" /\ Idle /\ UNCHANGED <<now, boxes, stage, todo, held, began, seen, crashes>>
  BY DEF CreateThrows, SameSweep
<1>2. /\ boxes' \in Seq(Phases) /\ Len(boxes) <= Len(boxes') /\ now \in Nat /\ now' = now
      /\ todo' \subseteq todo /\ seen' \in [going : BOOLEAN, tries : 0..MaxAttempts]
  BY <1>1, LenProperties DEF HistoryType, ScalarType
<1>3. CASE Stored(key)
  <2>1. PICK r \in Rules, i \in Nat :
          /\ i \in 1..Len(runs[r])
          /\ key = <<r, i>> /\ RunGood(runs[r][i], counted[r][i]) /\ Awaited(runs[r][i])
          /\ RuleGood(r, mine) /\ (stage # "fire" => <<r, i>> \notin todo)
    BY <1>1, <1>3, AnswerParts
  <2>2. runs[r][i].status \in Unended /\ ~runs[r][i].applied
    BY <1>1, <2>1 DEF Awaited, RunGood, Unended
  <2>3. RowsGood' /\ SameSlots /\ OnlyRun(r, i)
    <3>1. CASE QueueOrGiveUp(key, mine)
      BY <1>2, <2>1, <2>2, <3>1, IInvRows, QueuedOrFailed
    <3>2. CASE Fail(key, mine) BY <1>2, <2>1, <2>2, <3>2, IInvRows, Failed
    <3> QED BY <1>3, <3>1, <3>2 DEF CreateThrows
  <2>4. stage # "fire" => <<r, i>> \notin todo' BY <1>1, <2>1
  <2> QED BY <1>1, <1>2, <2>1, <2>3, <2>4, WrittenThenIdle
<1>4. CASE ~Stored(key) BY <1>1, <1>2, <1>4, NothingDone DEF CreateThrows
<1> QED BY <1>3, <1>4

-----------------------------------------------------------------------------
(* A rule fires.                                                           *)

LEMMA VisitRuleIInv == ASSUME IInv, NEW r, VisitRule(r) PROVE IInv'
<1> USE DEF IInv
<1>1. /\ stage = "fire" /\ at = "none" /\ r \in todo /\ todo' = todo \ {r}
      /\ UNCHANGED <<now, boxes, stage, held, began, crashes>>
      /\ UNCHANGED <<exists, rule, runs, counted>>
      /\ at' = "capacity" /\ key' = <<r, 0>> /\ mine' = held[r]
  BY DEF VisitRule, Visit, Unsaved, rowVars, Await
<1>2. r \in Rules /\ todo \subseteq Rules /\ RuleGood(r, held[r]) /\ IsDue(held[r])
      /\ \A q \in Rules : q \in todo => RuleGood(q, held[q]) /\ IsDue(held[q])
  BY <1>1 DEF StageInv, RulesInv
<1>3. seen' \in [going : BOOLEAN, tries : 0..MaxAttempts]
  <2> DEFINE n == IF Open(Latest(r)) THEN Run(Latest(r)).tries ELSE 0
  <2>1. n \in 0..MaxAttempts
    <3>1. CASE Open(Latest(r))
      <4>1. Latest(r) \in Rules \X Nat /\ Latest(r)[1] = r /\ Latest(r)[2] = Len(runs[r])
        BY <1>2, LenProperties DEF Latest, HistoryType
      <4>2. Len(runs[r]) \in 1..Len(runs[r])
        BY <3>1, <4>1, StoredKey DEF Open
      <4>3. Run(Latest(r)) \in RunRows BY <1>2, <4>1, <4>2, RunType DEF Run
      <4> QED BY <3>1, <4>3 DEF RunRows
    <3>2. CASE ~Open(Latest(r)) BY <3>2
    <3> QED BY <3>1, <3>2
  <2>2. StillGoing(Latest(r)) \in BOOLEAN BY DEF StillGoing
  <2>3. seen' = [going |-> StillGoing(Latest(r)), tries |-> n] BY DEF VisitRule
  <2> HIDE DEF n
  <2> QED BY <2>1, <2>2, <2>3
<1>4. ScalarType' BY <1>1, <1>2, <1>3 DEF ScalarType
<1>5. HistoryType' /\ SlotsInOrder' /\ HistoryInv'
  BY <1>1 DEF HistoryType, SlotsInOrder, HistoryInv, RunGood
<1>6. ListedInv' /\ AwaitedInv' BY <1>1 DEF ListedInv, Listed, AwaitedInv, Awaited
<1>7. StageInv' BY <1>1, <1>2 DEF StageInv
<1>8. RulesInv' BY <1>1, <1>2 DEF RulesInv, RuleGood, IsDue
<1> QED BY <1>4, <1>5, <1>6, <1>7, <1>8

\* A run is added to the history of r, and the rule saved with it.
Adds(r, run, c, b) ==
  /\ SaveRule(r, b) /\ AddRun(r, run, c)
  /\ run \in RunRows /\ c \in Nat /\ RunGood(run, c)
  /\ \A i \in 1..Len(runs[r]) : runs[r][i].slot < run.slot
  /\ b \in Aggregate /\ Coherent(b)
  /\ b.next # Never => run.slot < b.next

LEMMA RunAdded ==
  ASSUME RowsGood, NEW r \in Rules, NEW run, NEW c, NEW b, Adds(r, run, c, b),
         UNCHANGED <<now, boxes>>
  PROVE  /\ RowsGood' /\ Len(runs'[r]) = Len(runs[r]) + 1 /\ runs'[r][Len(runs[r]) + 1] = run
         /\ \A q \in Rules : q # r => runs'[q] = runs[q]
         /\ rule'[r] = b
<1>1. /\ runs' = [runs EXCEPT ![r] = Append(runs[r], run)]
      /\ counted' = [counted EXCEPT ![r] = Append(counted[r], c)]
      /\ exists' = exists \cup {r} /\ rule' = [rule EXCEPT ![r] = b]
  BY DEF Adds, AddRun, SaveRule
<1>2. /\ runs[r] \in Seq(RunRows) /\ counted[r] \in Seq(Nat) /\ Len(counted[r]) = Len(runs[r])
      /\ Len(runs[r]) \in Nat
  BY LenProperties DEF RowsGood, HistoryType
<1>3. /\ Append(runs[r], run) \in Seq(RunRows) /\ Len(Append(runs[r], run)) = Len(runs[r]) + 1
      /\ \A i \in 1..Len(runs[r]) : Append(runs[r], run)[i] = runs[r][i]
      /\ Append(runs[r], run)[Len(runs[r]) + 1] = run
  BY <1>2, AppendProperties DEF Adds
<1>4. /\ Append(counted[r], c) \in Seq(Nat) /\ Len(Append(counted[r], c)) = Len(runs[r]) + 1
      /\ \A i \in 1..Len(runs[r]) : Append(counted[r], c)[i] = counted[r][i]
      /\ Append(counted[r], c)[Len(runs[r]) + 1] = c
  BY <1>2, AppendProperties DEF Adds
<1>5. /\ runs'[r] = Append(runs[r], run) /\ counted'[r] = Append(counted[r], c)
      /\ \A q \in Rules : q # r => runs'[q] = runs[q] /\ counted'[q] = counted[q]
  BY <1>1 DEF RowsGood, HistoryType
<1>6. HistoryType'
  BY <1>1, <1>3, <1>4, <1>5 DEF RowsGood, HistoryType
<1>7. HistoryInv'
  <2>1. ASSUME NEW q \in Rules, NEW j \in 1..Len(runs'[q]) PROVE RunGood(runs[q][j], counted[q][j])'
    <3>1. CASE q = r /\ j = Len(runs[r]) + 1
      <4>1. runs'[q][j] = run /\ counted'[q][j] = c BY <1>3, <1>4, <1>5, <3>1
      <4>2. RunGood(run, c)' BY DEF Adds, RunGood
      <4> QED BY <4>1, <4>2 DEF RunGood
    <3>2. CASE q = r /\ j # Len(runs[r]) + 1
      <4>1. j \in 1..Len(runs[r]) BY <1>2, <1>3, <1>5, <2>1, <3>2
      <4>2. runs'[q][j] = runs[r][j] /\ counted'[q][j] = counted[r][j]
        BY <1>3, <1>4, <1>5, <3>2, <4>1
      <4>3. RunGood(runs[r][j], counted[r][j]) BY <4>1 DEF RowsGood, HistoryInv
      <4> QED BY <4>2, <4>3 DEF RunGood
    <3>3. CASE q # r BY <1>5, <2>1, <3>3 DEF RowsGood, HistoryInv, RunGood
    <3> QED BY <3>1, <3>2, <3>3
  <2> QED BY <2>1 DEF HistoryInv
<1>8. SlotsInOrder'
  <2>1. ASSUME NEW q \in Rules, NEW i \in DOMAIN runs'[q], NEW j \in DOMAIN runs'[q], i < j
        PROVE  runs'[q][i].slot < runs'[q][j].slot
    <3>1. DOMAIN runs[q] = 1..Len(runs[q]) /\ DOMAIN runs'[q] = 1..Len(runs'[q])
      BY <1>6 DEF RowsGood, HistoryType
    <3>2. CASE q # r BY <1>5, <2>1, <3>2 DEF RowsGood, SlotsInOrder
    <3>3. CASE q = r
      <4>1. i \in 1..Len(runs[r]) BY <1>2, <1>3, <1>5, <2>1, <3>1, <3>3
      <4>2. CASE j = Len(runs[r]) + 1 BY <1>3, <1>5, <3>3, <4>1, <4>2 DEF Adds
      <4>3. CASE j # Len(runs[r]) + 1
        <5>1. j \in 1..Len(runs[r]) BY <1>2, <1>3, <1>5, <2>1, <3>1, <3>3, <4>3
        <5> QED BY <1>3, <1>5, <2>1, <3>1, <3>3, <4>1, <5>1 DEF RowsGood, SlotsInOrder
      <4> QED BY <4>2, <4>3
    <3> QED BY <3>2, <3>3
  <2> QED BY <2>1 DEF SlotsInOrder
<1>9. ASSUME NEW q \in Rules PROVE RuleGood(q, rule[q])'
  <2>1. CASE q # r BY <1>1, <1>5, <2>1 DEF RowsGood, RuleGood
  <2>2. CASE q = r
    <3>1. rule'[r] = b BY <1>1 DEF RowsGood
    <3>2. ASSUME b.next # Never, NEW j \in 1..Len(runs'[r]) PROVE runs'[r][j].slot < b.next
      <4>1. CASE j = Len(runs[r]) + 1 BY <1>3, <1>5, <3>2, <4>1 DEF Adds
      <4>2. CASE j # Len(runs[r]) + 1
        <5>1. j \in 1..Len(runs[r]) BY <1>2, <1>3, <1>5, <3>2, <4>2
        <5>2. runs'[r][j].slot < run.slot /\ run.slot < b.next BY <1>3, <1>5, <3>2, <5>1 DEF Adds
        <5>3. runs[r][j].slot \in Nat /\ run.slot \in Nat /\ b.next \in Int
          BY <5>1, RunType DEF Adds, RowsGood, RunRows, Aggregate, Never
        <5> QED BY <1>3, <1>5, <5>1, <5>2, <5>3
      <4> QED BY <4>1, <4>2
    <3> QED BY <2>2, <3>1, <3>2 DEF Adds, RuleGood
  <2> QED BY <2>1, <2>2
<1>10. exists' \subseteq Rules /\ rule' \in [Rules -> Aggregate] /\ rule'[r] = b
  BY <1>1 DEF RowsGood, Adds
<1> QED BY <1>3, <1>5, <1>6, <1>7, <1>8, <1>9, <1>10 DEF RowsGood

\* The slot is advanced and its run is in the history; the run may be started at once.
LEMMA FiredThen ==
  ASSUME IInv, at = "capacity", NEW r, r = key[1], NEW run, NEW c, NEW b, Adds(r, run, c, b),
         UNCHANGED <<now, boxes, stage, todo, held, began, seen, crashes>>,
         \/ Idle
         \/ Await("create", <<r, Len(runs[r]) + 1>>, b) /\ run.status = "pending"
  PROVE  IInv'
<1> USE DEF IInv
<1>1. r \in Rules /\ stage = "fire" /\ r \notin todo BY DEF StageInv
<1>2. /\ RowsGood' /\ Len(runs'[r]) = Len(runs[r]) + 1 /\ runs'[r][Len(runs[r]) + 1] = run
      /\ \A q \in Rules : q # r => runs'[q] = runs[q]
      /\ rule'[r] = b
  BY <1>1, RunAdded, IInvRows
<1>3. /\ mine' \in Aggregate /\ at' \in {"none", "create"}
      /\ at' = "create" => key' = <<r, Len(runs[r]) + 1>> /\ mine' = b /\ run.status = "pending"
  BY NewRuleGood DEF Idle, Await, Adds
<1>4. ScalarType' BY <1>2, <1>3 DEF ScalarType, RowsGood
<1>5. HistoryType' /\ SlotsInOrder' /\ HistoryInv' BY <1>2 DEF RowsGood
<1>6. ListedInv' BY <1>1 DEF ListedInv, Listed
<1>7. AwaitedInv'
  <2>1. ASSUME NEW q \in Rules, NEW j \in 1..Len(runs'[q]), key' = <<q, j>>
        PROVE  Awaited(runs[q][j])'
    <3>1. CASE at' = "none" BY <3>1 DEF Awaited
    <3>2. CASE at' = "create" BY <1>2, <1>3, <2>1, <3>2 DEF Awaited
    <3> QED BY <1>3, <3>1, <3>2
  <2> QED BY <2>1 DEF AwaitedInv
<1>8. StageInv'
  <2>1. at' # "none" => key' \in Rules \X Nat
    BY <1>1, <1>3, LenProperties DEF HistoryType
  <2> QED BY <1>1, <1>3, <2>1 DEF StageInv
<1>9. RulesInv'
  <2>1. \A q \in Rules : RuleGood(q, rule[q])' BY <1>2 DEF RowsGood
  <2>2. at' # "none" => RuleGood(key[1], mine)' BY <1>1, <1>2, <1>3, <2>1
  <2>3. ASSUME NEW q \in Rules, q \in todo'
        PROVE  RuleGood(q, held[q])' /\ IsDue(held[q])'
    <3>1. RuleGood(q, held[q]) /\ IsDue(held[q]) /\ q # r
      BY <1>1, <2>3 DEF RulesInv
    <3> QED BY <1>2, <3>1 DEF RuleGood, IsDue
  <2> QED BY <1>3, <2>1, <2>2, <2>3 DEF RulesInv
<1> QED BY <1>4, <1>5, <1>6, <1>7, <1>8, <1>9

LEMMA NewRunGood ==
  ASSUME NEW slot \in Nat, slot <= now, NEW status \in {"pending", "skipped", "missed"},
         HistoryType
  PROVE  /\ NewRun(status, slot) \in RunRows /\ NewRun(status, slot).slot = slot
         /\ RunGood(NewRun(status, slot), 0)
         /\ NewRun(status, slot).status = status /\ NewRun(status, slot).tries = 0
         /\ ~(status = "pending" /\ NewRun(status, slot).applied)
         /\ NewRun(status, slot).box = 0
<1> DEFINE run == NewRun(status, slot)
<1>1. run \in RunRows BY DEF NewRun, RunRows, Terminal, Ended
<1>2. /\ run.slot = slot /\ run.status = status /\ run.tries = 0 /\ run.box = 0
      /\ run.applied = (status \in {"skipped", "missed"})
  BY DEF NewRun
<1>3. Len(boxes) \in Nat BY LenProperties DEF HistoryType
<1> HIDE DEF run
<1>4. RunGood(run, 0)
  <2>1. run.slot <= now /\ run.box <= Len(boxes) BY <1>2, <1>3
  <2>2. run.status \notin Ended BY <1>2 DEF Ended
  <2>3. run.status \in Unended => ~run.applied BY <1>2 DEF Unended
  <2> QED BY <2>1, <2>2, <2>3 DEF RunGood
<1>5. ~(status = "pending" /\ run.applied) BY <1>2
<1> QED BY <1>1, <1>2, <1>4, <1>5 DEF run

LEMMA CapacityAnswerIInv == ASSUME IInv, CapacityAnswer PROVE IInv'
<1> USE DEF IInv
<1> DEFINE r == key[1]
           slot == mine.next
           a == AdvanceTrigger(mine, began)
           open == NewRun("pending", slot)
           b == RecordOutcome(a, "failed", now)
           failed == [open EXCEPT !.status = "failed", !.applied = TRUE]
<1>1. /\ at = "capacity" /\ UNCHANGED <<now, boxes, stage, todo, held, began, seen, crashes>>
      /\ \/ Idle /\ SaveRule(r, a)
            /\ \/ AddRun(r, NewRun("missed", slot), 0)
               \/ AddRun(r, NewRun("skipped", slot), 0)
               \/ AddRun(r, QueueRetry(open), 0) /\ seen.tries < MaxAttempts
         \/ Idle /\ SaveRule(r, b) /\ AddRun(r, failed, 1)
         \/ Await("create", <<r, Len(runs[r]) + 1>>, a) /\ SaveRule(r, a) /\ AddRun(r, open, 0)
  BY DEF CapacityAnswer, Decide
<1>2. /\ r \in Rules /\ RuleGood(r, mine) /\ IsDue(mine) /\ began <= now /\ began \in Nat
      /\ now \in Nat
  BY <1>1 DEF StageInv, RulesInv, ScalarType
<1>3. /\ slot \in Nat /\ slot <= began /\ slot <= now /\ mine \in Aggregate /\ Coherent(mine)
      /\ mine.enabled
      /\ \A i \in 1..Len(runs[r]) : runs[r][i].slot < slot
  BY <1>2 DEF IsDue, RuleGood, Aggregate, Never
<1>4. a \in Aggregate /\ Coherent(a) /\ a.next \in Nat /\ a.next > began
  BY <1>2, <1>3, AdvanceGood
<1>5. b \in Aggregate /\ Coherent(b) /\ (b.next # Never => slot < b.next)
  <2>1. ChangedAt(b, a, now) BY <1>2, <1>4, OutcomeGood
  <2>2. b.next \in Int BY <2>1 DEF ChangedAt, Aggregate, Never
  <2> QED BY <1>2, <1>3, <1>4, <2>1, <2>2 DEF ChangedAt
<1>6. slot < a.next BY <1>2, <1>3, <1>4
<1>7. /\ open \in RunRows /\ open.slot = slot /\ RunGood(open, 0) /\ open.status = "pending"
      /\ open.tries = 0 /\ ~open.applied /\ open.box = 0
  BY <1>3, NewRunGood
<1>8. /\ NewRun("missed", slot) \in RunRows /\ NewRun("missed", slot).slot = slot
      /\ RunGood(NewRun("missed", slot), 0)
      /\ NewRun("skipped", slot) \in RunRows /\ NewRun("skipped", slot).slot = slot
      /\ RunGood(NewRun("skipped", slot), 0)
  BY <1>3, NewRunGood
<1> HIDE DEF r, slot, a, b, open
<1>9. failed \in RunRows /\ failed.slot = slot /\ RunGood(failed, 1)
  BY <1>3, <1>7, LenProperties DEF RunRows, RunGood, Terminal, Ended, Unended, HistoryType
<1>10. ASSUME seen.tries < MaxAttempts
       PROVE  QueueRetry(open) \in RunRows /\ QueueRetry(open).slot = slot
              /\ RunGood(QueueRetry(open), 0)
  <2>1. open.tries < MaxAttempts BY <1>7, <1>10 DEF ScalarType
  <2>2. /\ QueueRetry(open) \in RunRows /\ QueueRetry(open).slot = slot
        /\ QueueRetry(open).box = 0 /\ ~QueueRetry(open).applied
    BY <1>7, <2>1, QueueRetryType
  <2> QED BY <1>3, <2>2, LenProperties DEF RunGood, HistoryType
<1> HIDE DEF failed
<1>11. CASE Idle /\ SaveRule(r, a) /\ AddRun(r, NewRun("missed", slot), 0)
  <2>1. Adds(r, NewRun("missed", slot), 0, a) BY <1>3, <1>4, <1>6, <1>8, <1>11 DEF Adds
  <2> QED BY <1>1, <1>11, <2>1, FiredThen DEF r
<1>12. CASE Idle /\ SaveRule(r, a) /\ AddRun(r, NewRun("skipped", slot), 0)
  <2>1. Adds(r, NewRun("skipped", slot), 0, a) BY <1>3, <1>4, <1>6, <1>8, <1>12 DEF Adds
  <2> QED BY <1>1, <1>12, <2>1, FiredThen DEF r
<1>13. CASE Idle /\ SaveRule(r, a) /\ AddRun(r, QueueRetry(open), 0) /\ seen.tries < MaxAttempts
  <2>1. Adds(r, QueueRetry(open), 0, a) BY <1>3, <1>4, <1>6, <1>10, <1>13 DEF Adds
  <2> QED BY <1>1, <1>13, <2>1, FiredThen DEF r
<1>14. CASE Idle /\ SaveRule(r, b) /\ AddRun(r, failed, 1)
  <2>1. Adds(r, failed, 1, b) BY <1>3, <1>5, <1>9, <1>14 DEF Adds
  <2> QED BY <1>1, <1>14, <2>1, FiredThen DEF r
<1>15. CASE Await("create", <<r, Len(runs[r]) + 1>>, a) /\ SaveRule(r, a) /\ AddRun(r, open, 0)
  <2>1. Adds(r, open, 0, a) BY <1>3, <1>4, <1>6, <1>7, <1>15 DEF Adds
  <2> QED BY <1>1, <1>7, <1>15, <2>1, FiredThen DEF r
<1> QED BY <1>1, <1>11, <1>12, <1>13, <1>14, <1>15

-----------------------------------------------------------------------------
(* The stages, and a restart.                                              *)

LEMMA ListedKeys ==
  ASSUME HistoryType
  PROVE  /\ Keys \subseteq Rules \X Nat
         /\ \A r \in Rules : \A i \in 1..Len(runs[r]) : Run(<<r, i>>) = runs[r][i]
<1>1. \A r \in Rules : DOMAIN runs[r] = 1..Len(runs[r]) BY DEF HistoryType
<1> QED BY <1>1 DEF Keys, Run

LEMMA NextStageIInv == ASSUME IInv, NextStage PROVE IInv'
<1> USE DEF IInv
<1>1. /\ at = "none" /\ todo = {}
      /\ UNCHANGED <<now, boxes, at, key, mine, seen, crashes>>
      /\ UNCHANGED <<exists, rule, runs, counted>>
  BY DEF NextStage, rowVars
<1>2. /\ stage' \in {"idle", "outcomes", "retries", "flight", "fire"}
      /\ stage' = "idle" => todo' = {}
      /\ stage' = "outcomes" => todo' = ListOutcomePending
      /\ stage' = "retries" => todo' = ListPendingRetries
      /\ stage' = "flight" => todo' = ListActive
      /\ stage' = "fire" => todo' = ListDue /\ held' = rule /\ began' = now
  BY DEF NextStage
<1>3. held' \in [Rules -> Aggregate] /\ began' \in 0..MaxNow /\ began' <= now /\ now \in Nat
  <2>1. began' = now \/ began' = 0 BY DEF NextStage
  <2>2. held' = rule \/ held' = [r \in Rules |-> NewRule] BY DEF NextStage
  <2> QED BY <2>1, <2>2, NewRuleGood DEF ScalarType
<1>4. ScalarType' BY <1>1, <1>2, <1>3 DEF ScalarType
<1>5. HistoryType' /\ SlotsInOrder' /\ HistoryInv'
  BY <1>1 DEF HistoryType, SlotsInOrder, HistoryInv, RunGood
<1>6. ListedInv'
  <2>1. ASSUME NEW r \in Rules, NEW i \in 1..Len(runs'[r]), <<r, i>> \in todo'
        PROVE  Listed(runs[r][i])'
    <3>1. Run(<<r, i>>) = runs[r][i] /\ runs' = runs BY <1>1, ListedKeys
    <3>2. /\ stage' = "outcomes" => runs[r][i].status \in Ended /\ ~runs[r][i].applied
          /\ stage' = "retries" => runs[r][i].status = "resource-exhausted"
          /\ stage' = "flight" => runs[r][i].status \in {"pending", "running"}
      BY <1>2, <2>1, <3>1 DEF ListOutcomePending, ListPendingRetries, ListActive
    <3> QED BY <3>1, <3>2 DEF Listed
  <2> QED BY <2>1 DEF ListedInv
<1>7. AwaitedInv' BY <1>1 DEF AwaitedInv, Awaited
<1>8. StageInv'
  <2>1. stage' \in {"outcomes", "retries", "flight"} => todo' \subseteq Rules \X Nat
    BY <1>2, ListedKeys DEF ListOutcomePending, ListPendingRetries, ListActive
  <2>2. stage' = "fire" => todo' \subseteq Rules BY <1>2 DEF ListDue, ScalarType
  <2> QED BY <1>1, <1>2, <1>3, <2>1, <2>2 DEF StageInv
<1>9. RulesInv'
  <2>1. ASSUME stage' = "fire", NEW r \in Rules, r \in todo'
        PROVE  RuleGood(r, held[r])' /\ IsDue(held[r])'
    BY <1>1, <1>2, <2>1 DEF ListDue, Due, IsDue, RulesInv, RuleGood
  <2> QED BY <1>1, <2>1 DEF RulesInv, RuleGood
<1> QED BY <1>4, <1>5, <1>6, <1>7, <1>8, <1>9

LEMMA Restarted ==
  ASSUME IInv, RowsGood', now' = now, crashes' \in 0..MaxCrashes, Idle,
         stage' = "idle", todo' = {}, held' = [r \in Rules |-> NewRule], began' = 0,
         seen' = [going |-> FALSE, tries |-> 0]
  PROVE  IInv'
<1> USE DEF IInv
<1>1. at' = "none" /\ mine' = NewRule BY DEF Idle, Await
<1>2. ScalarType' BY <1>1, NewRuleGood DEF ScalarType, RowsGood
<1>3. HistoryType' /\ SlotsInOrder' /\ HistoryInv' BY DEF RowsGood
<1>4. ListedInv' /\ AwaitedInv' BY <1>1 DEF ListedInv, AwaitedInv, Awaited
<1>5. StageInv' BY <1>1 DEF StageInv, ScalarType
<1>6. RulesInv' BY <1>1 DEF RulesInv, RowsGood
<1> QED BY <1>2, <1>3, <1>4, <1>5, <1>6

\* Sandboxes come and go, the rows stay.
LEMMA RowsStay ==
  ASSUME RowsGood, UNCHANGED <<now, exists, rule, runs, counted>>, boxes' \in Seq(Phases),
         Len(boxes) <= Len(boxes')
  PROVE  RowsGood'
<1>1. HistoryInv'
  <2>1. ASSUME NEW r \in Rules, NEW i \in 1..Len(runs[r]) PROVE RunGood(runs[r][i], counted[r][i])'
    <3>1. RunGood(runs[r][i], counted[r][i]) /\ runs[r][i].box \in Nat
      BY RunType DEF RowsGood, HistoryInv, RunRows
    <3>2. Len(boxes) \in Nat /\ Len(boxes') \in Nat BY LenProperties DEF RowsGood, HistoryType
    <3> QED BY <3>1, <3>2 DEF RunGood
  <2> QED BY <2>1 DEF HistoryInv
<1> QED BY <1>1 DEF RowsGood, HistoryType, SlotsInOrder, RuleGood

LEMMA CrashIInv == ASSUME IInv, Crash PROVE IInv'
<1> USE DEF IInv
<1>1. /\ crashes < MaxCrashes /\ crashes' = crashes + 1 /\ Idle
      /\ stage' = "idle" /\ todo' = {} /\ held' = [r \in Rules |-> NewRule] /\ began' = 0
      /\ seen' = [going |-> FALSE, tries |-> 0]
      /\ UNCHANGED <<now, runs, counted>>
  BY DEF Crash
<1>2. crashes' \in 0..MaxCrashes BY <1>1 DEF ScalarType
<1>3. RowsGood'
  <2>0. RowsGood /\ Len(boxes) \in Nat BY IInvRows, LenProperties DEF HistoryType
  <2>1. CASE UNCHANGED <<exists, rule, boxes>>
    BY <1>1, <2>0, <2>1, RowsStay DEF HistoryType
  <2>2. CASE boxes' = Append(boxes, "provisioning") /\ UNCHANGED <<exists, rule>>
    <3>1. boxes' \in Seq(Phases) /\ Len(boxes') = Len(boxes) + 1 BY <2>2, SeqBoxes DEF Phases
    <3> QED BY <1>1, <2>0, <2>2, <3>1, RowsStay
  <2>3. CASE /\ at # "none" /\ Backed(key) /\ UNCHANGED <<exists, rule>>
             /\ \E p \in {"running", "gone"} : boxes' = [boxes EXCEPT ![Run(key).box] = p]
    <3>1. PICK r \in Rules, i \in Nat :
            /\ i \in 1..Len(runs[r])
            /\ key = <<r, i>> /\ Run(key) = runs[r][i] /\ runs[r][i] \in RunRows
            /\ RunGood(runs[r][i], counted[r][i])
      BY <2>3, AnswerParts DEF Backed
    <3>2. Run(key).box \in 1..Len(boxes) BY <2>3, <3>1, BoxStored DEF Backed
    <3>3. PICK p \in Phases : boxes' = [boxes EXCEPT ![Run(key).box] = p] BY <2>3 DEF Phases
    <3>4. boxes' \in Seq(Phases) /\ Len(boxes') = Len(boxes) BY <3>2, <3>3, SeqBoxes
    <3> QED BY <1>1, <2>0, <2>3, <3>4, RowsStay
  <2>4. CASE at = "capacity" /\ SaveRule(key[1], AdvanceTrigger(mine, began)) /\ UNCHANGED boxes
    <3> DEFINE r == key[1]
               a == AdvanceTrigger(mine, began)
    <3>1. /\ r \in Rules /\ RuleGood(r, mine) /\ IsDue(mine) /\ began \in Nat
          /\ mine \in Aggregate /\ Coherent(mine) /\ mine.enabled
      BY <2>4 DEF StageInv, RulesInv, ScalarType, IsDue, RuleGood
    <3>2. a \in Aggregate /\ Coherent(a) /\ a.next \in Nat /\ a.next > began
      BY <3>1, AdvanceGood
    <3>3. exists' = exists \cup {r} /\ rule' = [rule EXCEPT ![r] = a] BY <2>4 DEF SaveRule
    <3> HIDE DEF r, a
    <3>4. RuleGood(r, a)
      <4>1. ASSUME NEW i \in 1..Len(runs[r]) PROVE runs[r][i].slot < a.next
        <5>1. runs[r][i].slot < mine.next /\ mine.next <= began /\ mine.next \in Nat
          BY <3>1, <4>1 DEF RuleGood, IsDue, Aggregate, Never
        <5>2. runs[r][i].slot \in Nat BY <3>1, <4>1, RunType DEF RunRows
        <5> QED BY <3>1, <3>2, <5>1, <5>2
      <4> QED BY <3>2, <4>1 DEF RuleGood
    <3>5. \A q \in Rules : RuleGood(q, rule[q])'
      <4>1. ASSUME NEW q \in Rules PROVE RuleGood(q, rule'[q])
        <5>1. CASE q = r BY <3>1, <3>3, <3>4, <5>1 DEF ScalarType
        <5>2. CASE q # r BY <3>3, <5>2 DEF RulesInv, ScalarType
        <5> QED BY <5>1, <5>2
      <4> QED BY <1>1, <4>1 DEF RuleGood
    <3>6. exists' \subseteq Rules /\ rule' \in [Rules -> Aggregate]
      BY <3>1, <3>2, <3>3 DEF ScalarType
    <3> QED BY <1>1, <2>4, <3>5, <3>6 DEF RowsGood, HistoryType, SlotsInOrder, HistoryInv, RunGood
  <2> QED BY <2>1, <2>2, <2>3, <2>4 DEF Crash
<1> QED BY <1>1, <1>2, <1>3, Restarted

-----------------------------------------------------------------------------
(* The users, the clock and the sandboxes, while the scheduler awaits.     *)

\* Run i of q is what it was, but for its retry being due.
KeptRun(q, i) ==
  /\ i \in 1..Len(runs[q])
  /\ runs'[q][i].status = runs[q][i].status /\ runs'[q][i].applied = runs[q][i].applied
  /\ runs'[q][i].slot = runs[q][i].slot /\ runs'[q][i].box = runs[q][i].box

LEMMA FromOutside ==
  ASSUME IInv, RowsGood', NotTheSweep, now <= now', now' \in 0..MaxNow,
         Len(boxes) <= Len(boxes'),
         \A b \in 1..Len(boxes) : boxes[b] \in Ended => boxes'[b] = boxes[b],
         \A q \in Rules : \A i \in 1..Len(runs'[q]) : KeptRun(q, i)
  PROVE  IInv'
<1> USE DEF IInv
<1>1. UNCHANGED <<stage, todo, held, began, at, key, mine, seen, crashes>> BY DEF NotTheSweep
<1>2. ScalarType' BY <1>1 DEF ScalarType, RowsGood
<1>3. HistoryType' /\ SlotsInOrder' /\ HistoryInv' BY DEF RowsGood
<1>4. ListedInv' BY <1>1 DEF ListedInv, Listed, KeptRun
<1>5. AwaitedInv'
  <2>1. ASSUME NEW q \in Rules, NEW i \in 1..Len(runs'[q]), key' = <<q, i>>
        PROVE  Awaited(runs[q][i])'
    <3>1. KeptRun(q, i) /\ Awaited(runs[q][i]) BY <1>1, <2>1 DEF KeptRun, AwaitedInv
    <3>2. Len(boxes) \in Nat /\ Len(boxes') \in Nat
      BY LenProperties DEF RowsGood, HistoryType
    <3>3. at' = "summary" => runs'[q][i].box \in 1..Len(boxes') /\ boxes'[runs'[q][i].box] \in Ended
      BY <1>1, <3>1, <3>2 DEF KeptRun, Awaited
    <3> QED BY <1>1, <3>1, <3>3 DEF KeptRun, Awaited
  <2> QED BY <2>1 DEF AwaitedInv
<1>6. StageInv'
  <2>1. began' <= now'
    <3>1. began <= now /\ began \in Int /\ now \in Int /\ now' \in Int BY DEF StageInv, ScalarType
    <3> QED BY <1>1, <3>1
  <2> QED BY <1>1, <2>1 DEF StageInv
<1>7. ASSUME NEW q \in Rules, NEW a, RuleGood(q, a) PROVE RuleGood(q, a)'
  BY <1>7 DEF RuleGood, KeptRun
<1>8. RulesInv'
  <2>1. \A q \in Rules : RuleGood(q, rule[q])' BY DEF RowsGood
  <2>2. at' # "none" => key[1] \in Rules /\ RuleGood(key[1], mine)
    BY <1>1 DEF RulesInv, StageInv
  <2>3. at' # "none" => RuleGood(key[1], mine)'
    <3>1. ASSUME at' # "none" PROVE RuleGood(key[1], mine)'
      <4> DEFINE q == key[1]
                 a == mine
      <4>1. q \in Rules /\ RuleGood(q, a) /\ key' = key /\ mine' = mine BY <1>1, <2>2, <3>1
      <4>2. a \in Aggregate /\ Coherent(a) BY <4>1 DEF RuleGood
      <4>3. a.next # Never => \A i \in 1..Len(runs'[q]) : runs'[q][i].slot < a.next
        BY <4>1 DEF RuleGood, KeptRun
      <4> QED BY <4>1, <4>2, <4>3 DEF RuleGood
    <3> QED BY <3>1
  <2>4. ASSUME stage' = "fire", NEW q \in Rules, q \in todo'
        PROVE  RuleGood(q, held[q])' /\ IsDue(held[q])'
    <3>1. RuleGood(q, held[q]) /\ IsDue(held[q]) BY <1>1, <2>4 DEF RulesInv
    <3> QED BY <1>1, <3>1 DEF RuleGood, KeptRun, IsDue
  <2>5. at' = "capacity" => IsDue(mine)' BY <1>1 DEF RulesInv, IsDue
  <2> QED BY <2>1, <2>3, <2>4, <2>5 DEF RulesInv
<1> QED BY <1>2, <1>3, <1>4, <1>5, <1>6, <1>8

LEMMA KeptRuns ==
  ASSUME HistoryType, runs' = runs
  PROVE  \A q \in Rules : \A i \in 1..Len(runs'[q]) : KeptRun(q, i)
BY DEF KeptRun

\* A request changes a rule.
LEMMA RuleChanged ==
  ASSUME IInv, NEW r \in Rules, NEW b, rule' = [rule EXCEPT ![r] = b], ChangedAt(b, rule[r], now),
         UNCHANGED <<now, exists, runs, counted, boxes>>, NotTheSweep
  PROVE  IInv'
<1> USE DEF IInv
<1>1. b \in Aggregate /\ Coherent(b) /\ RuleGood(r, rule[r]) /\ now \in Nat
  BY DEF ChangedAt, RulesInv, ScalarType
<1>2. RuleGood(r, b)
  <2>1. ASSUME b.next # Never, NEW i \in 1..Len(runs[r]) PROVE runs[r][i].slot < b.next
    <3>1. runs[r][i].slot \in Nat /\ runs[r][i].slot <= now
      BY <2>1, RunType DEF HistoryInv, RunGood, RunRows
    <3>2. b.next \in Int BY <1>1 DEF Aggregate, Never
    <3> QED BY <1>1, <2>1, <3>1, <3>2 DEF ChangedAt, RuleGood
  <2> QED BY <1>1, <2>1 DEF RuleGood
<1>3. RowsGood'
  <2>1. ASSUME NEW q \in Rules PROVE RuleGood(q, rule'[q])
    <3>1. CASE q = r BY <1>2, <3>1 DEF ScalarType
    <3>2. CASE q # r BY <3>2 DEF RulesInv, ScalarType
    <3> QED BY <3>1, <3>2
  <2>2. \A q \in Rules : RuleGood(q, rule[q])' BY <2>1 DEF RuleGood
  <2>3. rule' \in [Rules -> Aggregate] /\ exists' \subseteq Rules BY <1>1 DEF ScalarType
  <2> QED BY <2>2, <2>3 DEF RowsGood, HistoryType, SlotsInOrder, HistoryInv, RunGood
<1>4. now <= now' /\ now' \in 0..MaxNow /\ Len(boxes) <= Len(boxes')
  BY <1>1, LenProperties DEF ScalarType, HistoryType
<1> QED BY <1>3, <1>4, KeptRuns, FromOutside

LEMMA DisableIInv == ASSUME IInv, NEW r \in Rules, Disable(r) PROVE IInv'
<1> DEFINE a == rule[r]
           b == [a EXCEPT !.enabled = FALSE, !.next = Never]
<1>1. a \in Aggregate /\ Coherent(a) BY DEF IInv, ScalarType, RulesInv, RuleGood
<1>2. b \in Aggregate /\ ~b.enabled /\ b.next = Never /\ b.fails = a.fails /\ b.degraded = a.degraded
  BY <1>1 DEF Aggregate
<1>3. rule' = [rule EXCEPT ![r] = b] BY DEF Disable
<1> HIDE DEF b
<1>4. ChangedAt(b, a, now) BY <1>1, <1>2 DEF ChangedAt, Coherent
<1> QED BY <1>3, <1>4, RuleChanged DEF Disable

LEMMA EnableIInv == ASSUME IInv, NEW r \in Rules, Enable(r) PROVE IInv'
<1> DEFINE a == rule[r]
           b == RecomputeFutureTrigger([a EXCEPT !.enabled = TRUE, !.degraded = FALSE, !.fails = 0], now)
<1>1. a \in Aggregate /\ Coherent(a) /\ now \in Nat
  BY DEF IInv, ScalarType, RulesInv, RuleGood
<1>2. rule' = [rule EXCEPT ![r] = b] BY DEF Enable
<1>3. ChangedAt(b, a, now) BY <1>1, EnabledGood
<1> HIDE DEF b
<1> QED BY <1>2, <1>3, RuleChanged DEF Enable

LEMMA RemoveIInv == ASSUME IInv, NEW r \in Rules, Remove(r) PROVE IInv'
<1> USE DEF IInv
<1>1. /\ exists' = exists \ {r} /\ rule' = [rule EXCEPT ![r] = NewRule]
      /\ runs' = [runs EXCEPT ![r] = <<>>] /\ counted' = [counted EXCEPT ![r] = <<>>]
      /\ UNCHANGED <<now, boxes>> /\ NotTheSweep
  BY DEF Remove
<1>2. /\ runs'[r] = <<>> /\ counted'[r] = <<>> /\ Len(runs'[r]) = 0 /\ rule'[r] = NewRule
      /\ \A q \in Rules : q # r => /\ runs'[q] = runs[q] /\ counted'[q] = counted[q]
                                  /\ rule'[q] = rule[q]
  BY <1>1, EmptySeq DEF HistoryType, ScalarType
<1>3. HistoryType'
  <2>1. <<>> \in Seq(RunRows) /\ <<>> \in Seq(Nat) BY EmptySeq
  <2>2. runs' \in [Rules -> Seq(RunRows)] /\ counted' \in [Rules -> Seq(Nat)]
    BY <1>1, <2>1 DEF HistoryType
  <2> QED BY <1>1, <1>2, <2>2 DEF HistoryType
<1>4. HistoryInv'
  <2>1. ASSUME NEW q \in Rules, NEW i \in 1..Len(runs'[q]) PROVE RunGood(runs[q][i], counted[q][i])'
    BY <1>1, <1>2, <2>1 DEF HistoryInv, RunGood
  <2> QED BY <2>1 DEF HistoryInv
<1>5. SlotsInOrder'
  <2>1. ASSUME NEW q \in Rules, NEW i \in DOMAIN runs'[q], NEW j \in DOMAIN runs'[q], i < j
        PROVE  runs'[q][i].slot < runs'[q][j].slot
    <3>1. q # r BY <1>2, <1>3, <2>1 DEF HistoryType
    <3> QED BY <1>2, <2>1, <3>1 DEF SlotsInOrder
  <2> QED BY <2>1 DEF SlotsInOrder
<1>6. \A q \in Rules : RuleGood(q, rule[q])'
  <2>1. ASSUME NEW q \in Rules PROVE RuleGood(q, rule[q])'
    <3>1. CASE q = r BY <1>2, <3>1, NewRuleGood DEF RuleGood
    <3>2. CASE q # r BY <1>2, <3>2 DEF RulesInv, RuleGood
    <3> QED BY <3>1, <3>2
  <2> QED BY <2>1
<1>7. exists' \subseteq Rules /\ rule' \in [Rules -> Aggregate]
  BY <1>1, NewRuleGood DEF ScalarType
<1>8. RowsGood' BY <1>3, <1>4, <1>5, <1>6, <1>7 DEF RowsGood
<1>9. \A q \in Rules : \A i \in 1..Len(runs'[q]) : KeptRun(q, i) BY <1>2 DEF KeptRun
<1>10. now <= now' /\ now' \in 0..MaxNow /\ Len(boxes) <= Len(boxes')
  BY <1>1, LenProperties DEF ScalarType, HistoryType
<1> QED BY <1>1, <1>8, <1>9, <1>10, FromOutside

LEMMA TickIInv == ASSUME IInv, Tick PROVE IInv'
<1> USE DEF IInv
<1>1. /\ now < MaxNow /\ now' = now + 1 /\ NotTheSweep
      /\ UNCHANGED <<exists, rule, runs, counted, boxes>>
  BY DEF Tick, rowVars
<1>2. now \in 0..MaxNow /\ now' \in 0..MaxNow /\ now <= now' BY <1>1 DEF ScalarType
<1>3. HistoryInv'
  <2>1. ASSUME NEW q \in Rules, NEW i \in 1..Len(runs[q]) PROVE RunGood(runs[q][i], counted[q][i])'
    <3>1. RunGood(runs[q][i], counted[q][i]) /\ runs[q][i].slot \in Nat
      BY <2>1, RunType DEF HistoryInv, RunRows
    <3> QED BY <1>1, <1>2, <3>1 DEF RunGood
  <2> QED BY <1>1, <2>1 DEF HistoryInv
<1>4. RowsGood'
  BY <1>1, <1>3 DEF RowsGood, HistoryType, SlotsInOrder, RulesInv, RuleGood, ScalarType
<1>5. Len(boxes) <= Len(boxes') BY <1>1, LenProperties DEF HistoryType
<1> QED BY <1>1, <1>2, <1>4, <1>5, KeptRuns, FromOutside

LEMMA RetryDueIInv == ASSUME IInv, NEW k \in Keys, RetryDue(k) PROVE IInv'
<1> USE DEF IInv
<1>1. k \in Rules \X Nat BY ListedKeys
<1>2. PICK r \in Rules, i \in Nat : /\ k = <<r, i>> /\ k[1] = r /\ Run(k) = runs[r][i]
                                  /\ i \in 1..Len(runs[r])
  BY <1>1, KeyParts DEF Stored
<1> DEFINE run == [runs[r][i] EXCEPT !.again = TRUE]
<1>3. /\ runs' = [runs EXCEPT ![r][i] = run] /\ NotTheSweep
      /\ UNCHANGED <<now, exists, rule, counted, boxes>>
      /\ runs[r][i].status = "resource-exhausted"
  BY <1>2 DEF RetryDue
<1>4. runs[r][i] \in RunRows /\ RunGood(runs[r][i], counted[r][i]) BY <1>2, RunType DEF HistoryInv
<1>5. /\ run \in RunRows /\ run.status = runs[r][i].status /\ run.applied = runs[r][i].applied
      /\ run.slot = runs[r][i].slot /\ run.box = runs[r][i].box
  BY <1>4 DEF RunRows
<1> HIDE DEF run
<1>6. SaveRun(<<r, i>>, run)
  <2>1. Stored(<<r, i>>) BY <1>2 DEF Stored
  <2> QED BY <1>3, <2>1 DEF SaveRun
<1>7. /\ ~run.applied /\ run.box <= Len(boxes') /\ boxes' \in Seq(Phases)
      /\ Len(boxes) <= Len(boxes')
  BY <1>3, <1>4, <1>5, LenProperties DEF RunGood, Unended, HistoryType
<1>8. RowsGood' /\ SameSlots /\ OnlyRun(r, i) /\ runs'[r][i] = run
  BY <1>2, <1>3, <1>5, <1>6, <1>7, IInvRows, RunSaved
<1>9. ASSUME NEW q \in Rules, NEW j \in 1..Len(runs'[q]) PROVE KeptRun(q, j)
  <2>1. j \in 1..Len(runs[q]) BY <1>8 DEF SameSlots
  <2>2. CASE <<q, j>> = <<r, i>> BY <1>5, <1>8, <2>1, <2>2 DEF KeptRun
  <2>3. CASE <<q, j>> # <<r, i>> BY <1>8, <2>1, <2>3 DEF KeptRun, OnlyRun
  <2> QED BY <2>2, <2>3
<1>10. now <= now' /\ now' \in 0..MaxNow BY <1>3 DEF ScalarType
<1> QED BY <1>3, <1>7, <1>8, <1>9, <1>10, FromOutside

\* A sandbox that has not come to its end moves.
LEMMA BoxMoved ==
  ASSUME IInv, NEW b \in DOMAIN boxes, boxes[b] \notin Ended, NEW p \in Phases,
         boxes' = [boxes EXCEPT ![b] = p], UNCHANGED <<now, exists, rule, runs, counted>>, NotTheSweep
  PROVE  IInv'
<1> USE DEF IInv
<1>1. b \in 1..Len(boxes) /\ Len(boxes) \in Nat BY SeqBoxes
<1>2. boxes' \in Seq(Phases) /\ Len(boxes') = Len(boxes) BY <1>1, SeqBoxes
<1>3. \A c \in 1..Len(boxes) : boxes[c] \in Ended => boxes'[c] = boxes[c] BY SeqBoxes
<1>4. RowsGood' BY <1>1, <1>2, IInvRows, RowsStay
<1>5. now <= now' /\ now' \in 0..MaxNow BY DEF ScalarType
<1> QED BY <1>1, <1>2, <1>3, <1>4, <1>5, KeptRuns, FromOutside

LEMMA BoxMovesIInv == ASSUME IInv, NEW b \in DOMAIN boxes, BoxMoves(b) PROVE IInv'
<1>1. /\ boxes[b] \notin Ended /\ UNCHANGED <<now, exists, rule, runs, counted>> /\ NotTheSweep
  BY DEF BoxMoves, Busy, Ended, rowVars
<1>2. PICK p \in Phases : boxes' = [boxes EXCEPT ![b] = p]
  BY DEF BoxMoves, Phases, Ended, Finished
<1> QED BY <1>1, <1>2, BoxMoved

LEMMA BoxDestroyedIInv == ASSUME IInv, NEW b \in DOMAIN boxes, BoxDestroyed(b) PROVE IInv'
<1>1. /\ boxes[b] \notin Ended /\ UNCHANGED <<now, exists, rule, runs, counted>> /\ NotTheSweep
  BY DEF BoxDestroyed, Ended, rowVars
<1>2. boxes' = [boxes EXCEPT ![b] = "gone"] /\ "gone" \in Phases BY DEF BoxDestroyed, Phases
<1> QED BY <1>1, <1>2, BoxMoved

-----------------------------------------------------------------------------
(* The theorems.                                                           *)

LEMMA InitIInv == Init => IInv
<1> SUFFICES ASSUME Init PROVE IInv OBVIOUS
<1>1. ScalarType BY NewRuleGood DEF Init, ScalarType
<1>2. runs \in [Rules -> Seq(RunRows)] /\ counted \in [Rules -> Seq(Nat)] /\ boxes \in Seq(Phases)
  BY EmptySeq DEF Init
<1>3. \A r \in Rules : runs[r] = <<>> /\ counted[r] = <<>> /\ Len(runs[r]) = 0 /\ DOMAIN runs[r] = {}
  BY EmptySeq DEF Init
<1>4. HistoryType BY <1>2, <1>3 DEF HistoryType
<1>5. SlotsInOrder /\ HistoryInv BY <1>3 DEF SlotsInOrder, HistoryInv
<1>6. ListedInv /\ AwaitedInv BY <1>3 DEF ListedInv, AwaitedInv
<1>7. StageInv BY DEF Init, StageInv
<1>8. RulesInv BY <1>3, NewRuleGood DEF Init, RulesInv, RuleGood
<1> QED BY <1>1, <1>4, <1>5, <1>6, <1>7, <1>8 DEF IInv

LEMMA AnswerIInv == ASSUME IInv, Answer PROVE IInv'
BY FinishDoneIInv, FinishThrowsIInv, SummaryDoneIInv, StartDoneIInv, StartThrowsIInv,
   CreateDoneIInv, CreateThrowsIInv, CapacityAnswerIInv DEF Answer

LEMMA StutterIInv == ASSUME IInv, UNCHANGED vars PROVE IInv'
<1> USE DEF IInv, vars, rowVars
<1>1. ScalarType' BY DEF ScalarType
<1>2. HistoryType' /\ SlotsInOrder' BY DEF HistoryType, SlotsInOrder
<1>3. HistoryInv' BY DEF HistoryInv, RunGood
<1>4. ListedInv' BY DEF ListedInv, Listed
<1>5. AwaitedInv' BY DEF AwaitedInv, Awaited
<1>6. StageInv' BY DEF StageInv
<1>7. RulesInv' BY DEF RulesInv, RuleGood, IsDue
<1> QED BY <1>1, <1>2, <1>3, <1>4, <1>5, <1>6, <1>7

LEMMA NextIInv == IInv /\ [Next]_vars => IInv'
<1> SUFFICES ASSUME IInv, [Next]_vars PROVE IInv' OBVIOUS
<1>1. CASE NextStage BY <1>1, NextStageIInv
<1>2. CASE Answer BY <1>2, AnswerIInv
<1>3. CASE Tick BY <1>3, TickIInv
<1>4. CASE Crash BY <1>4, CrashIInv
<1>5. ASSUME NEW k \in Keys, RetryDue(k) PROVE IInv' BY <1>5, RetryDueIInv
<1>6. ASSUME NEW k \in todo, VisitOutcome(k) \/ VisitRetry(k) \/ VisitRun(k) \/ VisitRule(k)
      PROVE  IInv'
  BY <1>6, VisitOutcomeIInv, VisitRetryIInv, VisitRunIInv, VisitRuleIInv
<1>7. ASSUME NEW r \in Rules, Disable(r) \/ Enable(r) \/ Remove(r) PROVE IInv'
  BY <1>7, DisableIInv, EnableIInv, RemoveIInv
<1>8. ASSUME NEW b \in DOMAIN boxes, BoxMoves(b) \/ BoxDestroyed(b) PROVE IInv'
  BY <1>8, BoxMovesIInv, BoxDestroyedIInv
<1>9. CASE UNCHANGED vars BY <1>9, StutterIInv
<1> QED BY <1>1, <1>2, <1>3, <1>4, <1>5, <1>6, <1>7, <1>8, <1>9 DEF Next, VisitSome

\* The invariant holds in every reachable state.
THEOREM SchedulerInvariant == Spec => []IInv
BY InitIInv, NextIInv, PTL DEF Spec

\* Every variable keeps its type, whatever the rules, the policy and the bounds: in particular a
\* run is never queued more often than its retry budget (retry-policy.vo.ts).
THEOREM TypeCorrect == Spec => []TypeOK
<1>1. IInv => TypeOK
  <2> SUFFICES ASSUME IInv PROVE TypeOK OBVIOUS
  <2> USE DEF IInv
  <2>1. ASSUME NEW r \in Rules
        PROVE  /\ \A i \in DOMAIN runs[r] : runs[r][i] \in RunRows
               /\ DOMAIN counted[r] = DOMAIN runs[r]
    <3>1. DOMAIN runs[r] = 1..Len(runs[r]) /\ DOMAIN counted[r] = 1..Len(runs[r])
      BY DEF HistoryType
    <3> QED BY <3>1, RunType
  <2>2. \A b \in DOMAIN boxes : boxes[b] \in Phases BY ElementOfSeq, SeqBoxes DEF HistoryType
  <2>3. \A k \in todo : stage # "fire" => k[1] \in Rules BY DEF StageInv, ScalarType
  <2> QED BY <2>1, <2>2, <2>3 DEF TypeOK, ScalarType
<1> QED BY <1>1, SchedulerInvariant, PTL

\* A slot is fired at most once and slots fire in order (I-AUT-8): the rule is saved with its
\* next slot before anything is launched, and every value of the rule the scheduler may still
\* save, stale or not, lies beyond the slots in the history.
THEOREM SlotsFireInOrder == Spec => []SlotsInOrder
<1>1. IInv => SlotsInOrder BY DEF IInv
<1> QED BY <1>1, SchedulerInvariant, PTL

\* The outcome of a run is recorded when it is marked so, and exactly once, whatever crash,
\* retry or failed teardown leads the scheduler to visit the run again.
THEOREM OutcomeCountedOnce == Spec => []CountedOnce
<1>1. IInv => CountedOnce
  <2> SUFFICES ASSUME IInv, NEW r \in Rules, NEW i \in DOMAIN runs[r]
               PROVE  RunGood(runs[r][i], counted[r][i])
    BY DEF CountedOnce, RunGood
  <2>1. i \in 1..Len(runs[r]) BY DEF IInv, HistoryType
  <2> QED BY <2>1 DEF IInv, HistoryInv
<1> QED BY <1>1, SchedulerInvariant, PTL

\* Only an enabled rule has a next slot, and the failures a rule has counted agree with its
\* being slowed down or off the schedule, even when the scheduler saves a rule it read before
\* a request changed it.
THEOREM RuleStaysCoherent == Spec => []RuleIsCoherent
<1>1. IInv => RuleIsCoherent BY DEF IInv, RulesInv, RuleGood, Coherent, RuleIsCoherent
<1> QED BY <1>1, SchedulerInvariant, PTL

\* Every outcome is recorded once, and the rules are off the schedule or slowed down as the
\* outcomes that were recorded demand.
THEOREM OutcomesKept == Spec => []OutcomesAreKept
<1>1. CountedOnce /\ RuleIsCoherent => OutcomesAreKept BY DEF OutcomesAreKept
<1> QED BY <1>1, OutcomeCountedOnce, RuleStaysCoherent, PTL

-----------------------------------------------------------------------------
(* What moves a rule.                                                      *)

\* The two things the history must show when the row of r moves.
DueMove(r) ==
  (/\ Due(r) /\ r \in exists' /\ rule'[r].enabled
   /\ crashes' = crashes /\ rule'[r].next # rule[r].next)
    => \E i \in DOMAIN runs'[r] \ DOMAIN runs[r] : runs'[r][i].slot = rule[r].next
FailMove(r) ==
  rule'[r].fails > rule[r].fails
    => \E i \in DOMAIN runs'[r] :
         /\ runs'[r][i].status \in {"failed", "timeout"} /\ runs'[r][i].applied
         /\ i \in DOMAIN runs[r] => ~runs[r][i].applied
Moves == Undisturbed => \A r \in exists : DueMove(r) /\ FailMove(r)

\* A slot that is due outlives the recording of an outcome, unless the rule is turned off by it.
LEMMA OutcomeLeavesDueSlot ==
  ASSUME NEW a \in Aggregate, NEW t \in Nat, NEW outcome,
         a.next # Never, a.next <= t
  PROVE  LET b == RecordOutcome(a, outcome, t) IN b.next = a.next \/ ~b.enabled
<1>1. RecordSuccess(a, t).next = a.next
  <2> DEFINE b == [a EXCEPT !.fails = 0, !.degraded = FALSE]
  <2>1. b.next = a.next BY DEF Aggregate
  <2>2. RecordSuccess(a, t) = IF a.degraded THEN RecomputeFutureTrigger(b, t) ELSE b
    BY DEF RecordSuccess
  <2> HIDE DEF b
  <2> QED BY <2>1, <2>2 DEF RecomputeFutureTrigger
<1>2. RecordFailure(a, t).next = a.next \/ ~RecordFailure(a, t).enabled
  <2> DEFINE b == [a EXCEPT !.fails = @ + 1]
             d == [b EXCEPT !.degraded = TRUE]
  <2>1. b \in Aggregate /\ b.next = a.next BY DEF Aggregate
  <2>2. d.next = a.next BY <2>1 DEF Aggregate
  <2>3. RecordFailure(a, t) = IF b.fails >= DisableAt THEN Disabled(b)
                              ELSE IF b.fails >= DegradeAt /\ ~a.degraded
                                   THEN RecomputeFutureTrigger(d, t) ELSE b
    BY DEF RecordFailure
  <2>4. ~Disabled(b).enabled BY <2>1 DEF Disabled, Aggregate
  <2> HIDE DEF b, d
  <2> QED BY <2>1, <2>2, <2>3, <2>4 DEF RecomputeFutureTrigger
<1> QED BY <1>1, <1>2 DEF RecordOutcome

\* Neither rescheduling nor a success raises the count of failures.
LEMMA RecomputeKeepsFails ==
  ASSUME NEW a \in Aggregate, NEW t \in Nat
  PROVE  RecomputeFutureTrigger(a, t).fails = a.fails
BY DEF RecomputeFutureTrigger, Reschedule, Aggregate

LEMMA SuccessClearsFails ==
  ASSUME NEW a \in Aggregate, NEW t \in Nat
  PROVE  RecordSuccess(a, t).fails = 0
<1> DEFINE b == [a EXCEPT !.fails = 0, !.degraded = FALSE]
<1>1. b \in Aggregate /\ b.fails = 0 BY DEF Aggregate
<1>2. RecordSuccess(a, t) = IF a.degraded THEN RecomputeFutureTrigger(b, t) ELSE b
  BY DEF RecordSuccess
<1> HIDE DEF b
<1> QED BY <1>1, <1>2, RecomputeKeepsFails

LEMMA RulesStay ==
  ASSUME IInv, rule' = rule
  PROVE  Moves
<1>1. \A r \in exists : rule[r].fails \in Nat BY DEF IInv, ScalarType, Aggregate
<1> QED BY <1>1 DEF Moves, DueMove, FailMove

\* One row is written.
LEMMA OneRuleMoves ==
  ASSUME IInv, NEW r \in Rules, NEW b, rule' = [rule EXCEPT ![r] = b],
         Undisturbed /\ r \in exists => DueMove(r) /\ FailMove(r)
  PROVE  Moves
<1>1. ASSUME NEW q \in exists, q # r PROVE rule'[q] = rule[q] /\ rule[q].fails \in Nat
  BY <1>1 DEF IInv, ScalarType, Aggregate
<1>2. ASSUME NEW q \in exists, q # r PROVE DueMove(q) /\ FailMove(q)
  BY <1>1, <1>2 DEF DueMove, FailMove
<1> QED BY <1>2 DEF Moves

\* The outcome of a run that ended is recorded against the row as it is.
LEMMA OutcomeMoves ==
  ASSUME IInv, NEW r \in Rules, NEW i \in 1..Len(runs[r]), NEW run \in RunRows, NEW a,
         ApplyOutcome(<<r, i>>, run, a), run.status \in Ended, ~runs[r][i].applied,
         Undisturbed => a = rule[r]
  PROVE  Moves
<1> DEFINE done == [run EXCEPT !.applied = TRUE]
           b == RecordOutcome(a, run.status, now)
<1>0. HistoryType /\ now \in Nat BY DEF IInv, ScalarType
<1>1. runs' = [runs EXCEPT ![r][i] = done] /\ rule' = [rule EXCEPT ![r] = b]
  <2>1. Stored(<<r, i>>) BY <1>0, StoredKey
  <2> QED BY <2>1 DEF ApplyOutcome, SaveRule
<1>2. done \in RunRows /\ done.status = run.status /\ done.applied BY DEF RunRows
<1> HIDE DEF done
<1>3. i \in DOMAIN runs'[r] /\ runs'[r][i] = done
  <2>1. runs \in [Rules -> Seq(RunRows)] BY <1>0 DEF HistoryType
  <2>2. /\ runs' \in [Rules -> Seq(RunRows)] /\ Len(runs'[r]) = Len(runs[r])
        /\ runs'[r][i] = done
    BY <1>1, <1>2, <2>1, SeqWrite
  <2> QED BY <2>2
<1>4. ASSUME Undisturbed, r \in exists PROVE DueMove(r) /\ FailMove(r)
  <2>1. a = rule[r] /\ a \in Aggregate /\ Coherent(a) /\ rule'[r] = b
    BY <1>1, <1>4 DEF IInv, ScalarType, RulesInv, RuleGood
  <2>2. DueMove(r)
    <3>1. CASE Due(r)
      <4>1. a.next # Never /\ a.next <= now BY <2>1, <3>1 DEF Due
      <4>2. b.next = a.next \/ ~b.enabled BY <1>0, <2>1, <4>1, OutcomeLeavesDueSlot
      <4> QED BY <2>1, <4>2 DEF DueMove
    <3>2. CASE ~Due(r) BY <3>2 DEF DueMove
    <3> QED BY <3>1, <3>2
  <2>3. FailMove(r)
    <3>1. CASE run.status = "success"
      <4>1. b.fails = 0 BY <1>0, <2>1, <3>1, SuccessClearsFails DEF RecordOutcome
      <4> QED BY <2>1, <4>1 DEF FailMove, Aggregate
    <3>2. CASE run.status # "success"
      <4>1. runs'[r][i].status \in {"failed", "timeout"} /\ runs'[r][i].applied
        BY <1>2, <1>3, <3>2 DEF Ended
      <4> QED BY <1>3, <4>1 DEF FailMove
    <3> QED BY <3>1, <3>2
  <2> QED BY <2>2, <2>3
<1> HIDE DEF b
<1> QED BY <1>1, <1>4, OneRuleMoves

LEMMA FailMoves ==
  ASSUME IInv, NEW r \in Rules, NEW i \in 1..Len(runs[r]), NEW a, Fail(<<r, i>>, a),
         ~runs[r][i].applied, Undisturbed => a = rule[r]
  PROVE  Moves
<1> DEFINE run == [runs[r][i] EXCEPT !.status = "failed"]
<1>1. runs[r][i] \in RunRows BY RunType DEF IInv
<1>2. run \in RunRows /\ run.status = "failed" BY <1>1 DEF RunRows, Terminal, Ended
<1>3. ApplyOutcome(<<r, i>>, run, a) BY DEF Fail, Run
<1> HIDE DEF run
<1> QED BY <1>2, <1>3, OutcomeMoves DEF Ended

LEMMA QueueMoves ==
  ASSUME IInv, NEW r \in Rules, NEW i \in 1..Len(runs[r]), NEW a, QueueOrGiveUp(<<r, i>>, a),
         ~runs[r][i].applied, Undisturbed => a = rule[r]
  PROVE  Moves
<1>1. CASE rule' = rule BY <1>1, RulesStay
<1>2. CASE rule' # rule
  <2>1. Fail(<<r, i>>, a) BY <1>2 DEF QueueOrGiveUp, SaveRun, Unsaved, rowVars
  <2> QED BY <2>1, FailMoves
<1> QED BY <1>1, <1>2

LEMMA VisitRunMoves == ASSUME IInv, NEW k, VisitRun(k) PROVE Moves
<1>1. CASE rule' = rule BY <1>1, RulesStay
<1>2. CASE rule' # rule
  <2>1. /\ Stored(k) /\ stage = "flight" /\ at = "none" /\ k \in todo
        /\ QueueOrGiveUp(k, rule[k[1]]) \/ Fail(k, rule[k[1]])
    BY <1>2 DEF VisitRun, Visit, Backed, Unsaved, rowVars
  <2>2. k \in Rules \X Nat BY <2>1 DEF IInv, StageInv
  <2>3. PICK r \in Rules, i \in Nat : /\ k = <<r, i>> /\ k[1] = r /\ Run(k) = runs[r][i]
                                    /\ i \in 1..Len(runs[r])
    BY <2>1, <2>2, KeyParts DEF IInv
  <2>4. ~runs[r][i].applied
    BY <2>1, <2>3 DEF IInv, ListedInv, Listed, HistoryInv, RunGood, Unended
  <2> QED BY <2>1, <2>3, <2>4, QueueMoves, FailMoves
<1> QED BY <1>1, <1>2

\* What the scheduler holds is the row, unless it was disturbed.
LEMMA HeldIsRow ==
  ASSUME at # "none", Undisturbed
  PROVE  key[1] \in exists /\ mine = rule[key[1]]
BY DEF Undisturbed

LEMMA FinishDoneMoves == ASSUME IInv, FinishDone PROVE Moves
<1>1. at = "finish" BY DEF FinishDone
<1>2. CASE Stored(key)
  <2>1. PICK r \in Rules, i \in Nat :
          /\ i \in 1..Len(runs[r])
          /\ key = <<r, i>> /\ Run(key) = runs[r][i] /\ runs[r][i] \in RunRows
          /\ Awaited(runs[r][i])
    BY <1>1, <1>2, AnswerParts
  <2>2. runs[r][i].status \in Ended /\ ~runs[r][i].applied BY <1>1, <2>1 DEF Awaited
  <2>3. ApplyOutcome(<<r, i>>, runs[r][i], mine) BY <1>2, <2>1 DEF FinishDone
  <2>4. Undisturbed => mine = rule[r] BY <1>1, <2>1, HeldIsRow
  <2> QED BY <2>1, <2>2, <2>3, <2>4, OutcomeMoves
<1>3. CASE ~Stored(key)
  <2>1. rule' = rule BY <1>3 DEF FinishDone, Unsaved, rowVars
  <2> QED BY <2>1, RulesStay
<1> QED BY <1>2, <1>3

LEMMA CreateThrowsMoves == ASSUME IInv, CreateThrows PROVE Moves
<1>1. at = "create" BY DEF CreateThrows
<1>2. CASE Stored(key)
  <2>1. PICK r \in Rules, i \in Nat :
          /\ i \in 1..Len(runs[r])
          /\ key = <<r, i>> /\ RunGood(runs[r][i], counted[r][i]) /\ Awaited(runs[r][i])
    BY <1>1, <1>2, AnswerParts
  <2>2. ~runs[r][i].applied BY <1>1, <2>1 DEF Awaited, RunGood, Unended
  <2>3. QueueOrGiveUp(<<r, i>>, mine) \/ Fail(<<r, i>>, mine)
    BY <1>2, <2>1 DEF CreateThrows
  <2>4. Undisturbed => mine = rule[r] BY <1>1, <2>1, HeldIsRow
  <2> QED BY <2>1, <2>2, <2>3, <2>4, QueueMoves, FailMoves
<1>3. CASE ~Stored(key)
  <2>1. rule' = rule BY <1>3 DEF CreateThrows, Unsaved, rowVars
  <2> QED BY <2>1, RulesStay
<1> QED BY <1>2, <1>3

\* The run of the slot that is left behind is in the history, whatever was decided.
LEMMA CapacityAnswerMoves == ASSUME IInv, CapacityAnswer PROVE Moves
<1> USE DEF IInv
<1> DEFINE r == key[1]
           slot == mine.next
           a == AdvanceTrigger(mine, began)
           open == NewRun("pending", slot)
           b == RecordOutcome(a, "failed", now)
           failed == [open EXCEPT !.status = "failed", !.applied = TRUE]
<1>1. /\ at = "capacity"
      /\ \/ SaveRule(r, a)
            /\ \/ AddRun(r, NewRun("missed", slot), 0)
               \/ AddRun(r, NewRun("skipped", slot), 0)
               \/ AddRun(r, QueueRetry(open), 0)
               \/ AddRun(r, open, 0)
         \/ SaveRule(r, b) /\ AddRun(r, failed, 1)
  BY DEF CapacityAnswer
<1>2. r \in Rules /\ mine \in Aggregate /\ HistoryType
  BY <1>1 DEF StageInv, ScalarType
<1>3. a.fails = mine.fails BY <1>2 DEF AdvanceTrigger, Aggregate
<1>4. /\ NewRun("missed", slot).slot = slot /\ NewRun("skipped", slot).slot = slot
      /\ open.slot = slot /\ QueueRetry(open).slot = slot
      /\ failed.slot = slot /\ failed.status = "failed" /\ failed.applied
  BY DEF NewRun, QueueRetry
<1> HIDE DEF r, slot, a, b, open, failed
<1>5. ASSUME NEW run, run.slot = slot, NEW c, AddRun(r, run, c), NEW e, SaveRule(r, e),
             e.fails = mine.fails \/ (run.status = "failed" /\ run.applied)
      PROVE  Moves
  <2> DEFINE n == Len(runs[r]) + 1
  <2>1. runs' = [runs EXCEPT ![r] = Append(runs[r], run)] /\ rule' = [rule EXCEPT ![r] = e]
    BY <1>5 DEF AddRun, SaveRule
  <2>2. n \in DOMAIN runs'[r] \ DOMAIN runs[r] /\ runs'[r][n] = run
    <3>1. runs'[r] = Append(runs[r], run) /\ runs[r] \in Seq(RunRows)
      BY <1>2, <2>1 DEF HistoryType
    <3> QED BY <3>1
  <2>3. ASSUME Undisturbed, r \in exists PROVE DueMove(r) /\ FailMove(r)
    <3>1. mine = rule[r] BY <1>1, <2>3, HeldIsRow DEF r
    <3>2. rule'[r] = e BY <1>2, <2>1 DEF ScalarType
    <3>3. rule[r].fails \in Nat BY <1>2 DEF ScalarType, Aggregate
    <3>4. DueMove(r)
      <4>1. runs'[r][n].slot = rule[r].next BY <1>5, <2>2, <3>1 DEF slot
      <4> QED BY <2>2, <4>1 DEF DueMove
    <3>5. FailMove(r)
      <4>1. CASE e.fails = mine.fails BY <3>1, <3>2, <3>3, <4>1 DEF FailMove
      <4>2. CASE run.status = "failed" /\ run.applied BY <2>2, <4>2 DEF FailMove
      <4> QED BY <1>5, <4>1, <4>2
    <3> QED BY <3>4, <3>5
  <2> QED BY <1>2, <2>1, <2>3, OneRuleMoves
<1>6. CASE SaveRule(r, b) /\ AddRun(r, failed, 1) BY <1>4, <1>5, <1>6
<1>7. ASSUME NEW run, run.slot = slot, SaveRule(r, a), AddRun(r, run, 0)
      PROVE  Moves
  BY <1>3, <1>5, <1>7
<1> QED BY <1>1, <1>4, <1>6, <1>7

LEMMA DisableMoves == ASSUME IInv, NEW r \in Rules, Disable(r) PROVE Moves
<1> DEFINE b == [rule[r] EXCEPT !.enabled = FALSE, !.next = Never]
<1>1. rule' = [rule EXCEPT ![r] = b] BY DEF Disable
<1>2. rule[r] \in Aggregate /\ rule \in [Rules -> Aggregate] BY DEF IInv, ScalarType
<1>3. ~b.enabled /\ b.fails = rule[r].fails /\ rule[r].fails \in Nat BY <1>2 DEF Aggregate
<1> HIDE DEF b
<1>4. DueMove(r) /\ FailMove(r) BY <1>1, <1>2, <1>3 DEF DueMove, FailMove
<1> QED BY <1>1, <1>4, OneRuleMoves

\* Enabling a rule leaves a slot that is due where it is, and forgets the failures.
LEMMA EnableMoves == ASSUME IInv, NEW r \in Rules, Enable(r) PROVE Moves
<1> DEFINE c == [rule[r] EXCEPT !.enabled = TRUE, !.degraded = FALSE, !.fails = 0]
           b == RecomputeFutureTrigger(c, now)
<1>1. rule' = [rule EXCEPT ![r] = b] BY DEF Enable
<1>2. rule[r] \in Aggregate /\ rule \in [Rules -> Aggregate] /\ now \in Nat
  BY DEF IInv, ScalarType
<1>3. c \in Aggregate /\ c.next = rule[r].next /\ c.fails = 0 BY <1>2 DEF Aggregate
<1> HIDE DEF c
<1>4. b.fails = 0 BY <1>2, <1>3, RecomputeKeepsFails
<1>5. Due(r) => b.next = rule[r].next BY <1>3 DEF Due, RecomputeFutureTrigger
<1> HIDE DEF b
<1>6. rule'[r] = b BY <1>1, <1>2
<1>7. DueMove(r) /\ FailMove(r) BY <1>2, <1>4, <1>5, <1>6 DEF DueMove, FailMove, Aggregate
<1> QED BY <1>1, <1>7, OneRuleMoves

LEMMA RemoveMoves == ASSUME IInv, NEW r \in Rules, Remove(r) PROVE Moves
<1>1. rule' = [rule EXCEPT ![r] = NewRule] /\ r \notin exists' BY DEF Remove
<1>2. rule[r] \in Aggregate /\ rule'[r] = NewRule BY <1>1 DEF IInv, ScalarType
<1>3. NewRule.fails = 0 BY DEF NewRule
<1>4. DueMove(r) /\ FailMove(r) BY <1>1, <1>2, <1>3 DEF DueMove, FailMove, Aggregate
<1> QED BY <1>1, <1>4, OneRuleMoves

\* The process dies between the slot and its run: the slot may be lost, no failure is counted.
LEMMA CrashMoves == ASSUME IInv, Crash PROVE Moves
<1>1. CASE rule' = rule BY <1>1, RulesStay
<1>2. CASE rule' # rule
  <2> DEFINE r == key[1]
             b == AdvanceTrigger(mine, began)
  <2>1. at = "capacity" /\ rule' = [rule EXCEPT ![r] = b] /\ crashes' = crashes + 1
    BY <1>2 DEF Crash, SaveRule
  <2>2. /\ r \in Rules /\ mine \in Aggregate /\ rule \in [Rules -> Aggregate]
        /\ crashes \in Nat
    BY <2>1 DEF IInv, StageInv, ScalarType
  <2>3. b.fails = mine.fails BY <2>2 DEF AdvanceTrigger, Aggregate
  <2> HIDE DEF b, r
  <2>4. DueMove(r) BY <2>1, <2>2 DEF DueMove
  <2>5. ASSUME Undisturbed PROVE FailMove(r)
    <3>1. mine = rule[r] BY <2>1, <2>5, HeldIsRow DEF r
    <3>2. rule'[r] = b /\ rule[r].fails \in Nat BY <2>1, <2>2 DEF Aggregate
    <3> QED BY <2>3, <3>1, <3>2 DEF FailMove
  <2> QED BY <2>1, <2>2, <2>4, <2>5, OneRuleMoves
<1> QED BY <1>1, <1>2

LEMMA NextMoves == ASSUME IInv, [Next]_vars PROVE Moves
<1>1. CASE rule' = rule BY <1>1, RulesStay
<1>2. CASE rule' # rule
  <2>1. \/ FinishDone \/ CreateThrows \/ CapacityAnswer \/ Crash
        \/ \E k \in todo : VisitRun(k)
        \/ \E r \in Rules : Disable(r) \/ Enable(r) \/ Remove(r)
    <3>1. ASSUME NEW k, VisitOutcome(k) \/ VisitRetry(k) \/ VisitRule(k) PROVE rule' = rule
      BY <3>1 DEF VisitOutcome, VisitRetry, VisitRule, Unsaved, rowVars
    <3>2. ASSUME \/ FinishThrows \/ SummaryDone \/ StartDone \/ StartThrows \/ CreateDone
          PROVE  rule' = rule
      BY <3>2 DEF FinishThrows, SummaryDone, StartDone, StartThrows, CreateDone, SaveRun,
                  Unsaved, rowVars
    <3>3. ASSUME NextStage \/ Tick PROVE rule' = rule BY <3>3 DEF NextStage, Tick, rowVars
    <3>4. ASSUME NEW k, RetryDue(k) PROVE rule' = rule BY <3>4 DEF RetryDue
    <3>5. ASSUME NEW c, BoxMoves(c) \/ BoxDestroyed(c) PROVE rule' = rule
      BY <3>5 DEF BoxMoves, BoxDestroyed, rowVars
    <3>6. UNCHANGED vars => rule' = rule BY DEF vars
    <3> QED BY <1>2, <3>1, <3>2, <3>3, <3>4, <3>5, <3>6 DEF Next, VisitSome, Answer
  <2> QED BY <2>1, FinishDoneMoves, CreateThrowsMoves, CapacityAnswerMoves, CrashMoves,
             VisitRunMoves, DisableMoves, EnableMoves, RemoveMoves
<1> QED BY <1>1, <1>2

\* A slot that is due leaves the schedule only with a run in the history, and the failures of a
\* rule go up only with a run that ended badly and whose outcome was not recorded before: for
\* every policy and period, unless a request or a crash got in between (I-AUT-10).
THEOREM RuleMovesOnlyForCause == Spec => RuleMovesForCause
<1>1. IInv /\ [Next]_vars =>
        [\A r \in exists :
           (Undisturbed /\ Due(r) /\ r \in exists' /\ rule'[r].enabled /\ crashes' = crashes
            /\ rule'[r].next # rule[r].next)
             => \E i \in DOMAIN runs'[r] \ DOMAIN runs[r] : runs'[r][i].slot = rule[r].next]_vars
  BY NextMoves DEF Moves, DueMove
<1>2. IInv /\ [Next]_vars =>
        [\A r \in exists :
           Undisturbed /\ rule'[r].fails > rule[r].fails
             => \E i \in DOMAIN runs'[r] :
                  /\ runs'[r][i].status \in {"failed", "timeout"} /\ runs'[r][i].applied
                  /\ i \in DOMAIN runs[r] => ~runs[r][i].applied]_vars
  BY NextMoves DEF Moves, FailMove
<1>3. Spec => DueSlotIsNotEaten BY <1>1, SchedulerInvariant, PTL DEF Spec, DueSlotIsNotEaten
<1>4. Spec => FailuresAreFinal BY <1>2, SchedulerInvariant, PTL DEF Spec, FailuresAreFinal
<1> QED BY <1>3, <1>4 DEF RuleMovesForCause
=============================================================================
