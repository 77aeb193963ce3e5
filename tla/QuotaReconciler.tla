--------------------------- MODULE QuotaReconciler ---------------------------
(***************************************************************************)
(* The order in which the QuotaReconciler visits the active allocations.   *)
(* An incremental sweep takes the oldest of those that were not checked    *)
(* for staleMs, at most a batch of them.  What one check does to the       *)
(* ledger is in ResourceAllocator; here only its verdict counts.           *)
(*                                                                         *)
(* Times are kept as an order: line holds the active allocations, the one  *)
(* checked (or allocated) longest ago first, and the first `due` of them   *)
(* are stale.                                                              *)
(***************************************************************************)
EXTENDS Integers, SequencesExt

CONSTANTS
  Allocations,
  Batch,       \* batchSize, positive
  MaxUnknown   \* bound: allocations whose instance nobody can inspect at once

VARIABLES
  born,   \* the active allocations by allocatedAt
  line,   \* the same by lastCheckedAt, or allocatedAt
  due,    \* how many of them are stale
  fate    \* what verdictFor says of each: new (not yet allocated), alive,
          \* gone, unknown, or done (released)

vars == <<born, line, due, fate>>

Known(a) == fate[a] # "unknown"
Alive(a) == fate[a] = "alive"
Unknown(a) == fate[a] = "unknown"
Active == {a \in Allocations : fate[a] \in {"alive", "gone", "unknown"}}

Init ==
  /\ born = <<>> /\ line = <<>> /\ due = 0
  /\ fate = [a \in Allocations |-> "new"]

(* What check leaves of the allocations it visited: those that are gone    *)
(* are released.                                                           *)
Released(visited) ==
  [a \in Allocations |-> IF a \in visited /\ fate[a] = "gone" THEN "done" ELSE fate[a]]
Remaining(seq, visited) == SelectSeq(seq, LAMBDA a : ~(a \in visited /\ fate[a] = "gone"))

NewestDue == SubSeq(line, IF due > Batch THEN due - Batch + 1 ELSE 1, due)
OldestDue == SubSeq(line, 1, IF due < Batch THEN due ELSE Batch)

(* One check: the unknown ones keep their time, the alive ones get the     *)
(* present one; the rest of the line was not looked at.                    *)
RecheckKeepsGone(visited) ==
  SelectSeq(line, LAMBDA a : a \notin ToSet(visited) \/ Unknown(a)) \o SelectSeq(visited, Known)

Recheck(visited) ==
  LET in(a) == a \in ToSet(visited) IN
  SelectSeq(line, LAMBDA a : ~in(a) \/ Unknown(a)) \o SelectSeq(visited, Alive)

(* reconcileIncremental *)
Sweep ==
  /\ due > 0
  /\ line' = Recheck(OldestDue)
  /\ due' = due - Len(SelectSeq(OldestDue, Known))
  /\ born' = Remaining(born, ToSet(OldestDue))
  /\ fate' = Released(ToSet(OldestDue))

(* reconcile at boot: every allocation, in the order of the database; what *)
(* was known about the last checks is lost with the process.               *)
Boot ==
  /\ line' = SelectSeq(born, Unknown) \o SelectSeq(born, Alive)
  /\ due' \in 0..Len(SelectSeq(born, Unknown))
  /\ born' = Remaining(born, ToSet(born))
  /\ fate' = Released(ToSet(born))

(* Time goes on. *)
Ages ==
  /\ due < Len(line)
  /\ due' = due + 1
  /\ UNCHANGED <<born, line, fate>>

(* reserve and release by the tasks themselves. *)
Allocate(a) ==
  /\ fate[a] = "new"
  /\ fate' = [fate EXCEPT ![a] = "alive"]
  /\ born' = Append(born, a)
  /\ line' = Append(line, a)
  /\ UNCHANGED due

Release(a) ==
  /\ a \in Active
  /\ fate' = [fate EXCEPT ![a] = "done"]
  /\ born' = Remove(born, a)
  /\ line' = Remove(line, a)
  /\ due' = IF a \in ToSet(SubSeq(line, 1, due)) THEN due - 1 ELSE due

(* The instance disappears; or nothing can be said of it: a provider that  *)
(* does not answer, a row whose provisioning ended without a handle.       *)
Disappear(a) ==
  /\ Alive(a)
  /\ fate' = [fate EXCEPT ![a] = "gone"]
  /\ UNCHANGED <<born, line, due>>

Obscure(a) ==
  /\ Alive(a)
  /\ Cardinality({b \in Allocations : Unknown(b)}) < MaxUnknown
  /\ fate' = [fate EXCEPT ![a] = "unknown"]
  /\ UNCHANGED <<born, line, due>>

Reappear(a) ==
  /\ Unknown(a)
  /\ fate' = [fate EXCEPT ![a] = "alive"]
  /\ UNCHANGED <<born, line, due>>

Next ==
  \/ Sweep \/ Boot \/ Ages
  \/ \E a \in Allocations :
       Allocate(a) \/ Release(a) \/ Disappear(a) \/ Obscure(a) \/ Reappear(a)

Spec == Init /\ [][Next]_vars

(* The timer of the sweep fires and the clock goes on. *)
Fairness == WF_vars(Sweep) /\ WF_vars(Ages)

(* What cannot be inspected in the end stays so, like the row whose        *)
(* provisioning died with the process.                                     *)
Settled == <>[][\A a \in Allocations : ~Reappear(a)]_vars

-----------------------------------------------------------------------------
(* Properties.                                                             *)

(* line and born are the active allocations, each once. *)
TypeOK ==
  /\ fate \in [Allocations -> {"new", "alive", "gone", "unknown", "done"}]
  /\ ToSet(born) = Active /\ IsInjective(born)
  /\ ToSet(line) = Active /\ IsInjective(line)
  /\ due \in 0..Len(line)

(* An allocation whose instance is gone is found and released, however     *)
(* many others the sweeps visit before it.                                 *)
GoneIsReleased ==
  \A a \in Allocations : fate[a] = "gone" ~> fate[a] # "gone"

(* The comment on DEFAULT_STALE_MS: every allocation is checked again and  *)
(* again, once it is stale.                                                *)
Stale(a) == a \in ToSet(SubSeq(line, 1, due))
StaleIsChecked ==
  \A a \in Allocations : (Stale(a) /\ Known(a)) ~> ~(Stale(a) /\ Known(a))
=============================================================================
