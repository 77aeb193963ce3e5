------------------------- MODULE MCResourceAllocator -------------------------
(***************************************************************************)
(* Small instances of ResourceAllocator on a host of ResourcePool.         *)
(* Beside it, which allocations the sweep visits: QuotaReconciler shares   *)
(* no variable with the allocator, so each moves while the other rests in  *)
(* its initial state.                                                      *)
(***************************************************************************)
EXTENDS ResourceAllocator

CONSTANTS s1, s3, Allocations, Batch, MaxUnknown

VARIABLES born, line, due, fate
order == <<born, line, due, fate>>
Order == INSTANCE QuotaReconciler

(* Boundaries of one dimension at a time, for the arithmetic of the pool.  *)
SmallHosts ==
  [cores : {1, 2, 4}, ram : {100, 235}, disk : {-1, 90, 300}, free : {-1, 4, 5}]
SmallPolicies ==
  [margin : {0, 15}, overcommit : {100, 150}, minFree : {0, 5}]
PlatformHolds ==
  [cpu : {0}, ram : {0}, disk : {0}] \cup [cpu : {10000}, ram : {100}, disk : {30}]
SmallQuotas ==
  [cpu : {5000, 10000}, ram : {50, 100},
   disk : {DiskForBaseline(0, 20), DiskForBaseline(31, 20)}]

(* Of the two cores of OneHost s1 takes one, s3 both. *)
Cores == [s \in {s1, s3} |-> IF s = s3 THEN 2 ELSE 1]
TaskQuotas == [s \in {s1, s3} |-> [cpu |-> Cores[s] * 10000, ram |-> 50, disk |-> 20]]
OneHost == [cores |-> 2, ram |-> 250, disk |-> 100, free |-> 50]
OnePolicy == [margin |-> 0, overcommit |-> 100, minFree |-> 5]

-----------------------------------------------------------------------------
NothingAllocated == \A a \in Allocations : fate[a] = "new"
NothingAsked ==
  (\A s \in Sandboxes : row[s] = "absent") /\ queue = <<>> /\ jobs = {} /\ crashes = 0

Beside ==
  \/ NothingAllocated /\ Next /\ UNCHANGED order
  \/ NothingAsked /\ Order!Next /\ UNCHANGED vars

BothInit == Init /\ Order!Init

BothSpec ==
  /\ BothInit /\ [][Beside]_<<vars, order>>
  /\ Fairness /\ Order!Fairness

(* The sweep alone, when instances stop changing.                          *)
SettledSweep ==
  /\ BothInit /\ [][Order!Next /\ UNCHANGED vars]_<<vars, order>>
  /\ Order!Fairness /\ Order!Settled

(* An allocation whose instance is gone is found and released, however     *)
(* many others the sweeps visit before it.                                 *)
GoneIsReleased == Order!GoneIsReleased

(* The comment on DEFAULT_STALE_MS: every allocation is checked again and  *)
(* again, once it is stale.  Violated under SettledSweep.                  *)
StaleIsChecked == Order!StaleIsChecked
=============================================================================
