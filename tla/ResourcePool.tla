---------------------------- MODULE ResourcePool ----------------------------
(***************************************************************************)
(* The arithmetic of the resource pool: what the host offers after the     *)
(* safety margin, the overcommitment of its cores and the reservations of  *)
(* the platform itself, whether one more task fits, and how many more of   *)
(* the default task the capacity endpoint promises.                        *)
(*                                                                         *)
(* Cores are counted in 1/10000 of a core, so that a margin and an         *)
(* overcommitment in percent are exact; memory and disk in megabytes.      *)
(***************************************************************************)
EXTENDS Integers, FiniteSetsExt

CONSTANTS
  Sandboxes,     \* task ids
  QuotaOf,       \* the quota of each
  Hosts,         \* what the host may have: [cores, ram, disk, free]
  Policies,      \* [margin, overcommit] in percent and [minFree]
  Reservations,  \* what the platform may hold for itself: a quota
  Quotas         \* what the default task may need

Dimensions == {"cpu", "ram", "disk"}
Unknown == -1      \* diskTotalBytes or diskAvailableBytes is null
Zero == [d \in Dimensions |-> 0]

(* The probes count nothing below zero; ratio() and nonNegativeNumber()    *)
(* check the policy; a ResourceQuota is positive.                          *)
Host == [cores : Nat, ram : Nat, disk : Nat \cup {Unknown}, free : Nat \cup {Unknown}]
Policy == [margin : 0..100, overcommit : Nat, minFree : Nat]
Reservation == [Dimensions -> Nat]
Quota == [Dimensions -> Nat \ {0}]

ASSUME PoolConstants ==
  /\ Hosts \subseteq Host /\ Policies \subseteq Policy
  /\ Reservations \subseteq Reservation
  /\ Quotas \subseteq Quota
  /\ IsFiniteSet(Sandboxes) /\ QuotaOf \in [Sandboxes -> Quota]

(* usedCores, usedRamMb and usedDiskMb: the sums over the registered tasks. *)
Used(A) == [d \in Dimensions |-> MapThenSumSet(LAMBDA t : QuotaOf[t][d], A)]

(* SnapshotOf: the totals of the pool; none is negative.  Of a disk of     *)
(* unknown size everything fits.                                           *)
Total(h, p, r, d) ==
  LET usable == 100 - p.margin IN
  CASE d = "cpu"  -> Max({0, h.cores * usable * p.overcommit - r.cpu})
    [] d = "ram"  -> Max({0, (h.ram * usable) \div 100 - r.ram})
    [] d = "disk" -> Max({0, (h.disk * usable) \div 100 - r.disk})

Bounded(h) == IF h.disk = Unknown THEN {"cpu", "ram"} ELSE Dimensions

FitsStrictly(h, p, r, u, q) == \A d \in Bounded(h) : u[d] + q[d] < Total(h, p, r, d)
Fits(h, p, r, u, q) == \A d \in Bounded(h) : u[d] + q[d] <= Total(h, p, r, d)

(* The ledger has room, and so has the file system. *)
TrySchedule(h, p, r, u, q) ==
  Fits(h, p, r, u, q) /\ ~(h.free # Unknown /\ h.free < p.minFree)

(* How many times q goes into what is left, or into an empty pool. *)
Remaining(h, p, r, u, q) ==
  Min({Max({0, (Total(h, p, r, d) - u[d]) \div q[d]}) : d \in Bounded(h)})

MaxTasks(h, p, r, q) == Min({Total(h, p, r, d) \div q[d] : d \in Bounded(h)})

CapacityOf(h, p, r, u, q) ==
  [remaining |-> IF TrySchedule(h, p, r, u, q) THEN Max({1, Remaining(h, p, r, u, q)}) ELSE 0,
   max       |-> MaxTasks(h, p, r, q)]

(* planQuota's disk: 1.2 times the baseline, rounded up, at least the floor. *)
DiskForBaseline(baselineMb, floorMb) == Max({floorMb, (baselineMb * 12 + 9) \div 10})

-----------------------------------------------------------------------------
(* evaluate: the k-th of the tasks that are registered one after another   *)
AfterAdmitting(k, u, q) == [d \in Dimensions |-> u[d] + k * q[d]]

AdmitsNth(h, p, r, u, q, k) == TrySchedule(h, p, r, AfterAdmitting(k - 1, u, q), q)

(* What the capacity endpoint promises is what the scheduler then admits:  *)
(* neither fewer default tasks nor more.                                   *)
PromiseKept(h, p, r, u, q) ==
  LET promised == CapacityOf(h, p, r, u, q).remaining
  IN  /\ \A k \in 1..promised : AdmitsNth(h, p, r, u, q, k)
      /\ ~AdmitsNth(h, p, r, u, q, promised + 1)

(* The tasks and the platform's own reservations fit on the host together, *)
(* memory and disk without any overcommitment.                             *)
HostHoldsAll(h, p, r, u, q) ==
  TrySchedule(h, p, r, u, q) =>
    LET full == AfterAdmitting(CapacityOf(h, p, r, u, q).remaining, u, q)
    IN  /\ full.ram + r.ram <= h.ram
        /\ h.disk # Unknown => full.disk + r.disk <= h.disk
        /\ (full.cpu + r.cpu) * 100 <= h.cores * 10000 * p.overcommit

(* Of every host, policy, reservation and default task, beside any tasks   *)
(* that are registered: the endpoint and the scheduler agree, and what     *)
(* they admit fits.                                                        *)
ArithmeticIsSound ==
  \A h \in Hosts, p \in Policies, r \in Reservations, q \in Quotas, A \in SUBSET Sandboxes :
    PromiseKept(h, p, r, Used(A), q) /\ HostHoldsAll(h, p, r, Used(A), q)
=============================================================================
