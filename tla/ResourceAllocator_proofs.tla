----------------------- MODULE ResourceAllocator_proofs -----------------------
(***************************************************************************)
(* Proofs about ResourceAllocator: capacity is never oversold, released    *)
(* allocations stay released, a running task keeps its share, the number   *)
(* of tasks that is promised is the number that is admitted, and the       *)
(* allocator implements ResourceLedger.                                    *)
(***************************************************************************)
EXTENDS ResourceAllocator, SequenceTheorems, FiniteSetTheorems, WellFoundedInduction, TLAPS

-----------------------------------------------------------------------------
(* Sums over finite sets.                                                  *)

\* g has the sum of f over every subset of S, whichever member is taken out first.
SumsOver(g, S, f) ==
  /\ g \in [SUBSET S -> Nat] /\ g[{}] = 0
  /\ \A s \in SUBSET S : \A t \in s : g[s] = f[t] + g[s \ {t}]

\* A set of finite sets has one without a proper subset in it.
LEMMA SmallestSet ==
  ASSUME NEW S, IsFiniteSet(S), NEW F \in SUBSET SUBSET S, F # {}
  PROVE  \E A \in F : \A B \in F : B \subseteq A => B = A
<1>1. IsWellFoundedOn(StrictSubsetOrdering(S), SUBSET S)
  BY FS_StrictSubsetOrderingWellFounded, FS_FiniteSubsetsOfFinite
<1>2. \E A \in F : \A B \in F : ~(<<B, A>> \in StrictSubsetOrdering(S))
  BY <1>1, WFMin
<1> QED BY <1>2 DEF StrictSubsetOrdering

LEMMA SumsExist ==
  ASSUME NEW S, IsFiniteSet(S), NEW f \in [S -> Nat]
  PROVE  \E g : SumsOver(g, S, f)
<1> DEFINE F == {A \in SUBSET S : ~ \E g : SumsOver(g, A, f)}
<1> SUFFICES ASSUME F # {} PROVE FALSE
  OBVIOUS
<1>1. PICK A \in F : \A B \in F : B \subseteq A => B = A
  <2>1. F \in SUBSET SUBSET S
    OBVIOUS
  <2> HIDE DEF F
  <2> QED BY <2>1, SmallestSet
<1>2. CASE A = {}
  <2> DEFINE g == [s \in SUBSET A |-> 0]
  <2>1. SumsOver(g, A, f)
    BY <1>2 DEF SumsOver
  <2> HIDE DEF g
  <2> QED BY <2>1
<1>3. CASE A # {}
  <2>1. PICK x \in A : TRUE
    BY <1>3
  <2> DEFINE B == A \ {x}
  <2>2. PICK h : SumsOver(h, B, f)
    BY <1>1, <2>1
  <2> DEFINE g == [s \in SUBSET A |-> h[s \ {x}] + IF x \in s THEN f[x] ELSE 0]
  <2>3. f[x] \in Nat /\ \A t \in A : f[t] \in Nat
    BY <2>1
  <2>4. \A s \in SUBSET A : s \ {x} \in SUBSET B /\ h[s \ {x}] \in Nat
    BY <2>2 DEF SumsOver
  <2>5. g \in [SUBSET A -> Nat]
    <3>1. \A s \in SUBSET A : h[s \ {x}] + (IF x \in s THEN f[x] ELSE 0) \in Nat
      BY <2>3, <2>4
    <3> QED BY <3>1
  <2>6. g[{}] = 0
    <3>1. {} \ {x} = {} /\ x \notin {} /\ h[{}] = 0
      BY <2>2 DEF SumsOver
    <3> QED BY <3>1
  <2>7. ASSUME NEW s \in SUBSET A, NEW t \in s
        PROVE  g[s] = f[t] + g[s \ {t}]
    <3>1. s \ {t} \in SUBSET A /\ g[s] \in Nat /\ g[s \ {t}] \in Nat
      BY <2>5
    <3>2. CASE t = x
      <4>1. x \in s /\ x \notin s \ {t} /\ (s \ {t}) \ {x} = s \ {x}
        BY <3>2
      <4>2. g[s] = h[s \ {x}] + f[x] /\ g[s \ {t}] = h[s \ {x}] + 0
        BY <3>1, <4>1
      <4> HIDE DEF g
      <4> QED BY <2>3, <2>4, <3>2, <4>2
    <3>3. CASE t # x
      <4>1. /\ t \in s \ {x} /\ (s \ {t}) \ {x} = (s \ {x}) \ {t}
            /\ x \in s \ {t} <=> x \in s
        BY <3>3
      <4>2. h[s \ {x}] = f[t] + h[(s \ {t}) \ {x}]
        <5>1. \A r \in SUBSET B : \A u \in r : h[r] = f[u] + h[r \ {u}]
          BY <2>2 DEF SumsOver
        <5>2. h[s \ {x}] = f[t] + h[(s \ {x}) \ {t}]
          BY <2>4, <4>1, <5>1
        <5> QED BY <4>1, <5>2
      <4> DEFINE e == IF x \in s THEN f[x] ELSE 0
      <4>3. g[s] = h[s \ {x}] + e /\ g[s \ {t}] = h[(s \ {t}) \ {x}] + e
        BY <3>1, <4>1
      <4>4. e \in Nat /\ f[t] \in Nat /\ h[(s \ {t}) \ {x}] \in Nat
        BY <2>3, <2>4, <3>1
      <4> HIDE DEF g, e
      <4> QED BY <4>2, <4>3, <4>4
    <3> QED BY <3>2, <3>3
  <2> HIDE DEF g
  <2>8. SumsOver(g, A, f)
    BY <2>5, <2>6, <2>7 DEF SumsOver
  <2> QED BY <2>8
<1> QED BY <1>2, <1>3

-----------------------------------------------------------------------------
(* The arithmetic of the pool.                                             *)

LEMMA GreaterOfTwo ==
  ASSUME NEW a \in Int, NEW b \in Int
  PROVE  Max({a, b}) = IF a >= b THEN a ELSE b
<1> DEFINE m == IF a >= b THEN a ELSE b
<1>1. m \in {a, b} /\ \A y \in {a, b} : m >= y
  OBVIOUS
<1>2. \A x \in {a, b} : (\A y \in {a, b} : x >= y) => x = m
  OBVIOUS
<1> HIDE DEF m
<1>3. Max({a, b}) = m
  BY <1>1, <1>2 DEF Max
<1> QED BY <1>3 DEF m

LEMMA LeastOverBounded ==
  ASSUME NEW h, NEW f \in [Bounded(h) -> Int]
  PROVE  \E d \in Bounded(h) :
           /\ Min({f[e] : e \in Bounded(h)}) = f[d]
           /\ \A e \in Bounded(h) : f[d] <= f[e]
<1>1. PICK d \in Bounded(h) : \A e \in Bounded(h) : f[d] <= f[e]
  <2>1. CASE Bounded(h) = {"cpu", "ram"}
    <3>1. f["cpu"] \in Int /\ f["ram"] \in Int
      BY <2>1
    <3>2. f["cpu"] <= f["ram"] \/ f["ram"] <= f["cpu"]
      BY <3>1
    <3>3. f["cpu"] <= f["cpu"] /\ f["ram"] <= f["ram"]
      BY <3>1
    <3> QED BY <2>1, <3>2, <3>3
  <2>2. CASE Bounded(h) = Dimensions
    <3> DEFINE a == f["cpu"]
               b == f["ram"]
               c == f["disk"]
    <3>1. a \in Int /\ b \in Int /\ c \in Int
      BY <2>2 DEF Dimensions
    <3>2. \/ a <= a /\ a <= b /\ a <= c
          \/ b <= a /\ b <= b /\ b <= c
          \/ c <= a /\ c <= b /\ c <= c
      <4> HIDE DEF a, b, c
      <4> QED BY <3>1
    <3> QED BY <2>2, <3>2 DEF Dimensions
  <2> QED BY <2>1, <2>2 DEF Bounded
<1> DEFINE M == {f[e] : e \in Bounded(h)}
<1>2. f[d] \in M /\ \A y \in M : f[d] <= y
  BY <1>1
<1>3. \A x \in M : (\A y \in M : x <= y) => x = f[d]
  <2>1. M \subseteq Int
    OBVIOUS
  <2> HIDE DEF M
  <2> QED BY <1>2, <2>1
<1> HIDE DEF M
<1>4. Min(M) = f[d]
  BY <1>2, <1>3 DEF Min
<1> QED BY <1>1, <1>4 DEF M

LEMMA UsableType ==
  ASSUME NEW p \in Policy
  PROVE  100 - p.margin \in 0..100 /\ p.overcommit \in Nat
BY DEF Policy

\* No more is offered than the host has.
LEMMA TotalType ==
  ASSUME NEW h \in Host, NEW p \in Policy, NEW r \in Reservation, NEW d \in Bounded(h)
  PROVE  /\ Total(h, p, r, d) \in Nat
         /\ d = "ram" /\ Total(h, p, r, d) > 0 => Total(h, p, r, d) + r.ram <= h.ram
         /\ d = "disk" /\ Total(h, p, r, d) > 0 => Total(h, p, r, d) + r.disk <= h.disk
         /\ d = "cpu" /\ Total(h, p, r, d) > 0 =>
              (Total(h, p, r, d) + r.cpu) * 100 <= h.cores * 10000 * p.overcommit
<1> DEFINE usable == 100 - p.margin
<1>0. usable \in 0..100 /\ p.overcommit \in Nat
  BY UsableType
<1> HIDE DEF usable
<1>1. ASSUME NEW x \in Nat
      PROVE  (x * usable) \div 100 \in Nat /\ (x * usable) \div 100 <= x
  <2>1. x * usable \in Nat /\ x * usable <= x * 100
    BY <1>0
  <2> QED BY <2>1
<1>2. CASE d = "ram"
  <2>1. h.ram \in Nat /\ r.ram \in Nat
    BY DEF Host, Reservation, Dimensions
  <2>2. Total(h, p, r, d) = Max({0, (h.ram * usable) \div 100 - r.ram})
    BY <1>2 DEF Total, usable
  <2> DEFINE t == (h.ram * usable) \div 100
  <2>3. t \in Nat /\ t <= h.ram
    BY <1>1, <2>1
  <2> HIDE DEF t
  <2>4. Max({0, t - r.ram}) = IF 0 >= t - r.ram THEN 0 ELSE t - r.ram
    BY <2>1, <2>3, GreaterOfTwo
  <2> QED BY <1>2, <2>1, <2>2, <2>3, <2>4 DEF t
<1>3. CASE d = "disk"
  <2>1. h.disk \in Nat /\ r.disk \in Nat
    BY <1>3 DEF Host, Reservation, Dimensions, Bounded
  <2>2. Total(h, p, r, d) = Max({0, (h.disk * usable) \div 100 - r.disk})
    BY <1>3 DEF Total, usable
  <2> DEFINE t == (h.disk * usable) \div 100
  <2>3. t \in Nat /\ t <= h.disk
    BY <1>1, <2>1
  <2> HIDE DEF t
  <2>4. Max({0, t - r.disk}) = IF 0 >= t - r.disk THEN 0 ELSE t - r.disk
    BY <2>1, <2>3, GreaterOfTwo
  <2> QED BY <1>3, <2>1, <2>2, <2>3, <2>4 DEF t
<1>4. CASE d = "cpu"
  <2>1. h.cores \in Nat /\ r.cpu \in Nat
    BY DEF Host, Reservation, Dimensions
  <2>2. Total(h, p, r, d) = Max({0, h.cores * usable * p.overcommit - r.cpu})
    BY <1>4 DEF Total, usable
  <2> DEFINE t == h.cores * usable * p.overcommit
  <2>3. t \in Nat /\ t * 100 <= h.cores * 10000 * p.overcommit
    <3> DEFINE k == h.cores * p.overcommit
    <3>1. k \in Nat
      BY <1>0, <2>1
    <3>2. t = k * usable /\ h.cores * 10000 * p.overcommit = k * 10000
      BY <1>0, <2>1
    <3> HIDE DEF k, t
    <3>3. k * usable \in Nat /\ k * usable <= k * 100
      BY <1>0, <3>1
    <3>4. (k * 100) * 100 = k * 10000
      BY <3>1
    <3> QED BY <3>1, <3>2, <3>3, <3>4
  <2> HIDE DEF t
  <2>4. Max({0, t - r.cpu}) = IF 0 >= t - r.cpu THEN 0 ELSE t - r.cpu
    BY <2>1, <2>3, GreaterOfTwo
  <2>5. h.cores * 10000 * p.overcommit \in Nat
    BY <1>0, <2>1
  <2>6. Max({0, t - r.cpu}) > 0 => Max({0, t - r.cpu}) + r.cpu = t
    BY <2>1, <2>3, <2>4
  <2>7. Max({0, t - r.cpu}) \in Nat
    BY <2>1, <2>3, <2>4
  <2> QED BY <1>4, <2>2, <2>3, <2>6, <2>7 DEF t
<1> QED BY <1>2, <1>3, <1>4 DEF Bounded, Dimensions

\* The k-th more fits exactly as long as k is at most the quotient.
LEMMA TimesItFits ==
  ASSUME NEW t \in Int, NEW u \in Nat, NEW q \in Nat \ {0}, NEW k \in Nat
  PROVE  (u + (k - 1) * q) + q <= t <=> k <= (t - u) \div q
<1> DEFINE m == (t - u) \div q
<1>1. m \in Int /\ m * q <= t - u /\ t - u < m * q + q
  <2> DEFINE a == t - u
  <2>1. a \in Int
    OBVIOUS
  <2> HIDE DEF a
  <2>2. a \div q \in Int /\ (a \div q) * q <= a /\ a < (a \div q) * q + q
    BY <2>1
  <2> QED BY <2>2 DEF a
<1> HIDE DEF m
<1>2. (k - 1) * q + q = k * q /\ k * q \in Int /\ m * q \in Int /\ (k - 1) * q \in Int
  BY <1>1
<1>3. k <= m => k * q <= m * q
  BY <1>1
<1>4. m + 1 <= k => m * q + q <= k * q
  BY <1>1
<1>5. (u + (k - 1) * q) + q <= t <=> k * q <= t - u
  BY <1>2
<1>6. k * q <= t - u <=> k <= m
  BY <1>1, <1>2, <1>3, <1>4
<1> QED BY <1>5, <1>6 DEF m

\* A dimension of a ledger, a reservation or a quota.
LEMMA DimensionType ==
  ASSUME NEW h \in Host, NEW d \in Bounded(h)
  PROVE  d \in Dimensions
BY DEF Bounded, Dimensions

LEMMA NthFits ==
  ASSUME NEW h \in Host, NEW p \in Policy, NEW r \in Reservation,
         NEW u \in [Dimensions -> Nat], NEW q \in Quota, NEW k \in Nat
  PROVE  Fits(h, p, r, AfterAdmitting(k - 1, u, q), q) <=>
           \A d \in Bounded(h) : k <= (Total(h, p, r, d) - u[d]) \div q[d]
<1>1. ASSUME NEW d \in Bounded(h)
      PROVE  AfterAdmitting(k - 1, u, q)[d] + q[d] <= Total(h, p, r, d) <=>
               k <= (Total(h, p, r, d) - u[d]) \div q[d]
  <2>1. u[d] \in Nat /\ q[d] \in Nat \ {0} /\ AfterAdmitting(k - 1, u, q)[d] = u[d] + (k - 1) * q[d]
    BY DimensionType DEF AfterAdmitting, Quota
  <2>2. Total(h, p, r, d) \in Int
    BY TotalType
  <2> QED BY <2>1, <2>2, TimesItFits
<1> QED BY <1>1 DEF Fits

\* Beside u the pool takes exactly n more of q.
TakesExactly(h, p, r, u, q, n) ==
  /\ n \in Nat
  /\ \A k \in Nat : Fits(h, p, r, AfterAdmitting(k - 1, u, q), q) <=> k <= n

LEMMA FitsBesideNone ==
  ASSUME NEW h \in Host, NEW u \in [Dimensions -> Nat], NEW q \in Quota
  PROVE  AfterAdmitting(0, u, q) = u
<1>1. \A d \in Dimensions : u[d] + 0 * q[d] = u[d]
  BY DEF Quota
<1> QED BY <1>1 DEF AfterAdmitting

LEMMA RemainingExact ==
  ASSUME NEW h \in Host, NEW p \in Policy, NEW r \in Reservation,
         NEW u \in [Dimensions -> Nat], NEW q \in Quota, Fits(h, p, r, u, q)
  PROVE  /\ Max({1, Remaining(h, p, r, u, q)}) = Remaining(h, p, r, u, q)
         /\ Remaining(h, p, r, u, q) \in Nat \ {0}
         /\ TakesExactly(h, p, r, u, q, Remaining(h, p, r, u, q))
<1> DEFINE n(d) == (Total(h, p, r, d) - u[d]) \div q[d]
           f == [d \in Bounded(h) |-> Max({0, n(d)})]
           m == Remaining(h, p, r, u, q)
<1>1. \A d \in Bounded(h) : n(d) \in Int /\ 1 <= n(d)
  <2>1. 1 - 1 = 0
    OBVIOUS
  <2>2. Fits(h, p, r, AfterAdmitting(1 - 1, u, q), q)
    BY <2>1, FitsBesideNone
  <2>3. \A d \in Bounded(h) : 1 <= n(d)
    BY <2>2, NthFits
  <2>4. \A d \in Bounded(h) : n(d) \in Int
    <3> TAKE d \in Bounded(h)
    <3>1. Total(h, p, r, d) - u[d] \in Int /\ q[d] \in Nat \ {0}
      BY TotalType, DimensionType DEF Quota
    <3> QED BY <3>1
  <2> QED BY <2>3, <2>4
<1>2. m = Min({Max({0, n(d)}) : d \in Bounded(h)})
  BY DEF Remaining
<1>3. \A k \in Nat : Fits(h, p, r, AfterAdmitting(k - 1, u, q), q) <=> \A d \in Bounded(h) : k <= n(d)
  BY NthFits
<1> HIDE DEF n, m
<1>4. \A d \in Bounded(h) : Max({0, n(d)}) = n(d)
  <2> TAKE d \in Bounded(h)
  <2>1. n(d) \in Int /\ 1 <= n(d)
    BY <1>1
  <2>2. Max({0, n(d)}) = IF 0 >= n(d) THEN 0 ELSE n(d)
    BY <2>1, GreaterOfTwo
  <2> QED BY <2>1, <2>2
<1>5. f \in [Bounded(h) -> Int] /\ \A d \in Bounded(h) : f[d] = n(d)
  BY <1>1, <1>4
<1>6. {Max({0, n(d)}) : d \in Bounded(h)} = {f[d] : d \in Bounded(h)}
  OBVIOUS
<1> HIDE DEF f
<1>7. PICK d \in Bounded(h) : m = f[d] /\ \A e \in Bounded(h) : f[d] <= f[e]
  BY <1>2, <1>5, <1>6, LeastOverBounded
<1>8. m = n(d) /\ \A e \in Bounded(h) : m <= n(e)
  BY <1>5, <1>7
<1>9. m \in Nat \ {0}
  BY <1>1, <1>8
<1>10. Max({1, m}) = m
  <2>1. Max({1, m}) = IF 1 >= m THEN 1 ELSE m
    BY <1>9, GreaterOfTwo
  <2> QED BY <1>9, <2>1
<1>11. \A k \in Nat : (\A e \in Bounded(h) : k <= n(e)) <=> k <= m
  <2> TAKE k \in Nat
  <2>1. ASSUME k <= m, NEW e \in Bounded(h) PROVE k <= n(e)
    BY <1>1, <1>8, <1>9, <2>1
  <2>2. ASSUME \A e \in Bounded(h) : k <= n(e) PROVE k <= m
    BY <1>8, <2>2
  <2> QED BY <2>1, <2>2
<1>12. TakesExactly(h, p, r, u, q, m)
  BY <1>3, <1>9, <1>11 DEF TakesExactly
<1> QED BY <1>9, <1>10, <1>12 DEF m

LEMMA PromiseIsKept ==
  ASSUME NEW h \in Host, NEW p \in Policy, NEW r \in Reservation,
         NEW u \in [Dimensions -> Nat], NEW q \in Quota
  PROVE  PromiseKept(h, p, r, u, q)
<1> DEFINE n == CapacityOf(h, p, r, u, q).remaining
           Free == ~(h.free # Unknown /\ h.free < p.minFree)
<1>1. TrySchedule(h, p, r, u, q) <=> Fits(h, p, r, u, q) /\ Free
  BY DEF TrySchedule
<1>2. \A k : AdmitsNth(h, p, r, u, q, k) <=> Fits(h, p, r, AfterAdmitting(k - 1, u, q), q) /\ Free
  BY DEF AdmitsNth, TrySchedule
<1>3. n = IF TrySchedule(h, p, r, u, q) THEN Max({1, Remaining(h, p, r, u, q)}) ELSE 0
  BY DEF CapacityOf
<1>4. PromiseKept(h, p, r, u, q) <=>
        (\A k \in 1..n : AdmitsNth(h, p, r, u, q, k)) /\ ~AdmitsNth(h, p, r, u, q, n + 1)
  BY DEF PromiseKept
<1> HIDE DEF n, Free
<1>5. CASE TrySchedule(h, p, r, u, q)
  <2>1. n \in Nat /\ TakesExactly(h, p, r, u, q, n) /\ Free
    BY <1>1, <1>3, <1>5, RemainingExact
  <2>2. \A k \in 1..n : AdmitsNth(h, p, r, u, q, k)
    BY <1>2, <2>1 DEF TakesExactly
  <2>3. n + 1 \in Nat /\ ~(n + 1 <= n)
    BY <2>1
  <2>4. ~Fits(h, p, r, AfterAdmitting((n + 1) - 1, u, q), q)
    BY <2>1, <2>3 DEF TakesExactly
  <2> QED BY <1>2, <1>4, <2>2, <2>4
<1>6. CASE ~TrySchedule(h, p, r, u, q)
  <2>1. n = 0 /\ 1..n = {} /\ n + 1 = 1 /\ 1 - 1 = 0
    BY <1>3, <1>6
  <2>2. ~AdmitsNth(h, p, r, u, q, 1)
    BY <1>1, <1>2, <1>6, <2>1, FitsBesideNone
  <2> QED BY <1>4, <2>1, <2>2
<1> QED BY <1>5, <1>6

LEMMA HostIsEnough ==
  ASSUME NEW h \in Host, NEW p \in Policy, NEW r \in Reservation,
         NEW u \in [Dimensions -> Nat], NEW q \in Quota
  PROVE  HostHoldsAll(h, p, r, u, q)
<1> DEFINE n == CapacityOf(h, p, r, u, q).remaining
           full == AfterAdmitting(n, u, q)
<1> SUFFICES ASSUME TrySchedule(h, p, r, u, q)
             PROVE  /\ full.ram + r.ram <= h.ram
                    /\ h.disk # Unknown => full.disk + r.disk <= h.disk
                    /\ (full.cpu + r.cpu) * 100 <= h.cores * 10000 * p.overcommit
  BY DEF HostHoldsAll
<1>1. n = Remaining(h, p, r, u, q) /\ n \in Nat \ {0} /\ TakesExactly(h, p, r, u, q, n)
  BY RemainingExact DEF CapacityOf, TrySchedule
<1>2. full \in [Dimensions -> Nat] /\ \A d \in Dimensions : full[d] = u[d] + n * q[d]
  <2> HIDE DEF n
  <2>1. \A d \in Dimensions : u[d] + n * q[d] \in Nat
    BY <1>1 DEF Quota
  <2> QED BY <2>1 DEF AfterAdmitting
<1> HIDE DEF n
<1>3. ASSUME NEW d \in Bounded(h)
      PROVE  full[d] \in Nat /\ full[d] <= Total(h, p, r, d) /\ Total(h, p, r, d) > 0
  <2>1. d \in Dimensions /\ u[d] \in Nat /\ q[d] \in Nat \ {0}
    BY DimensionType DEF Quota
  <2>2. Fits(h, p, r, AfterAdmitting(n - 1, u, q), q)
    BY <1>1 DEF TakesExactly
  <2>3. AfterAdmitting(n - 1, u, q)[d] = u[d] + (n - 1) * q[d]
    BY <2>1 DEF AfterAdmitting
  <2>4. (u[d] + (n - 1) * q[d]) + q[d] <= Total(h, p, r, d)
    BY <2>2, <2>3 DEF Fits
  <2>5. (n - 1) * q[d] + q[d] = n * q[d] /\ (n - 1) * q[d] \in Nat /\ n * q[d] \in Nat
    BY <1>1, <2>1
  <2>6. Total(h, p, r, d) \in Nat
    BY TotalType
  <2> QED BY <1>2, <2>1, <2>4, <2>5, <2>6
<1> HIDE DEF full
<1>4. "cpu" \in Bounded(h) /\ "ram" \in Bounded(h) /\ (h.disk # Unknown => "disk" \in Bounded(h))
  BY DEF Bounded, Dimensions
<1>5. full.ram + r.ram <= h.ram
  <2>1. full.ram \in Nat /\ full.ram <= Total(h, p, r, "ram") /\ Total(h, p, r, "ram") \in Nat
    BY <1>3, <1>4, TotalType
  <2>2. Total(h, p, r, "ram") + r.ram <= h.ram
    BY <1>3, <1>4, TotalType
  <2>3. r.ram \in Nat /\ h.ram \in Nat
    BY DEF Host, Reservation, Dimensions
  <2> QED BY <2>1, <2>2, <2>3
<1>6. ASSUME h.disk # Unknown PROVE full.disk + r.disk <= h.disk
  <2>1. full.disk \in Nat /\ full.disk <= Total(h, p, r, "disk") /\ Total(h, p, r, "disk") \in Nat
    BY <1>3, <1>4, <1>6, TotalType
  <2>2. Total(h, p, r, "disk") + r.disk <= h.disk
    BY <1>3, <1>4, <1>6, TotalType
  <2>3. r.disk \in Nat /\ h.disk \in Nat
    BY <1>6 DEF Host, Reservation, Dimensions
  <2> QED BY <2>1, <2>2, <2>3
<1>7. (full.cpu + r.cpu) * 100 <= h.cores * 10000 * p.overcommit
  <2> DEFINE b == h.cores * 10000 * p.overcommit
  <2>1. full.cpu \in Nat /\ full.cpu <= Total(h, p, r, "cpu") /\ Total(h, p, r, "cpu") \in Nat
    BY <1>3, <1>4, TotalType
  <2>2. (Total(h, p, r, "cpu") + r.cpu) * 100 <= b
    BY <1>3, <1>4, TotalType
  <2>3. r.cpu \in Nat /\ b \in Nat
    BY UsableType DEF Host, Reservation, Dimensions
  <2> HIDE DEF b
  <2>4. (full.cpu + r.cpu) * 100 <= b
    BY <2>1, <2>2, <2>3
  <2> QED BY <2>4 DEF b
<1> QED BY <1>5, <1>6, <1>7

-----------------------------------------------------------------------------
(* What the registered tasks use.                                          *)

\* What the fold of the community modules computes.
LEMMA FoldIsSum ==
  ASSUME NEW d \in Dimensions, NEW g, NEW A \in SUBSET Sandboxes,
         SumsOver(g, Sandboxes, [t \in Sandboxes |-> QuotaOf[t][d]])
  PROVE  Used(A)[d] = g[A]
<1> DEFINE f == [t \in Sandboxes |-> QuotaOf[t][d]]
           S == Sandboxes
           c(s) == CHOOSE x \in s : TRUE
           Folds(h) == h = [s \in SUBSET A |-> IF s = {} THEN 0 ELSE QuotaOf[c(s)][d] + h[s \ {c(s)}]]
           G == [s \in SUBSET A |-> g[s]]
           h == CHOOSE k : Folds(k)
<1>0. IsFiniteSet(S) /\ A \in SUBSET S /\ \A t \in S : f[t] = QuotaOf[t][d]
  BY PoolConstants
<1>1. Used(A)[d] = h[A]
  BY DEF Used, MapThenSumSet, MapThenFoldSet
<1>11. SumsOver(g, S, f)
  OBVIOUS
<1> HIDE DEF S, f
<1>2. \A s \in SUBSET A : s # {} => c(s) \in s /\ s \ {c(s)} \in SUBSET A
  OBVIOUS
<1> HIDE DEF c
<1>3. Folds(G)
  <2>1. ASSUME NEW s \in SUBSET A
        PROVE  g[s] = IF s = {} THEN 0 ELSE QuotaOf[c(s)][d] + G[s \ {c(s)}]
    <3>1. CASE s = {}
      BY <1>11, <3>1 DEF SumsOver
    <3>2. CASE s # {}
      <4>1. c(s) \in s /\ s \in SUBSET S /\ c(s) \in S
        BY <1>0, <1>2, <3>2
      <4>2. g[s] = f[c(s)] + g[s \ {c(s)}]
        BY <1>11, <4>1 DEF SumsOver
      <4> QED BY <1>0, <1>2, <3>2, <4>1, <4>2
    <3> QED BY <3>1, <3>2
  <2> QED BY <2>1
<1> HIDE DEF G
<1>4. Folds(h)
  BY <1>3
<1> HIDE DEF h
<1> DEFINE F == {s \in SUBSET A : h[s] # g[s]}
<1>5. SUFFICES ASSUME F # {} PROVE FALSE
  BY <1>1
<1>6. PICK s \in F : \A r \in F : r \subseteq s => r = s
  <2>1. F \in SUBSET SUBSET S
    BY <1>0
  <2> HIDE DEF F
  <2> QED BY <1>0, <1>5, <2>1, SmallestSet
<1>7. h[s] = IF s = {} THEN 0 ELSE QuotaOf[c(s)][d] + h[s \ {c(s)}]
  BY <1>4, <1>6
<1>8. s # {}
  BY <1>11, <1>6, <1>7 DEF SumsOver
<1>9. h[s \ {c(s)}] = g[s \ {c(s)}]
  BY <1>2, <1>6, <1>8
<1>10. g[s] = QuotaOf[c(s)][d] + g[s \ {c(s)}]
  <2>1. c(s) \in s /\ s \in SUBSET S /\ c(s) \in S
    BY <1>0, <1>2, <1>6, <1>8
  <2> QED BY <1>0, <1>11, <2>1 DEF SumsOver
<1> QED BY <1>6, <1>7, <1>8, <1>9, <1>10

LEMMA UsedIsSum ==
  ASSUME NEW d \in Dimensions
  PROVE  \E g : /\ SumsOver(g, Sandboxes, [t \in Sandboxes |-> QuotaOf[t][d]])
                /\ \A A \in SUBSET Sandboxes : Used(A)[d] = g[A]
<1> DEFINE f == [t \in Sandboxes |-> QuotaOf[t][d]]
<1>1. f \in [Sandboxes -> Nat] /\ IsFiniteSet(Sandboxes)
  BY PoolConstants DEF Quota
<1>2. PICK g : SumsOver(g, Sandboxes, f)
  <2> HIDE DEF f
  <2> QED BY <1>1, SumsExist
<1>3. \A A \in SUBSET Sandboxes : Used(A)[d] = g[A]
  BY <1>2, FoldIsSum
<1> QED BY <1>2, <1>3

LEMMA UsedFacts ==
  /\ Used({}) = Zero
  /\ \A A \in SUBSET Sandboxes :
       /\ Used(A) \in [Dimensions -> Nat]
       /\ \A t \in A, d \in Dimensions : Used(A)[d] = Used(A \ {t})[d] + QuotaOf[t][d]
<1>1. ASSUME NEW d \in Dimensions, NEW A \in SUBSET Sandboxes
      PROVE  /\ Used({})[d] = 0 /\ Used(A)[d] \in Nat
             /\ \A t \in A : Used(A)[d] = Used(A \ {t})[d] + QuotaOf[t][d]
  <2> DEFINE f == [t \in Sandboxes |-> QuotaOf[t][d]]
  <2>1. PICK g : SumsOver(g, Sandboxes, f) /\ \A B \in SUBSET Sandboxes : Used(B)[d] = g[B]
    BY UsedIsSum
  <2>2. \A t \in Sandboxes : f[t] = QuotaOf[t][d] /\ f[t] \in Nat
    BY PoolConstants DEF Quota
  <2> HIDE DEF f
  <2>3. Used({})[d] = 0 /\ Used(A)[d] \in Nat
    BY <2>1 DEF SumsOver
  <2>4. ASSUME NEW t \in A PROVE Used(A)[d] = Used(A \ {t})[d] + QuotaOf[t][d]
    <3>1. g[A] = f[t] + g[A \ {t}] /\ g[A \ {t}] \in Nat
      BY <2>1 DEF SumsOver
    <3> QED BY <2>1, <2>2, <3>1
  <2> QED BY <2>3, <2>4
<1>2. \A A : Used(A) = [d \in Dimensions |-> Used(A)[d]]
  BY DEF Used
<1>3. Used({}) = Zero
  BY <1>1, <1>2 DEF Zero
<1> QED BY <1>1, <1>2, <1>3

\* Fewer tasks use no more.
LEMMA UsedMonotone ==
  ASSUME NEW B \in SUBSET Sandboxes, NEW A \in SUBSET B, NEW d \in Dimensions
  PROVE  Used(A)[d] <= Used(B)[d]
<1> DEFINE F == {C \in SUBSET Sandboxes : A \subseteq C /\ ~(Used(A)[d] <= Used(C)[d])}
<1>1. SUFFICES ASSUME F # {} PROVE FALSE
  OBVIOUS
<1>2. PICK C \in F : \A D \in F : D \subseteq C => D = C
  <2>1. F \in SUBSET SUBSET Sandboxes
    OBVIOUS
  <2> HIDE DEF F
  <2> QED BY <1>1, <2>1, PoolConstants, SmallestSet
<1>3. Used(A)[d] \in Nat /\ Used(C)[d] \in Nat
  BY <1>2, UsedFacts
<1>4. PICK t \in C : t \notin A
  <2>1. A \subseteq C /\ Used(A)[d] # Used(C)[d]
    BY <1>2, <1>3
  <2> HIDE DEF F
  <2>2. A # C
    BY <2>1
  <2> QED BY <2>1, <2>2
<1>5. C \ {t} \in SUBSET Sandboxes /\ A \subseteq C \ {t} /\ C \ {t} # C
  BY <1>2, <1>4
<1>6. Used(A)[d] <= Used(C \ {t})[d]
  BY <1>2, <1>5
<1>7. Used(C)[d] = Used(C \ {t})[d] + QuotaOf[t][d] /\ Used(C \ {t})[d] \in Nat /\ QuotaOf[t][d] \in Nat
  BY <1>2, <1>5, UsedFacts, PoolConstants DEF Quota
<1> QED BY <1>2, <1>3, <1>6, <1>7

LEMMA ArithmeticSound == ArithmeticIsSound
<1> SUFFICES ASSUME NEW h \in Hosts, NEW p \in Policies, NEW r \in Reservations, NEW q \in Quotas,
                    NEW A \in SUBSET Sandboxes
             PROVE  PromiseKept(h, p, r, Used(A), q) /\ HostHoldsAll(h, p, r, Used(A), q)
  BY DEF ArithmeticIsSound
<1>1. h \in Host /\ p \in Policy /\ r \in Reservation /\ q \in Quota
  BY PoolConstants
<1>2. Used(A) \in [Dimensions -> Nat]
  BY UsedFacts
<1> QED BY <1>1, <1>2, PromiseIsKept, HostIsEnough

-----------------------------------------------------------------------------
(* What fits on the host.                                                  *)

NodeTotal(d) == Total(Node, NodePolicy, Platform, d)

LEMMA NodeTotalType ==
  ASSUME NEW d \in Bounded(Node)
  PROVE  NodeTotal(d) \in Nat /\ d \in Dimensions
BY AllocatorConstants, TotalType, DimensionType DEF NodeTotal

LEMMA InSchedulable ==
  ASSUME NEW A \in SUBSET Sandboxes
  PROVE  A \in Schedulable <=> \A d \in Bounded(Node) : Used(A)[d] <= NodeTotal(d)
<1>1. \A d \in Bounded(Node) : Used(A)[d] + Zero[d] = Used(A)[d]
  BY NodeTotalType, UsedFacts DEF Zero
<1> QED BY <1>1 DEF Schedulable, Fits, NodeTotal

\* Every quota is positive, so fewer tasks fit whenever more do.
LEMMA SchedulableIsClosed ==
  /\ {} \in Schedulable
  /\ \A A \in Schedulable : \A B \in SUBSET A : B \in Schedulable
<1>1. {} \in Schedulable
  <2>1. \A d \in Bounded(Node) : Used({})[d] <= NodeTotal(d)
    BY UsedFacts, NodeTotalType DEF Zero
  <2> QED BY <2>1, InSchedulable
<1>2. ASSUME NEW A \in Schedulable, NEW B \in SUBSET A
      PROVE  B \in Schedulable
  <2>1. A \in SUBSET Sandboxes /\ B \in SUBSET Sandboxes
    BY DEF Schedulable
  <2>2. ASSUME NEW d \in Bounded(Node) PROVE Used(B)[d] <= NodeTotal(d)
    <3>1. Used(B)[d] <= Used(A)[d] /\ Used(A)[d] <= NodeTotal(d)
      BY <2>1, NodeTotalType, UsedMonotone, InSchedulable
    <3>2. Used(B)[d] \in Nat /\ Used(A)[d] \in Nat /\ NodeTotal(d) \in Nat
      BY <2>1, NodeTotalType, UsedFacts
    <3> QED BY <3>1, <3>2
  <2> QED BY <2>1, <2>2, InSchedulable
<1> QED BY <1>1, <1>2

\* What is admitted beside what the job read fits with it.
LEMMA AdmittedFits ==
  ASSUME NEW j \in Job, Admits(j)
  PROVE  j.seen \cup {j.who} \in Schedulable
<1> DEFINE A == j.seen
           B == j.seen \cup {j.who}
<1>1. A \in SUBSET Sandboxes /\ B \in SUBSET Sandboxes /\ j.who \in Sandboxes
  BY DEF Job
<1>2. ASSUME NEW d \in Bounded(Node) PROVE Used(B)[d] <= NodeTotal(d)
  <2>1. Used(A)[d] + QuotaOf[j.who][d] <= NodeTotal(d)
    BY DEF Admits, Fits, NodeTotal
  <2>2. /\ Used(A)[d] \in Nat /\ Used(B)[d] \in Nat /\ QuotaOf[j.who][d] \in Nat /\ NodeTotal(d) \in Nat
        /\ d \in Dimensions
    BY <1>1, NodeTotalType, UsedFacts, PoolConstants DEF Quota
  <2>3. Used(B)[d] <= Used(A)[d] + QuotaOf[j.who][d]
    <3>1. CASE j.who \in j.seen
      <4>1. B = A
        BY <3>1
      <4> HIDE DEF A, B
      <4> QED BY <2>2, <4>1
    <3>2. CASE j.who \notin j.seen
      <4>1. B \ {j.who} = A /\ j.who \in B
        BY <3>2
      <4> HIDE DEF A, B
      <4>2. Used(B)[d] = Used(B \ {j.who})[d] + QuotaOf[j.who][d]
        BY <1>1, <2>2, <4>1, UsedFacts
      <4>3. Used(B \ {j.who})[d] = Used(A)[d]
        BY <4>1
      <4> QED BY <2>2, <4>2, <4>3
    <3> QED BY <3>1, <3>2
  <2> HIDE DEF A, B
  <2> QED BY <2>1, <2>2, <2>3
<1> QED BY <1>1, <1>2, InSchedulable

USE DEF Kinds, Request, Job, Nobody

-----------------------------------------------------------------------------
(* Types.                                                                  *)

LEMMA SubmitType ==
  ASSUME queue \in Seq(Request), NEW kind \in Kinds, NEW s \in Sandboxes, Submit(kind, s)
  PROVE  queue' \in Seq(Request)
<1>1. [kind |-> kind, who |-> s] \in Request
  OBVIOUS
<1> QED BY <1>1, AppendProperties DEF Submit

LEMMA BeginType ==
  ASSUME TypeOK, Begin
  PROVE  TypeOK'
<1>1. queue \in Seq(Request) /\ queue # <<>> BY DEF TypeOK, Begin
<1>2. Head(queue) \in Request /\ Tail(queue) \in Seq(Request)
  BY <1>1, HeadTailProperties
<1>3. queue' \in Seq(Request) BY <1>2 DEF Begin
<1>4. [kind |-> Head(queue).kind, who |-> Head(queue).who, seen |-> Holding] \in Job
  BY <1>2 DEF Holding
<1>5. jobs' \subseteq Job BY <1>4 DEF TypeOK, Begin
<1> QED BY <1>3, <1>5 DEF TypeOK, Begin

LEMMA FinishType ==
  ASSUME TypeOK, NEW j \in jobs, Finish(j)
  PROVE  TypeOK'
<1> USE DEF TypeOK
<1>0. j \in Job /\ j.who \in Sandboxes OBVIOUS
<1>1. PICK ok : Reserve(j, ok) \/ Release(j, ok) \/ Reconcile(j, ok) BY DEF Finish
<1>2. jobs' \subseteq Job BY <1>1 DEF Reserve, Release, Reconcile, Leave
<1>3. sweep' \subseteq Sandboxes BY <1>1 DEF Reserve, Release, Reconcile
<1>4. UNCHANGED <<missing, queue, look, crashes>> BY <1>1 DEF Reserve, Release, Reconcile
<1>5. row' \in [Sandboxes -> {"absent", "live", "over", "deleted"}]
  BY <1>0, <1>1 DEF Reserve, Release, Reconcile
<1>6. alloc' \in [Sandboxes -> {"none", "active", "released", "dropped"}]
  BY <1>0, <1>1 DEF Reserve, Release, Reconcile, Save
<1>7. mark' \in [Sandboxes -> {"pending", "confirmed", "orphaned"}]
  BY <1>0, <1>1 DEF Reserve, Release, Reconcile, Save
<1> QED BY <1>2, <1>3, <1>4, <1>5, <1>6, <1>7

LEMMA TypeInductive == TypeOK /\ [Next]_vars => TypeOK'
<1> SUFFICES ASSUME TypeOK, [Next]_vars PROVE TypeOK' OBVIOUS
<1>1. CASE Begin BY <1>1, BeginType
<1>2. CASE \E j \in jobs : Finish(j) BY <1>2, FinishType
<1>3. ASSUME NEW s \in Sandboxes, AskCreate(s) \/ AskRelease(s) PROVE TypeOK'
  <2>1. queue' \in Seq(Request) BY <1>3, SubmitType DEF AskCreate, AskRelease, TypeOK
  <2> QED BY <1>3, <2>1 DEF AskCreate, AskRelease, TypeOK
<1>4. ASSUME NEW s \in Sandboxes, SweepNext(s) PROVE TypeOK'
  <2>1. queue' \in Seq(Request) BY <1>4, SubmitType DEF SweepNext, TypeOK
  <2> QED BY <1>4, <2>1 DEF SweepNext, TypeOK
<1>5. ASSUME NEW s \in Sandboxes, TaskOver(s) \/ InstanceLost(s) \/ TaskDeleted(s) PROVE TypeOK'
  BY <1>5 DEF TaskOver, InstanceLost, TaskDeleted, TypeOK
<1>6. CASE SweepStart
  <2>1. sweep' \subseteq Sandboxes BY <1>6 DEF SweepStart, Holding
  <2> QED BY <1>6, <2>1 DEF SweepStart, TypeOK
<1>7. CASE SweepAnswer
  <2>0. look \in Sandboxes BY <1>7 DEF SweepAnswer, TypeOK
  <2>1. queue' \in Seq(Request)
    <3>1. \/ Submit("confirm", look) \/ Submit("orphan", look) \/ UNCHANGED queue
      BY <1>7 DEF SweepAnswer
    <3> QED BY <2>0, <3>1, SubmitType DEF TypeOK
  <2> QED BY <1>7, <2>1 DEF SweepAnswer, TypeOK
<1>8. CASE Restart
  BY <1>8, EmptySeq DEF Restart, TypeOK, Holding
<1>9. CASE UNCHANGED vars BY <1>9 DEF vars, TypeOK
<1> QED BY <1>1, <1>2, <1>3, <1>4, <1>5, <1>6, <1>7, <1>8, <1>9 DEF Next

(* Every variable keeps its type: the requests, the jobs and the ledger. *)
THEOREM TypeCorrect == Spec => []TypeOK
<1>1. Init => TypeOK BY EmptySeq DEF Init, TypeOK
<1> QED BY <1>1, TypeInductive, PTL DEF Spec

-----------------------------------------------------------------------------
(* The inductive invariant.                                                *)

(* The mutex holds one request at a time; what the ledger has lost since   *)
(* the job read it went with a deleted project, and nothing was added.     *)
MutexInv ==
  \A j \in jobs :
    /\ \A k \in jobs : j = k
    /\ Holding \subseteq j.seen
    /\ \A s \in j.seen : alloc[s] \in {"active", "dropped"}

(* An allocation exists as long as its row does. *)
RowInv ==
  \A s \in Sandboxes :
    /\ alloc[s] = "none" <=> row[s] = "absent"
    /\ alloc[s] = "dropped" <=> row[s] = "deleted"

(* A task has no row while it waits for its capacity, and waits once; an   *)
(* orphan is gone or over when its release is asked for, and stays so.     *)
Lost(s) == row[s] # "absent" /\ (row[s] = "live" => s \in missing)
WaitsOnce(i) ==
  queue[i].kind = "create" =>
    /\ row[queue[i].who] = "absent"
    /\ \A k \in DOMAIN queue :
         queue[k].kind = "create" /\ queue[k].who = queue[i].who => k = i
    /\ \A j \in jobs : j.kind = "create" => j.who # queue[i].who
OrphanLost(i) == queue[i].kind = "orphan" => Lost(queue[i].who)
QueueInv == \A i \in DOMAIN queue : WaitsOnce(i) /\ OrphanLost(i)
JobInv ==
  \A j \in jobs :
    /\ j.kind = "create" => row[j.who] = "absent"
    /\ j.kind = "orphan" => Lost(j.who)
SweepInv ==
  /\ \A s \in sweep : row[s] # "absent"
  /\ look # Nobody => row[look] # "absent"

HoldingFits == Holding \in Schedulable

IInv ==
  /\ TypeOK
  /\ HoldingFits
  /\ MutexInv
  /\ RowInv
  /\ QueueInv
  /\ JobInv
  /\ SweepInv

LEMMA InitIInv == Init => IInv
<1> SUFFICES ASSUME Init PROVE IInv OBVIOUS
<1>1. TypeOK BY EmptySeq DEF Init, TypeOK
<1>2. Holding = {} BY DEF Init, Holding
<1>3. DOMAIN queue = {} BY DEF Init
<1> QED
  BY <1>1, <1>2, <1>3, SchedulableIsClosed
  DEF Init, IInv, HoldingFits, MutexInv, RowInv, QueueInv, JobInv, SweepInv

(* The indices of the queue after a request was taken or added. *)
LEMMA BeginQueue ==
  ASSUME IInv, Begin
  PROVE  /\ 1 \in DOMAIN queue
         /\ \A i \in DOMAIN queue' : i + 1 \in DOMAIN queue /\ queue'[i] = queue[i + 1]
         /\ queue[1] = Head(queue)
<1>1. queue \in Seq(Request) /\ queue # <<>> BY DEF IInv, TypeOK, Begin
<1> QED BY <1>1 DEF Begin

LEMMA SubmitQueue ==
  ASSUME queue \in Seq(Request), NEW kind, NEW s, Submit(kind, s)
  PROVE  /\ DOMAIN queue \subseteq DOMAIN queue'
         /\ Len(queue) + 1 \notin DOMAIN queue
         /\ \A i \in DOMAIN queue' :
              \/ i \in DOMAIN queue /\ queue'[i] = queue[i]
              \/ i = Len(queue) + 1 /\ queue'[i] = [kind |-> kind, who |-> s]
BY DEF Submit

LEMMA BeginIInv ==
  ASSUME IInv, Begin
  PROVE  IInv'
<1> DEFINE h == Head(queue)
           n == [kind |-> h.kind, who |-> h.who, seen |-> Holding]
<1>0. TypeOK' BY BeginType DEF IInv
<1>1. UNCHANGED <<row, missing, alloc, mark, sweep, look, crashes>> BY DEF Begin
<1>2. Holding' = Holding BY <1>1 DEF Holding
<1>3. jobs = {} /\ jobs' = {n} BY DEF Begin, MutexFree
<1>4. h = queue[1] /\ 1 \in DOMAIN queue BY BeginQueue
<1>5. HoldingFits' BY <1>2 DEF HoldingFits, IInv
<1>6. MutexInv' BY <1>1, <1>2, <1>3 DEF MutexInv, Holding
<1>7. RowInv' BY <1>1 DEF RowInv, IInv
<1>8. QueueInv'
  <2>1. SUFFICES ASSUME NEW i \in DOMAIN queue' PROVE WaitsOnce(i)' /\ OrphanLost(i)'
    BY DEF QueueInv
  <2>2. i + 1 \in DOMAIN queue /\ queue'[i] = queue[i + 1] /\ i + 1 # 1
    <3>1. i \in 1..Len(queue') BY <1>0 DEF TypeOK
    <3> QED BY <3>1, BeginQueue
  <2>3. OrphanLost(i)'
    BY <1>1, <2>2 DEF QueueInv, IInv, OrphanLost, Lost
  <2>4. SUFFICES ASSUME queue'[i].kind = "create"
                 PROVE  /\ row'[queue'[i].who] = "absent"
                        /\ \A k \in DOMAIN queue' :
                             queue'[k].kind = "create" /\ queue'[k].who = queue'[i].who => k = i
                        /\ \A j \in jobs' : j.kind = "create" => j.who # queue'[i].who
    BY <2>3 DEF WaitsOnce
  <2>5. WaitsOnce(i + 1) /\ queue[i + 1].kind = "create" BY <2>2, <2>4 DEF QueueInv, IInv
  <2>6. row'[queue'[i].who] = "absent" BY <1>1, <2>2, <2>5 DEF WaitsOnce
  <2>7. ASSUME NEW k \in DOMAIN queue', queue'[k].kind = "create", queue'[k].who = queue'[i].who
        PROVE  k = i
    <3>1. k + 1 \in DOMAIN queue /\ queue'[k] = queue[k + 1] BY BeginQueue
    <3>2. k + 1 = i + 1 BY <2>2, <2>5, <2>7, <3>1 DEF WaitsOnce
    <3>3. k \in Nat /\ i \in Nat BY <1>0 DEF TypeOK
    <3> QED BY <3>2, <3>3
  <2>8. ASSUME n.kind = "create" PROVE n.who # queue'[i].who
    <3>1. WaitsOnce(i + 1) /\ queue[1].kind = "create" BY <1>4, <2>5, <2>8
    <3> QED BY <1>4, <2>2, <2>5, <3>1 DEF WaitsOnce
  <2> QED BY <1>3, <2>6, <2>7, <2>8
<1>9. JobInv'
  <2>1. WaitsOnce(1) /\ OrphanLost(1) BY <1>4 DEF QueueInv, IInv
  <2> QED BY <1>1, <1>3, <1>4, <2>1 DEF JobInv, WaitsOnce, OrphanLost, Lost
<1>10. SweepInv' BY <1>1 DEF SweepInv, IInv
<1> QED BY <1>0, <1>5, <1>6, <1>7, <1>8, <1>9, <1>10 DEF IInv

(* What a finished request can have done to its task. *)
LEMMA FinishCases ==
  ASSUME IInv, NEW j \in jobs, Finish(j)
  PROVE  /\ UNCHANGED <<missing, queue, look, crashes>>
         /\ jobs' = {} /\ sweep' \subseteq sweep
         /\ j.who \in Sandboxes /\ j.seen \subseteq Sandboxes
         /\ \/ UNCHANGED <<row, alloc>> /\ (mark' = mark \/ j.kind \in {"confirm", "orphan"})
            \/ /\ j.kind = "create" /\ j.seen \cup {j.who} \in Schedulable
               /\ row = [row EXCEPT ![j.who] = "absent"]
               /\ row' = [row EXCEPT ![j.who] = "live"]
               /\ alloc' = [alloc EXCEPT ![j.who] = "active"]
               /\ mark' = [mark EXCEPT ![j.who] = "pending"]
            \/ /\ alloc[j.who] = "active" /\ row' = row
               /\ alloc' = [alloc EXCEPT ![j.who] = "released"]
               /\ mark' = mark \/ (j.kind = "orphan" /\ mark' = [mark EXCEPT ![j.who] = "orphaned"])
<1> USE DEF IInv
<1>1. PICK ok : Reserve(j, ok) \/ Release(j, ok) \/ Reconcile(j, ok) BY DEF Finish
<1>2. UNCHANGED <<missing, queue, look, crashes>> BY <1>1 DEF Reserve, Release, Reconcile
<1>3. jobs' = jobs \ {j} BY <1>1 DEF Reserve, Release, Reconcile, Leave
<1>4. jobs' = {} BY <1>3 DEF MutexInv
<1>5. sweep' \subseteq sweep BY <1>1 DEF Reserve, Release, Reconcile
<1>6. j.who \in Sandboxes /\ j.seen \subseteq Sandboxes BY DEF TypeOK
<1>7. row \in [Sandboxes -> {"absent", "live", "over", "deleted"}]
      /\ alloc \in [Sandboxes -> {"none", "active", "released", "dropped"}]
      /\ j \in Job
  BY DEF TypeOK
<1>8. ASSUME Saves(j, ok) PROVE alloc[j.who] = "active"
  <2>1. j.who \in j.seen /\ row[j.who] # "deleted" BY <1>8 DEF Saves, Found
  <2>2. alloc[j.who] \in {"active", "dropped"} BY <2>1 DEF MutexInv
  <2> QED BY <1>6, <2>1, <2>2 DEF RowInv
<1>9. CASE Reserve(j, ok)
  <2>1. CASE ok /\ Admits(j)
    <3>1. row[j.who] = "absent" BY <1>9 DEF JobInv, Reserve
    <3>2. row = [row EXCEPT ![j.who] = "absent"] BY <1>6, <1>7, <3>1
    <3>3. j.seen \cup {j.who} \in Schedulable BY <1>7, <2>1, AdmittedFits
    <3> QED BY <1>2, <1>4, <1>5, <1>6, <1>9, <2>1, <3>2, <3>3 DEF Reserve
  <2>2. CASE ~(ok /\ Admits(j)) BY <1>2, <1>4, <1>5, <1>6, <1>9, <2>2 DEF Reserve
  <2> QED BY <2>1, <2>2
<1>10. CASE Release(j, ok)
  <2>1. CASE Saves(j, ok)
    <3>1. alloc' = [alloc EXCEPT ![j.who] = "released"] /\ mark' = [mark EXCEPT ![j.who] = mark[j.who]]
      BY <1>10, <2>1 DEF Release, Save
    <3>2. mark' = mark BY <3>1 DEF TypeOK
    <3> QED BY <1>2, <1>4, <1>5, <1>6, <1>8, <1>10, <2>1, <3>1, <3>2 DEF Release
  <2>2. CASE ~Saves(j, ok) BY <1>2, <1>4, <1>5, <1>6, <1>10, <2>2 DEF Release
  <2> QED BY <2>1, <2>2
<1>11. CASE Reconcile(j, ok)
  <2>1. CASE Saves(j, ok) /\ j.kind = "confirm"
    <3>1. alloc' = [alloc EXCEPT ![j.who] = "active"] BY <1>11, <2>1 DEF Reconcile, Save
    <3>2. alloc' = alloc BY <1>6, <1>7, <1>8, <2>1, <3>1
    <3> QED BY <1>2, <1>4, <1>5, <1>6, <1>11, <2>1, <3>2 DEF Reconcile
  <2>2. CASE Saves(j, ok) /\ j.kind = "orphan"
    <3>1. alloc' = [alloc EXCEPT ![j.who] = "released"] /\ mark' = [mark EXCEPT ![j.who] = "orphaned"]
      BY <1>11, <2>2 DEF Reconcile, Save
    <3> QED BY <1>2, <1>4, <1>5, <1>6, <1>8, <1>11, <2>2, <3>1 DEF Reconcile
  <2>3. CASE ~Saves(j, ok) BY <1>2, <1>4, <1>5, <1>6, <1>11, <2>3 DEF Reconcile
  <2> QED BY <1>11, <2>1, <2>2, <2>3 DEF Reconcile
<1> QED BY <1>1, <1>9, <1>10, <1>11

LEMMA FinishIInv ==
  ASSUME IInv, NEW j \in jobs, Finish(j)
  PROVE  IInv'
<1>0. TypeOK /\ TypeOK' BY FinishType DEF IInv
<1>1. UNCHANGED <<missing, queue, look, crashes>> /\ jobs' = {} /\ sweep' \subseteq sweep
      /\ j.who \in Sandboxes
  BY FinishCases
<1>2. MutexInv' /\ JobInv' BY <1>1 DEF MutexInv, JobInv
<1>3. CASE UNCHANGED <<row, alloc>>
  <2>1. Holding' = Holding BY <1>3 DEF Holding
  <2>2. QueueInv' BY <1>1, <1>3 DEF IInv, QueueInv, WaitsOnce, OrphanLost, Lost
  <2> QED BY <1>0, <1>1, <1>2, <1>3, <2>1, <2>2 DEF IInv, HoldingFits, RowInv, SweepInv
<1>4. CASE /\ j.kind = "create" /\ j.seen \cup {j.who} \in Schedulable
           /\ row = [row EXCEPT ![j.who] = "absent"]
           /\ row' = [row EXCEPT ![j.who] = "live"]
           /\ alloc' = [alloc EXCEPT ![j.who] = "active"]
  <2>1. Holding' \subseteq j.seen \cup {j.who}
    BY <1>0, <1>4 DEF IInv, MutexInv, Holding, TypeOK
  <2>2. HoldingFits' BY <1>4, <2>1, SchedulableIsClosed DEF HoldingFits
  <2>3. row[j.who] = "absent" BY <1>0, <1>1, <1>4 DEF TypeOK
  <2>4. QueueInv'
    <3>1. SUFFICES ASSUME NEW i \in DOMAIN queue PROVE WaitsOnce(i)' /\ OrphanLost(i)'
      BY <1>1 DEF QueueInv
    <3>2. WaitsOnce(i) /\ OrphanLost(i) BY DEF IInv, QueueInv
    <3>4. queue[i].kind = "create" => queue[i].who # j.who BY <1>4, <3>2 DEF WaitsOnce
    <3>5. queue[i].kind = "orphan" => queue[i].who # j.who BY <2>3, <3>2 DEF OrphanLost, Lost
    <3>6. \A s : s # j.who => row'[s] = row[s] BY <1>0, <1>4 DEF TypeOK
    <3>7. WaitsOnce(i)' BY <1>1, <3>2, <3>4, <3>6 DEF WaitsOnce
    <3>8. OrphanLost(i)' BY <1>1, <3>2, <3>5, <3>6 DEF OrphanLost, Lost
    <3> QED BY <3>7, <3>8
  <2>5. RowInv' BY <1>0, <1>1, <1>4 DEF IInv, RowInv, TypeOK
  <2>6. SweepInv'
    <3>1. \A s \in Sandboxes : row[s] # "absent" => row'[s] # "absent" BY <1>0, <1>4 DEF TypeOK
    <3>2. look \in Sandboxes \cup {Nobody} /\ sweep \subseteq Sandboxes BY <1>0 DEF TypeOK
    <3>3. SweepInv BY DEF IInv
    <3> QED BY <1>1, <3>1, <3>2, <3>3 DEF SweepInv
  <2> QED BY <1>0, <1>2, <2>2, <2>4, <2>5, <2>6 DEF IInv
<1>5. CASE /\ alloc[j.who] = "active" /\ row' = row
           /\ alloc' = [alloc EXCEPT ![j.who] = "released"]
  <2>1. Holding' \subseteq Holding BY <1>0, <1>5 DEF Holding, TypeOK
  <2>2. HoldingFits' BY <2>1, SchedulableIsClosed DEF IInv, HoldingFits
  <2>3. QueueInv' BY <1>1, <1>5 DEF IInv, QueueInv, WaitsOnce, OrphanLost, Lost
  <2>4. RowInv' BY <1>0, <1>1, <1>5 DEF IInv, RowInv, TypeOK
  <2>5. SweepInv' BY <1>1, <1>5 DEF IInv, SweepInv
  <2> QED BY <1>0, <1>2, <2>2, <2>3, <2>4, <2>5 DEF IInv
<1> QED BY <1>3, <1>4, <1>5, FinishCases

(* A request may join the queue when its kind allows it. *)
LEMMA SubmitIInv ==
  ASSUME IInv, TypeOK', NEW kind \in Kinds, NEW s \in Sandboxes, Submit(kind, s),
         UNCHANGED <<row, missing, alloc, jobs>>,
         kind = "create" => row[s] = "absent" /\ ~Pending("create", s),
         kind = "orphan" => Lost(s),
         SweepInv'
  PROVE  IInv'
<1>1. Holding' = Holding BY DEF Holding
<1>2. HoldingFits' /\ MutexInv' /\ RowInv' BY <1>1 DEF IInv, HoldingFits, MutexInv, RowInv
<1>3. JobInv' BY DEF IInv, JobInv, Lost
<1>4. QueueInv'
  <2>0. queue \in Seq(Request) BY DEF IInv, TypeOK
  <2> DEFINE last == Len(queue) + 1
  <2>1. /\ DOMAIN queue \subseteq DOMAIN queue' /\ last \notin DOMAIN queue
        /\ \A i \in DOMAIN queue' :
              \/ i \in DOMAIN queue /\ queue'[i] = queue[i]
              \/ i = last /\ queue'[i] = [kind |-> kind, who |-> s]
    BY <2>0, SubmitQueue
  <2> HIDE DEF last
  <2>2. ASSUME NEW i \in DOMAIN queue' PROVE OrphanLost(i)'
    <3>1. CASE i \in DOMAIN queue /\ queue'[i] = queue[i]
      BY <3>1 DEF IInv, QueueInv, OrphanLost, Lost
    <3>2. CASE i = last /\ queue'[i] = [kind |-> kind, who |-> s]
      BY <3>2 DEF OrphanLost, Lost
    <3> QED BY <2>1, <3>1, <3>2
  <2>3. ASSUME NEW i \in DOMAIN queue' PROVE WaitsOnce(i)'
    <3>1. SUFFICES ASSUME queue'[i].kind = "create"
                   PROVE  /\ row[queue'[i].who] = "absent"
                          /\ \A k \in DOMAIN queue' :
                               queue'[k].kind = "create" /\ queue'[k].who = queue'[i].who => k = i
                          /\ \A j \in jobs : j.kind = "create" => j.who # queue'[i].who
      BY DEF WaitsOnce
    <3>2. CASE i \in DOMAIN queue /\ queue'[i] = queue[i]
      <4>1. WaitsOnce(i) /\ queue[i].kind = "create" BY <3>1, <3>2 DEF IInv, QueueInv
      <4>2. ASSUME NEW k \in DOMAIN queue', queue'[k].kind = "create", queue'[k].who = queue'[i].who
            PROVE  k = i
        <5>1. CASE k \in DOMAIN queue /\ queue'[k] = queue[k]
          BY <3>2, <4>1, <4>2, <5>1 DEF WaitsOnce
        <5>2. CASE queue'[k] = [kind |-> kind, who |-> s]
          <6>1. Pending("create", s) BY <3>2, <4>1, <4>2, <5>2 DEF Pending
          <6> QED BY <4>2, <5>2, <6>1
        <5> QED BY <2>1, <5>1, <5>2
      <4> QED BY <3>2, <4>1, <4>2 DEF WaitsOnce
    <3>3. CASE i = last /\ queue'[i] = [kind |-> kind, who |-> s]
      <4>1. row[s] = "absent" /\ ~Pending("create", s) BY <3>1, <3>3
      <4>2. ASSUME NEW k \in DOMAIN queue', queue'[k].kind = "create", queue'[k].who = s
            PROVE  k = i
        <5>1. ~(k \in DOMAIN queue /\ queue'[k] = queue[k]) BY <4>1, <4>2 DEF Pending
        <5> QED BY <2>1, <3>3, <5>1
      <4>3. \A j \in jobs : j.kind = "create" => j.who # s BY <4>1 DEF Pending
      <4> QED BY <3>3, <4>1, <4>2, <4>3
    <3> QED BY <2>1, <3>2, <3>3
  <2> QED BY <2>2, <2>3 DEF QueueInv
<1> QED BY <1>2, <1>3, <1>4 DEF IInv

(* Nothing else touches the queue or the jobs. *)
LEMMA AroundIInv ==
  ASSUME IInv, TypeOK',
         \/ \E s \in Sandboxes : TaskOver(s) \/ InstanceLost(s) \/ TaskDeleted(s)
         \/ SweepStart \/ Restart \/ UNCHANGED vars
  PROVE  IInv'
<1>0. TypeOK /\ TypeOK' BY DEF IInv
<1>1. /\ Holding' \subseteq Holding
      /\ \A s \in Sandboxes : (row'[s] = "absent" <=> row[s] = "absent")
      /\ \A s \in Sandboxes : alloc'[s] # alloc[s] => alloc'[s] = "dropped"
      /\ \A s \in Sandboxes : row'[s] = "live" => row[s] = "live"
      /\ missing \subseteq missing'
      /\ jobs' \in {jobs, {}} /\ queue' \in {queue, <<>>}
  <2>1. CASE \E s \in Sandboxes : TaskOver(s) \/ InstanceLost(s) \/ TaskDeleted(s)
    <3>1. PICK s \in Sandboxes : TaskOver(s) \/ InstanceLost(s) \/ TaskDeleted(s) BY <2>1
    <3>2. UNCHANGED <<jobs, queue>> BY <3>1 DEF TaskOver, InstanceLost, TaskDeleted
    <3>3. CASE TaskOver(s) BY <1>0, <3>2, <3>3 DEF TaskOver, TypeOK, Holding
    <3>4. CASE InstanceLost(s) BY <1>0, <3>2, <3>4 DEF InstanceLost, TypeOK, Holding
    <3>5. CASE TaskDeleted(s) BY <1>0, <3>2, <3>5 DEF TaskDeleted, TypeOK, Holding
    <3> QED BY <3>1, <3>3, <3>4, <3>5
  <2>2. CASE SweepStart BY <2>2 DEF SweepStart, Holding
  <2>3. CASE Restart BY <2>3 DEF Restart, Holding
  <2>4. CASE UNCHANGED vars BY <2>4 DEF vars, Holding
  <2> QED BY <2>1, <2>2, <2>3, <2>4
<1>2. HoldingFits' BY <1>1, SchedulableIsClosed DEF IInv, HoldingFits
<1>3. MutexInv'
  <2>1. \A j \in jobs : j \in Job BY <1>0 DEF TypeOK
  <2>2. MutexInv BY DEF IInv
  <2> QED BY <1>1, <2>1, <2>2 DEF MutexInv
<1>4. RowInv'
  <2>1. RowInv BY DEF IInv
  <2>2. CASE \E s \in Sandboxes : TaskDeleted(s)
    <3>1. PICK s \in Sandboxes : TaskDeleted(s) BY <2>2
    <3> QED BY <1>0, <2>1, <3>1 DEF TaskDeleted, RowInv, TypeOK
  <2>3. CASE \E s \in Sandboxes : TaskOver(s)
    <3>1. PICK s \in Sandboxes : TaskOver(s) BY <2>3
    <3> QED BY <1>0, <2>1, <3>1 DEF TaskOver, RowInv, TypeOK
  <2>4. CASE UNCHANGED <<row, alloc>> BY <2>1, <2>4 DEF RowInv
  <2> QED BY <2>2, <2>3, <2>4 DEF InstanceLost, SweepStart, Restart, vars
<1>5. QueueInv'
  <2>1. CASE queue' = <<>> BY <2>1 DEF QueueInv
  <2>2. CASE queue' = queue
    <3>1. SUFFICES ASSUME NEW i \in DOMAIN queue PROVE WaitsOnce(i)' /\ OrphanLost(i)'
      BY <2>2 DEF QueueInv
    <3>2. WaitsOnce(i) /\ OrphanLost(i) BY DEF IInv, QueueInv
    <3>3. queue[i].who \in Sandboxes
      <4>1. queue \in Seq(Request) BY <1>0 DEF TypeOK
      <4>2. i \in 1..Len(queue) BY <4>1
      <4>3. queue[i] \in Request BY <4>1, <4>2, ElementOfSeq
      <4> QED BY <4>3
    <3> QED BY <1>1, <2>2, <3>2, <3>3 DEF WaitsOnce, OrphanLost, Lost
  <2> QED BY <1>1, <2>1, <2>2
<1>6. JobInv'
  <2>1. \A j \in jobs : j \in Job BY <1>0 DEF TypeOK
  <2>2. JobInv BY DEF IInv
  <2> QED BY <1>1, <2>1, <2>2 DEF JobInv, Lost
<1>7. SweepInv'
  <2>1. SweepInv /\ RowInv BY DEF IInv
  <2>2. sweep' \subseteq sweep \cup Holding /\ look' \in {look, Nobody}
    BY DEF TaskOver, InstanceLost, TaskDeleted, SweepStart, Restart, vars
  <2>3. \A s \in Holding : row[s] # "absent" BY <2>1 DEF Holding, RowInv
  <2>4. sweep \subseteq Sandboxes /\ look \in Sandboxes \cup {Nobody} /\ Holding \subseteq Sandboxes
    BY <1>0 DEF TypeOK, Holding
  <2> QED BY <1>1, <2>1, <2>2, <2>3, <2>4 DEF SweepInv
<1> QED BY <1>0, <1>2, <1>3, <1>4, <1>5, <1>6, <1>7 DEF IInv

LEMMA NextIInv == IInv /\ [Next]_vars => IInv'
<1> SUFFICES ASSUME IInv, [Next]_vars PROVE IInv' OBVIOUS
<1>0. TypeOK /\ TypeOK' BY TypeInductive DEF IInv
<1>1. CASE Begin BY <1>1, BeginIInv
<1>2. CASE \E j \in jobs : Finish(j) BY <1>2, FinishIInv
<1>3. ASSUME NEW s \in Sandboxes, AskCreate(s) PROVE IInv'
  <2>1. SweepInv' BY <1>3 DEF AskCreate, IInv, SweepInv
  <2> QED BY <1>0, <1>3, <2>1, SubmitIInv DEF AskCreate
<1>4. ASSUME NEW s \in Sandboxes, AskRelease(s) PROVE IInv'
  <2>1. SweepInv' BY <1>4 DEF AskRelease, IInv, SweepInv
  <2> QED BY <1>0, <1>4, <2>1, SubmitIInv DEF AskRelease
<1>5. ASSUME NEW s \in Sandboxes, SweepNext(s) PROVE IInv'
  <2>1. row[s] # "absent" BY <1>5 DEF SweepNext, IInv, SweepInv
  <2>2. SweepInv' BY <1>5, <2>1 DEF SweepNext, IInv, SweepInv
  <2>3. CASE row[s] = "live"
    <3>1. UNCHANGED <<row, missing, alloc, jobs, queue>> BY <1>5, <2>3 DEF SweepNext
    <3>2. Holding' = Holding BY <3>1 DEF Holding
    <3> QED
      BY <1>0, <2>2, <3>1, <3>2
      DEF IInv, HoldingFits, MutexInv, RowInv, QueueInv, WaitsOnce, OrphanLost, JobInv, Lost
  <2>4. CASE row[s] # "live"
    BY <1>0, <1>5, <2>1, <2>2, <2>4, SubmitIInv DEF SweepNext, Lost
  <2> QED BY <2>3, <2>4
<1>6. CASE SweepAnswer
  <2>1. look \in Sandboxes /\ row[look] # "absent" BY <1>0, <1>6 DEF SweepAnswer, IInv, SweepInv, TypeOK
  <2>2. UNCHANGED <<row, missing, alloc, jobs>> BY <1>6 DEF SweepAnswer
  <2>3. SweepInv' BY <1>6 DEF SweepAnswer, IInv, SweepInv
  <2>4. \/ Submit("confirm", look)
        \/ Submit("orphan", look) /\ look \in missing
        \/ UNCHANGED queue
    BY <1>6 DEF SweepAnswer, Verdicts
  <2>5. CASE Submit("confirm", look) BY <1>0, <2>1, <2>2, <2>3, <2>5, SubmitIInv
  <2>6. CASE Submit("orphan", look) /\ look \in missing
    BY <1>0, <2>1, <2>2, <2>3, <2>6, SubmitIInv DEF Lost
  <2>7. CASE UNCHANGED queue
    <3>1. Holding' = Holding BY <2>2 DEF Holding
    <3> QED
      BY <1>0, <2>2, <2>3, <2>7, <3>1
      DEF IInv, HoldingFits, MutexInv, RowInv, QueueInv, WaitsOnce, OrphanLost, JobInv, Lost
  <2> QED BY <2>4, <2>5, <2>6, <2>7
<1>7. CASE \/ \E s \in Sandboxes : TaskOver(s) \/ InstanceLost(s) \/ TaskDeleted(s)
           \/ SweepStart \/ Restart \/ UNCHANGED vars
  BY <1>0, <1>7, AroundIInv
<1> QED BY <1>1, <1>2, <1>3, <1>4, <1>5, <1>6, <1>7 DEF Next

(* The ledger never holds more than fits, the mutex protects what a job    *)
(* has read, and every waiting request is still one that may be served.    *)
THEOREM AllocatorInvariant == Spec => []IInv
BY InitIInv, NextIInv, PTL DEF Spec

(* Capacity is never sold twice: what the tasks that hold an allocation    *)
(* use together is no more than the host offers, whatever the host, the    *)
(* policy and the quotas are (reserve, SchedulerQueue.submit).             *)
THEOREM CapacityNeverOversold == Spec => []NeverOversold
<1>1. IInv => NeverOversold
  <2> SUFFICES ASSUME IInv PROVE NeverOversold OBVIOUS
  <2>1. Holding \in SUBSET Sandboxes BY DEF Holding
  <2> QED BY <2>1, InSchedulable DEF IInv, HoldingFits, NeverOversold, NodeTotal
<1> QED BY <1>1, AllocatorInvariant, PTL

(* The number of tasks that the capacity endpoint promises is the number   *)
(* the scheduler then admits, one after another, and the host has room for *)
(* all of them and for what the platform reserves, at every boundary of    *)
(* every dimension (capacityOf, snapshotOf, trySchedule).                  *)
THEOREM PromiseIsExact == Spec => []PoolIsSound
<1>1. TypeOK => PoolIsSound
  <2>1. Holding \in SUBSET Sandboxes BY DEF Holding
  <2>2. \A s \in Sandboxes : QuotaOf[s] \in Quota BY PoolConstants
  <2> QED
    BY <2>1, <2>2, ArithmeticSound, UsedFacts, AllocatorConstants, PromiseIsKept, HostIsEnough
    DEF PoolIsSound
<1> QED BY <1>1, TypeCorrect, PTL

-----------------------------------------------------------------------------
(* Steps.                                                                  *)

LEMMA ReleasedStep ==
  ASSUME IInv, [Next]_vars, NEW s \in Sandboxes, alloc[s] \in {"released", "dropped"}
  PROVE  alloc'[s] \in {"released", "dropped"}
<1>0. alloc \in [Sandboxes -> {"none", "active", "released", "dropped"}] BY DEF IInv, TypeOK
<1>1. CASE \E j \in jobs : Finish(j)
  <2>1. PICK j \in jobs : Finish(j) BY <1>1
  <2>2. CASE j.kind = "create" /\ alloc' = [alloc EXCEPT ![j.who] = "active"]
    <3>1. row[j.who] = "absent" /\ j.who \in Sandboxes BY <2>2, FinishCases, <2>1 DEF IInv, JobInv
    <3>2. alloc[j.who] = "none" BY <3>1 DEF IInv, RowInv
    <3> QED BY <1>0, <2>2, <3>2
  <2>3. CASE alloc' = alloc \/ alloc' = [alloc EXCEPT ![j.who] = "released"]
    BY <1>0, <2>3
  <2> QED BY <2>1, <2>2, <2>3, FinishCases
<1>2. CASE \E r \in Sandboxes : TaskDeleted(r) BY <1>0, <1>2 DEF TaskDeleted
<1>3. CASE UNCHANGED alloc BY <1>3
<1> QED
  BY <1>1, <1>2, <1>3
  DEF Next, vars, Begin, AskCreate, AskRelease, SweepNext, TaskOver, InstanceLost,
      SweepStart, SweepAnswer, Restart

(* I-RA-1: nothing revives a released allocation, no confirmation that     *)
(* read it before (confirmActive, saveSync).                               *)
THEOREM ReleasedIsFinal == Spec => ReleasedStaysReleased
<1>1. IInv /\ [Next]_vars =>
        [\A s \in Sandboxes :
           alloc[s] \in {"released", "dropped"} => alloc'[s] \in {"released", "dropped"}]_vars
  BY ReleasedStep
<1> QED BY <1>1, AllocatorInvariant, PTL DEF Spec, ReleasedStaysReleased

(* The reconciler takes no allocation from a task that runs and has its    *)
(* instance (verdictFor, releaseAsOrphan).                                 *)
THEOREM LiveIsNotOrphaned == Spec => LiveKeepsItsShare
<1>1. ASSUME IInv, [Next]_vars, NEW s \in Sandboxes, row[s] = "live", s \notin missing,
             mark'[s] = "orphaned"
      PROVE  mark[s] = "orphaned"
  <2>0. mark \in [Sandboxes -> {"pending", "confirmed", "orphaned"}]
        /\ row \in [Sandboxes -> {"absent", "live", "over", "deleted"}]
    BY <1>1 DEF IInv, TypeOK
  <2>1. CASE \E j \in jobs : Finish(j)
    <3>1. PICK j \in jobs : Finish(j) BY <2>1
    <3>2. PICK ok : Reserve(j, ok) \/ Release(j, ok) \/ Reconcile(j, ok) BY <3>1 DEF Finish
    <3>3. j.who \in Sandboxes BY <1>1 DEF IInv, TypeOK
    <3>4. CASE mark' = mark BY <1>1, <3>4
    <3>5. CASE mark' = [mark EXCEPT ![j.who] = "pending"] \/ mark' = [mark EXCEPT ![j.who] = "confirmed"]
               \/ mark' = [mark EXCEPT ![j.who] = mark[j.who]]
      BY <1>1, <2>0, <3>3, <3>5
    <3>6. CASE j.kind = "orphan" /\ mark' = [mark EXCEPT ![j.who] = "orphaned"]
      <4>1. Lost(j.who) BY <1>1, <3>6 DEF IInv, JobInv
      <4>2. j.who # s BY <1>1, <4>1 DEF Lost
      <4> QED BY <1>1, <2>0, <3>3, <3>6, <4>2
    <3> QED BY <3>2, <3>4, <3>5, <3>6 DEF Reserve, Release, Reconcile, Save
  <2>2. CASE UNCHANGED mark BY <1>1, <2>2
  <2> QED
    BY <1>1, <2>1, <2>2
    DEF Next, vars, Begin, AskCreate, AskRelease, SweepNext, TaskOver, InstanceLost,
        TaskDeleted, SweepStart, SweepAnswer, Restart
<1>2. IInv /\ [Next]_vars =>
        [\A s \in Sandboxes :
           row[s] = "live" /\ s \notin missing /\ mark'[s] = "orphaned" => mark[s] = "orphaned"]_vars
  BY <1>1
<1> QED BY <1>2, AllocatorInvariant, PTL DEF Spec, LiveKeepsItsShare

-----------------------------------------------------------------------------
(* Refinement.                                                             *)

LEMMA LedgerStep ==
  ASSUME IInv, [Next]_vars
  PROVE  [Ledger!Next]_<<Holding, {s \in Sandboxes : alloc[s] \in {"released", "dropped"}}>>
<1> DEFINE over == {s \in Sandboxes : alloc[s] \in {"released", "dropped"}}
<1>0. alloc \in [Sandboxes -> {"none", "active", "released", "dropped"}] /\ RowInv BY DEF IInv, TypeOK
<1>1. CASE \E j \in jobs : Finish(j)
  <2>1. PICK j \in jobs : Finish(j) BY <1>1
  <2>2. CASE /\ j.kind = "create" /\ j.seen \cup {j.who} \in Schedulable
             /\ alloc' = [alloc EXCEPT ![j.who] = "active"]
    <3>1. j.who \in Sandboxes /\ alloc[j.who] = "none"
      BY <2>1, <2>2, FinishCases DEF IInv, JobInv, RowInv
    <3>2. Holding' = Holding \cup {j.who} /\ over' = over
      BY <1>0, <2>2, <3>1 DEF Holding
    <3>3. j.who \notin Holding \cup over BY <3>1 DEF Holding
    <3>4. Holding \cup {j.who} \subseteq j.seen \cup {j.who} BY <2>1 DEF IInv, MutexInv
    <3>5. Holding \cup {j.who} \in Schedulable BY <2>2, <3>4, SchedulableIsClosed
    <3>6. Ledger!Admit(j.who) BY <3>2, <3>3, <3>5 DEF Ledger!Admit
    <3> QED BY <3>1, <3>6 DEF Ledger!Next
  <2>3. CASE alloc[j.who] = "active" /\ alloc' = [alloc EXCEPT ![j.who] = "released"]
    <3>1. j.who \in Sandboxes BY <2>1, FinishCases
    <3>2. j.who \in Holding /\ Holding' = Holding \ {j.who} /\ over' = over \cup {j.who}
      BY <1>0, <2>3, <3>1 DEF Holding
    <3>3. Ledger!GiveBack({j.who}) BY <3>2 DEF Ledger!GiveBack
    <3> QED BY <3>1, <3>3 DEF Ledger!Next
  <2>4. CASE UNCHANGED alloc BY <2>4 DEF Holding
  <2> QED BY <2>1, <2>2, <2>3, <2>4, FinishCases
<1>2. CASE \E r \in Sandboxes : TaskDeleted(r)
  <2>1. PICK r \in Sandboxes : TaskDeleted(r) BY <1>2
  <2>2. alloc[r] # "none" /\ alloc' = [alloc EXCEPT ![r] = "dropped"]
    BY <1>0, <2>1 DEF TaskDeleted, RowInv
  <2>3. CASE alloc[r] = "active"
    <3>1. r \in Holding /\ Holding' = Holding \ {r} /\ over' = over \cup {r}
      BY <1>0, <2>2, <2>3 DEF Holding
    <3>2. Ledger!GiveBack({r}) BY <3>1 DEF Ledger!GiveBack
    <3> QED BY <3>2 DEF Ledger!Next
  <2>4. CASE alloc[r] # "active"
    <3>1. Holding' = Holding /\ over' = over BY <1>0, <2>2, <2>4 DEF Holding
    <3> QED BY <3>1
  <2> QED BY <2>3, <2>4
<1>3. CASE UNCHANGED alloc BY <1>3 DEF Holding
<1> QED
  BY <1>1, <1>2, <1>3
  DEF Next, vars, Begin, AskCreate, AskRelease, SweepNext, TaskOver, InstanceLost,
      SweepStart, SweepAnswer, Restart

(* The allocator, mutex, reconciler and restarts included, implements the  *)
(* ledger: tasks are admitted when they fit and give back what they held.  *)
THEOREM ImplementsLedger == Spec => LedgerSpec
<1>1. Init => Ledger!Init BY DEF Init, Ledger!Init, Holding
<1>2. IInv /\ [Next]_vars =>
        [Ledger!Next]_<<Holding, {s \in Sandboxes : alloc[s] \in {"released", "dropped"}}>>
  BY LedgerStep
<1> QED BY <1>1, <1>2, AllocatorInvariant, PTL DEF Spec, LedgerSpec, Ledger!Spec
=============================================================================
