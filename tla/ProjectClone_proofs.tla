------------------------- MODULE ProjectClone_proofs -------------------------
(***************************************************************************)
(* Proofs about ProjectClone: the slots are counted exactly, a baseline    *)
(* has one writer, a row that says cloning has a run or a place in the     *)
(* queue, a task is active only under a ready project, a ready project has *)
(* its baseline, and a clone cancelled in time stays cancelled.            *)
(***************************************************************************)
EXTENDS ProjectClone, FiniteSetTheorems, SequenceTheorems, TLAPS

Slot == Project \X Attempt
Running == {a \in Slot : job[a[1]][a[2]].pc # "off"}

WaitingOnce == \A i, j \in DOMAIN waiting : waiting[i] = waiting[j] => i = j

\* The runs of a project are numbered in the order they were enqueued.
BeginsInOrder ==
  \A p \in Project :
    /\ clones[p] <= retries + 1
    /\ row[p] = "absent" /\ p \notin deleted => clones[p] = 0
    /\ Queued(p) => clones[p] >= 1 /\ job[p][clones[p]].pc = "off"
    /\ \A k \in Attempt : k > clones[p] => job[p][k].pc = "off"

QueuedNotFailed == \A p \in Project : Queued(p) => row[p] # "failed"

FiniteSlots ==
  /\ IsFiniteSet(Running) /\ activeCount = Cardinality(Running)
  /\ activeCount <= MAX_CONCURRENT_CLONES
  /\ waiting # <<>> => activeCount = MAX_CONCURRENT_CLONES

Inv ==
  /\ TypeOK /\ WaitingOnce /\ BeginsInOrder /\ QueuedNotFailed
  /\ OneWriter /\ CloningIsBacked /\ FiniteSlots /\ ActiveTaskHasProject

-----------------------------------------------------------------------------
(* Records of runs *)

LEMMA OffTyped == Off \in Jobs /\ Started \in Jobs /\ Off.pc = "off" /\ Started.pc = "prepare"
                  /\ Started.aborted = FALSE
<1>2. "off" \in Working \cup {"dispose", "off"} /\ "prepare" \in Working \cup {"dispose", "off"}
  BY DEF Working, Preparing
<1>3. Off \in Jobs /\ Off.pc = "off"
  BY <1>2 DEF Off, Jobs
<1>4. Started \in Jobs /\ Started.pc = "prepare" /\ Started.aborted = FALSE
  BY <1>2 DEF Started, Jobs
<1> QED BY <1>3, <1>4

\* A run is replaced by another record.
LEMMA ReplaceRun ==
  ASSUME NEW f \in [Project -> [Attempt -> Jobs]], NEW p \in Project, NEW k \in Attempt,
         NEW v \in Jobs
  PROVE  /\ [f EXCEPT ![p][k] = v] \in [Project -> [Attempt -> Jobs]]
         /\ \A q \in Project, h \in Attempt :
              [f EXCEPT ![p][k] = v][q][h] = IF q = p /\ h = k THEN v ELSE f[q][h]
BY SMT

LEMMA SetAborted ==
  ASSUME TypeOK, NEW p \in Project, NEW k \in Attempt,
         job' = [job EXCEPT ![p][k].aborted = TRUE]
  PROVE  \E v \in Jobs : v.pc = job[p][k].pc /\ job' = [job EXCEPT ![p][k] = v]
<1> DEFINE v == [job[p][k] EXCEPT !.aborted = TRUE]
<1>1. job \in [Project -> [Attempt -> Jobs]] /\ job[p][k] \in Jobs
  BY DEF TypeOK
<1>2. v \in Jobs /\ v.pc = job[p][k].pc
  BY <1>1 DEF Jobs
<1>3. job' = [job EXCEPT ![p][k] = v]
  BY <1>1
<1> HIDE DEF v
<1> QED BY <1>2, <1>3

-----------------------------------------------------------------------------
(* The queue *)

\* What the rest of a queue of distinct projects behind place i is.
LEMMA RestOfQueue ==
  ASSUME NEW s \in Seq(Project), NEW i \in DOMAIN s, NEW t, t = SubSeq(s, i + 1, Len(s))
  PROVE  /\ t \in Seq(Project) /\ Len(t) = Len(s) - i
         /\ \A j \in DOMAIN t : j + i \in DOMAIN s /\ t[j] = s[j + i]
         /\ \A j \in DOMAIN s : j > i => j - i \in DOMAIN t /\ t[j - i] = s[j]
<1>1. DOMAIN s = 1..Len(s) /\ Len(s) \in Nat /\ i \in Nat
  OBVIOUS
<1>2. \A j \in (i + 1)..Len(s) : s[j] \in Project
  BY <1>1
<1>3. /\ t \in Seq(Project)
      /\ Len(t) = IF i + 1 <= Len(s) THEN Len(s) - (i + 1) + 1 ELSE 0
      /\ \A j \in 1..(Len(s) - (i + 1) + 1) : t[j] = s[i + 1 + j - 1]
  BY <1>1, <1>2, SubSeqProperties
<1>4. Len(t) = Len(s) - i /\ DOMAIN t = 1..(Len(s) - i)
  BY <1>1, <1>3
<1>5. ASSUME NEW j \in DOMAIN t
      PROVE  j + i \in DOMAIN s /\ t[j] = s[j + i]
  <2>1. /\ j \in 1..(Len(s) - (i + 1) + 1) /\ i + 1 + j - 1 = j + i
        /\ j + i \in 1..Len(s)
    BY <1>1, <1>4
  <2>2. t[j] = s[i + 1 + j - 1]
    BY <1>3, <2>1
  <2> QED BY <1>1, <2>1, <2>2
<1>6. ASSUME NEW j \in DOMAIN s, j > i
      PROVE  j - i \in DOMAIN t /\ t[j - i] = s[j]
  <2>1. j - i \in 1..(Len(s) - i) /\ (j - i) + i = j
    BY <1>1, <1>6
  <2>2. j - i \in DOMAIN t /\ t[j - i] = s[(j - i) + i]
    BY <1>4, <1>5, <2>1
  <2> QED BY <2>1, <2>2
<1> QED BY <1>3, <1>4, <1>5, <1>6

LEMMA WithoutPlace ==
  ASSUME NEW s \in Seq(Project), NEW i \in DOMAIN s, NEW t, t = RemoveAt(s, i)
  PROVE  /\ t \in Seq(Project) /\ Len(t) = Len(s) - 1
         /\ \A j \in DOMAIN t : IF j < i THEN j \in DOMAIN s /\ t[j] = s[j]
                                         ELSE j + 1 \in DOMAIN s /\ t[j] = s[j + 1]
         /\ \A j \in DOMAIN s : /\ j < i => j \in DOMAIN t /\ t[j] = s[j]
                                /\ j > i => j - 1 \in DOMAIN t /\ t[j - 1] = s[j]
<1> DEFINE a == SubSeq(s, 1, i - 1)
           b == SubSeq(s, i + 1, Len(s))
<1>1. DOMAIN s = 1..Len(s) /\ Len(s) \in Nat /\ i \in Nat /\ i >= 1
  OBVIOUS
<1>2. a \in Seq(Project) /\ Len(a) = i - 1 /\ \A j \in 1..(i - 1) : a[j] = s[j]
  <2>1. \A j \in 1..(i - 1) : s[j] \in Project
    BY <1>1
  <2>2. /\ a \in Seq(Project) /\ Len(a) = IF 1 <= i - 1 THEN (i - 1) - 1 + 1 ELSE 0
        /\ \A j \in 1..((i - 1) - 1 + 1) : a[j] = s[1 + j - 1]
    BY <1>1, <2>1, SubSeqProperties
  <2> QED BY <1>1, <2>2
<1>3. b \in Seq(Project) /\ Len(b) = Len(s) - i /\ \A j \in 1..(Len(s) - i) : b[j] = s[i + j]
  <2>1. /\ b \in Seq(Project) /\ Len(b) = Len(s) - i
        /\ \A j \in DOMAIN b : j + i \in DOMAIN s /\ b[j] = s[j + i]
    BY RestOfQueue
  <2> QED BY <1>1, <2>1
<1>4. t = a \o b
  BY Zenon DEF RemoveAt
<1> HIDE DEF a, b
<1>5. /\ t \in Seq(Project) /\ Len(t) = Len(a) + Len(b)
      /\ \A j \in 1..(Len(a) + Len(b)) : t[j] = IF j <= Len(a) THEN a[j] ELSE b[j - Len(a)]
  <2>1. a \in Seq(Project) /\ b \in Seq(Project)
    BY <1>2, <1>3
  <2>2. /\ a \o b \in Seq(Project) /\ Len(a \o b) = Len(a) + Len(b)
        /\ \A j \in 1..(Len(a) + Len(b)) : (a \o b)[j] = IF j <= Len(a) THEN a[j] ELSE b[j - Len(a)]
    BY <2>1, ConcatProperties, Zenon
  <2> QED BY <1>4, <2>2, Zenon
<1>6. Len(t) = Len(s) - 1 /\ DOMAIN t = 1..(Len(s) - 1)
  BY <1>1, <1>2, <1>3, <1>5
<1>7. \A j \in 1..(Len(s) - 1) : t[j] = IF j < i THEN s[j] ELSE s[j + 1]
  <2> TAKE j \in 1..(Len(s) - 1)
  <2>1. CASE j < i
    BY <1>1, <1>2, <1>3, <1>5, <2>1
  <2>2. CASE j >= i
    <3>1. t[j] = b[j - (i - 1)]
      <4>1. Len(a) = i - 1 /\ j \in 1..(Len(a) + Len(b)) /\ ~(j <= Len(a))
        BY <1>1, <1>2, <1>3, <2>2
      <4> QED BY <1>5, <4>1
    <3>2. j - (i - 1) \in 1..(Len(s) - i) /\ i + (j - (i - 1)) = j + 1
      BY <1>1, <2>2
    <3>3. b[j - (i - 1)] = s[i + (j - (i - 1))]
      BY <1>3, <3>2
    <3>4. ~(j < i)
      BY <1>1, <2>2
    <3> QED BY <3>1, <3>2, <3>3, <3>4
  <2> QED BY <1>1, <2>1, <2>2
<1>8. \A j \in DOMAIN t : IF j < i THEN j \in DOMAIN s /\ t[j] = s[j]
                                     ELSE j + 1 \in DOMAIN s /\ t[j] = s[j + 1]
  BY <1>1, <1>6, <1>7
<1>9. \A j \in DOMAIN s : j < i => j \in DOMAIN t /\ t[j] = s[j]
  BY <1>1, <1>6, <1>7
<1>10. ASSUME NEW j \in DOMAIN s, j > i  PROVE j - 1 \in DOMAIN t /\ t[j - 1] = s[j]
  <2>1. j - 1 \in 1..(Len(s) - 1) /\ ~(j - 1 < i) /\ (j - 1) + 1 = j
    BY <1>1, <1>10
  <2>2. t[j - 1] = IF j - 1 < i THEN s[j - 1] ELSE s[(j - 1) + 1]
    BY <1>7, <2>1
  <2> QED BY <1>6, <2>1, <2>2
<1> QED BY <1>5, <1>6, <1>8, <1>9, <1>10

-----------------------------------------------------------------------------
(* The end of a run *)

\* The run that starts in the slot of the one that ends, of project q.
NextRun(p, k, q) ==
  \A x \in Project, h \in Attempt :
    job'[x][h] = IF x = q /\ h = clones[q] THEN Started
                 ELSE IF x = p /\ h = k THEN Off ELSE job[x][h]

EndedRun(p, k) ==
  \A x \in Project, h \in Attempt : job'[x][h] = IF x = p /\ h = k THEN Off ELSE job[x][h]

QueueKept(q, r) == \A x \in Project : Queued(x) /\ x # q /\ r[x] = "cloning" => Queued(x)'
QueueShrinks == \A x \in Project : Queued(x)' => Queued(x)

LEMMA FinishTyped ==
  ASSUME TypeOK, BeginsInOrder, NEW p \in Project, NEW k \in Attempt, NEW r, Finish(p, k, r)
  PROVE  /\ job' \in [Project -> [Attempt -> Jobs]]
         /\ controllers' \in [Project -> 0..(MaxRetries + 1)]
<1> DEFINE ended == [job EXCEPT ![p][k] = Off]
           unregistered == [controllers EXCEPT ![p] = 0]
<1>1. ended \in [Project -> [Attempt -> Jobs]] /\ unregistered \in [Project -> 0..(MaxRetries + 1)]
  BY OffTyped, ReplaceRun, ProjectConstants DEF TypeOK
<1>2. CASE job' = ended /\ controllers' = unregistered
  BY <1>1, <1>2
<1>3. CASE \E i \in Startable(r) : Begin(waiting[i], clones[waiting[i]], ended, unregistered)
  <2>1. PICK i \in Startable(r) : Begin(waiting[i], clones[waiting[i]], ended, unregistered)
    BY <1>3
  <2>2. waiting[i] \in Project /\ i \in DOMAIN waiting
    BY <2>1 DEF TypeOK, Startable
  <2>3. Queued(waiting[i])
    BY <2>2 DEF Queued
  <2>4. clones[waiting[i]] \in Attempt
    BY <2>2, <2>3, ProjectConstants DEF TypeOK, BeginsInOrder, Attempt
  <2> HIDE DEF ended, unregistered
  <2>5. job' = [ended EXCEPT ![waiting[i]][clones[waiting[i]]] = Started]
        /\ controllers' = [unregistered EXCEPT ![waiting[i]] = clones[waiting[i]]]
    BY <2>1 DEF Begin
  <2>6. job' \in [Project -> [Attempt -> Jobs]]
    BY <1>1, <2>2, <2>4, <2>5, OffTyped, ReplaceRun
  <2>7. clones[waiting[i]] \in 0..(MaxRetries + 1)
    BY <2>2 DEF TypeOK
  <2> QED BY <1>1, <2>2, <2>5, <2>6, <2>7
<1> QED BY <1>2, <1>3 DEF Finish

LEMMA FinishQueue ==
  ASSUME TypeOK, WaitingOnce, BeginsInOrder, NEW p \in Project, NEW k \in Attempt, NEW r,
         Finish(p, k, r)
  PROVE  /\ waiting' \in Seq(Project) /\ WaitingOnce' /\ QueueShrinks
         /\ \/ /\ waiting' = <<>> /\ activeCount' = activeCount - 1 /\ EndedRun(p, k)
               /\ \A x \in Project : Queued(x) => r[x] # "cloning"
            \/ /\ waiting # <<>> /\ activeCount' = activeCount
               /\ \E q \in Project : /\ Queued(q) /\ r[q] = "cloning" /\ clones[q] \in Attempt
                                     /\ NextRun(p, k, q) /\ ~Queued(q)' /\ QueueKept(q, r)
<1> DEFINE ended == [job EXCEPT ![p][k] = Off]
           unregistered == [controllers EXCEPT ![p] = 0]
<1>1. /\ ended \in [Project -> [Attempt -> Jobs]]
      /\ \A x \in Project, h \in Attempt : ended[x][h] = IF x = p /\ h = k THEN Off ELSE job[x][h]
  BY OffTyped, ReplaceRun DEF TypeOK
<1>2. CASE /\ Startable(r) = {} /\ waiting' = <<>> /\ activeCount' = activeCount - 1 /\ job' = ended
  <2>1. waiting' \in Seq(Project) /\ WaitingOnce' /\ QueueShrinks
    BY <1>2 DEF WaitingOnce, QueueShrinks, Queued
  <2>2. EndedRun(p, k)
    BY <1>1, <1>2 DEF EndedRun
  <2>3. \A x \in Project : Queued(x) => r[x] # "cloning"
    BY <1>2 DEF Startable, Queued
  <2> QED BY <1>2, <2>1, <2>2, <2>3
<1>3. ASSUME NEW i \in Startable(r), \A h \in Startable(r) : i <= h,
             waiting' = SubSeq(waiting, i + 1, Len(waiting)),
             Begin(waiting[i], clones[waiting[i]], ended, unregistered), activeCount' = activeCount
      PROVE  /\ waiting' \in Seq(Project) /\ WaitingOnce' /\ QueueShrinks /\ waiting # <<>>
             /\ \E q \in Project : /\ Queued(q) /\ r[q] = "cloning" /\ clones[q] \in Attempt
                                   /\ NextRun(p, k, q) /\ ~Queued(q)' /\ QueueKept(q, r)
  <2>0. i \in DOMAIN waiting /\ waiting \in Seq(Project) /\ r[waiting[i]] = "cloning"
    BY DEF TypeOK, Startable
  <2>a. PICK q \in Project : q = waiting[i]
    BY <2>0
  <2>1. i \in DOMAIN waiting /\ q = waiting[i] /\ r[q] = "cloning" /\ waiting \in Seq(Project)
    BY <2>0, <2>a
  <2>2. Queued(q) /\ waiting # <<>>
    BY <2>1 DEF Queued
  <2>3. clones[q] \in Attempt
    BY <2>1, <2>2, ProjectConstants DEF TypeOK, BeginsInOrder, Attempt
  <2>4. NextRun(p, k, q)
    <3>1. job' = [ended EXCEPT ![q][clones[q]] = Started]
      BY <1>3, <2>1 DEF Begin
    <3> HIDE DEF ended
    <3>2. \A x \in Project, h \in Attempt :
            job'[x][h] = IF x = q /\ h = clones[q] THEN Started ELSE ended[x][h]
      BY <1>1, <2>1, <2>3, <3>1, OffTyped, ReplaceRun
    <3> QED BY <1>1, <3>2 DEF NextRun
  <2>5. /\ waiting' \in Seq(Project) /\ Len(waiting') = Len(waiting) - i
        /\ \A j \in DOMAIN waiting' : j + i \in DOMAIN waiting /\ waiting'[j] = waiting[j + i]
        /\ \A j \in DOMAIN waiting : j > i => j - i \in DOMAIN waiting' /\ waiting'[j - i] = waiting[j]
    BY <1>3, <2>1, RestOfQueue
  <2>6. i \in Nat /\ DOMAIN waiting \subseteq Nat /\ DOMAIN waiting' \subseteq Nat
    BY <2>1, <2>5
  <2>7. WaitingOnce'
    <3> SUFFICES ASSUME NEW a \in DOMAIN waiting', NEW b \in DOMAIN waiting', waiting'[a] = waiting'[b]
                 PROVE  a = b
      BY DEF WaitingOnce
    <3>1. a + i = b + i
      BY <2>5 DEF WaitingOnce
    <3> QED BY <2>6, <3>1
  <2>8. QueueShrinks
    BY <2>5 DEF QueueShrinks, Queued
  <2>9. ~Queued(q)'
    <3> SUFFICES ASSUME NEW a \in DOMAIN waiting', waiting'[a] = q  PROVE FALSE
      BY DEF Queued
    <3>1. a + i = i
      BY <2>1, <2>5 DEF WaitingOnce
    <3>2. a \in 1..Len(waiting')
      BY <2>5
    <3> QED BY <2>6, <3>1, <3>2
  <2>10. QueueKept(q, r)
    <3> SUFFICES ASSUME NEW x \in Project, NEW j \in DOMAIN waiting, waiting[j] = x, x # q,
                        r[x] = "cloning"
                 PROVE  \E a \in DOMAIN waiting' : waiting'[a] = x
      BY DEF QueueKept, Queued
    <3>1. j \in Startable(r) /\ i # j
      BY <2>1 DEF Startable
    <3>2. j > i
      BY <1>3, <2>6, <3>1
    <3> QED BY <2>5, <3>2
  <2> QED BY <2>1, <2>2, <2>3, <2>4, <2>5, <2>7, <2>8, <2>9, <2>10
<1> QED
  <2>1. \/ /\ Startable(r) = {} /\ waiting' = <<>> /\ activeCount' = activeCount - 1 /\ job' = ended
        \/ \E i \in Startable(r) :
             /\ \A h \in Startable(r) : i <= h
             /\ waiting' = SubSeq(waiting, i + 1, Len(waiting))
             /\ Begin(waiting[i], clones[waiting[i]], ended, unregistered)
             /\ activeCount' = activeCount
    BY DEF Finish
  <2> QED BY <1>2, <1>3, <2>1

-----------------------------------------------------------------------------
(* Counting the slots *)

LEMMA SlotStarts ==
  ASSUME FiniteSlots, NEW s \in Slot, s \notin Running, Running' = Running \cup {s},
         HasSlot, activeCount' = activeCount + 1, UNCHANGED waiting
  PROVE  FiniteSlots' /\ activeCount' \in Nat
<1>1. IsFiniteSet(Running') /\ Cardinality(Running') = Cardinality(Running) + 1
  BY FS_AddElement DEF FiniteSlots
<1>2. Cardinality(Running) \in Nat /\ activeCount = Cardinality(Running)
  BY FS_CardinalityType DEF FiniteSlots
<1>3. activeCount < MAX_CONCURRENT_CLONES /\ MAX_CONCURRENT_CLONES \in Nat
  BY ProjectConstants DEF HasSlot
<1>4. waiting' = <<>>
  BY <1>2, <1>3 DEF FiniteSlots
<1> QED BY <1>1, <1>2, <1>3, <1>4 DEF FiniteSlots

LEMMA SlotEnds ==
  ASSUME FiniteSlots, NEW s \in Running, Running' = Running \ {s},
         activeCount' = activeCount - 1, waiting' = <<>>
  PROVE  FiniteSlots' /\ activeCount' \in Nat
<1>1. IsFiniteSet(Running') /\ Cardinality(Running') = Cardinality(Running) - 1
  BY FS_RemoveElement DEF FiniteSlots
<1>2. Cardinality(Running') \in Nat /\ Cardinality(Running) \in Nat
  BY <1>1, FS_CardinalityType DEF FiniteSlots
<1>3. activeCount' = Cardinality(Running') /\ activeCount' <= MAX_CONCURRENT_CLONES
  BY <1>1, <1>2, ProjectConstants DEF FiniteSlots
<1> QED BY <1>1, <1>2, <1>3 DEF FiniteSlots

LEMMA SlotIsHandedOn ==
  ASSUME FiniteSlots, NEW s \in Running, NEW t \in Slot, t \notin Running,
         Running' = (Running \ {s}) \cup {t}, activeCount' = activeCount, waiting # <<>>
  PROVE  FiniteSlots' /\ activeCount' \in Nat
<1>1. IsFiniteSet(Running \ {s}) /\ Cardinality(Running \ {s}) = Cardinality(Running) - 1
  BY FS_RemoveElement DEF FiniteSlots
<1>2. t \notin Running \ {s}
  OBVIOUS
<1>3. IsFiniteSet(Running') /\ Cardinality(Running') = Cardinality(Running \ {s}) + 1
  BY <1>1, <1>2, FS_AddElement
<1>4. Cardinality(Running) \in Nat
  BY FS_CardinalityType DEF FiniteSlots
<1>5. activeCount' = Cardinality(Running') /\ activeCount' = MAX_CONCURRENT_CLONES
  BY <1>1, <1>3, <1>4 DEF FiniteSlots
<1> QED BY <1>3, <1>4, <1>5, ProjectConstants DEF FiniteSlots

LEMMA SlotsStay ==
  ASSUME FiniteSlots, Running' = Running, activeCount' = activeCount,
         waiting' # <<>> => waiting # <<>>
  PROVE  FiniteSlots' /\ activeCount' \in Nat
<1>1. Cardinality(Running) \in Nat
  BY FS_CardinalityType DEF FiniteSlots
<1> QED BY <1>1 DEF FiniteSlots

-----------------------------------------------------------------------------
(* The steps, by what they do to the runs *)

\* The runs and the queue stay; a row may become ready.
LEMMA NoRunChanges ==
  ASSUME Inv, UNCHANGED <<clones, job, activeCount, waiting, deleted, retries>>,
         \A x \in Project : row'[x] = row[x] \/ row'[x] = "ready",
         TypeOK', ActiveTaskHasProject'
  PROVE  Inv'
<1>1. WaitingOnce' /\ (\A x \in Project : Queued(x)' <=> Queued(x))
  BY DEF Inv, WaitingOnce, Queued
<1>2. \A x \in Project, h \in Attempt : Works(x, h)' <=> Works(x, h)
  BY DEF Works
<1>3. BeginsInOrder'
  BY <1>1 DEF Inv, BeginsInOrder
<1>4. QueuedNotFailed'
  BY <1>1 DEF Inv, QueuedNotFailed
<1>5. OneWriter'
  BY <1>1, <1>2 DEF Inv, OneWriter
<1>6. CloningIsBacked'
  BY <1>1, <1>2 DEF Inv, CloningIsBacked
<1>7. FiniteSlots'
  <2>1. Running' = Running
    BY DEF Running
  <2> QED BY <2>1, SlotsStay DEF Inv
<1> QED BY <1>1, <1>3, <1>4, <1>5, <1>6, <1>7 DEF Inv

\* A working run goes on, or settles and has its handle to dispose.
LEMMA RunGoesOn ==
  ASSUME Inv, NEW p \in Project, NEW k \in Attempt, NEW v \in Jobs, Works(p, k),
         job' = [job EXCEPT ![p][k] = v],
         UNCHANGED <<clones, activeCount, waiting, task, deleted, retries>>,
         \/ v.pc \in Working /\ row' = row
         \/ v.pc = "dispose" /\ \E to \in {"ready", "failed"} : row' = Mutate(p, to),
         TypeOK'
  PROVE  Inv'
<1>1. \A x \in Project, h \in Attempt : job'[x][h] = IF x = p /\ h = k THEN v ELSE job[x][h]
  BY ReplaceRun DEF Inv, TypeOK
<1>2. WaitingOnce' /\ (\A x \in Project : Queued(x)' <=> Queued(x))
  BY DEF Inv, WaitingOnce, Queued
<1>3. row[p] # "failed" /\ ~Queued(p) /\ \A h \in Attempt : Works(p, h) => h = k
  BY DEF Inv, OneWriter
<1>4. /\ \A x \in Project \ {p} : row'[x] = row[x]
      /\ row'[p] = "absent" => row[p] = "absent"
      /\ row'[p] = "failed" => v.pc = "dispose"
      /\ row'[p] = "cloning" => row' = row /\ v.pc \in Working
      /\ row[p] = "ready" => row'[p] = "ready"
  <2>1. CASE v.pc \in Working /\ row' = row
    BY <1>3, <2>1
  <2>2. CASE v.pc = "dispose" /\ \E to \in {"ready", "failed"} : row' = Mutate(p, to)
    <3>1. row[p] \in {"absent", "cloning", "ready"}
      BY <1>3 DEF Inv, TypeOK
    <3>2. PICK to \in {"ready", "failed"} : row' = Mutate(p, to)
      BY <2>2
    <3>3. <<row[p], to>> \in CanTransition <=> row[p] = "cloning"
      BY <3>1 DEF CanTransition
    <3>4. row[p] = "cloning" => row' = [row EXCEPT ![p] = to]
      BY <3>2, <3>3 DEF Mutate, Saved
    <3>5. row[p] # "cloning" => row' = row
      BY <3>2, <3>3 DEF Mutate
    <3>6. row \in [Project -> {"absent", "cloning", "ready", "failed"}]
      BY DEF Inv, TypeOK
    <3> QED BY <2>2, <3>1, <3>2, <3>4, <3>5, <3>6
  <2> QED BY <2>1, <2>2
<1>5. BeginsInOrder'
  <2> SUFFICES ASSUME NEW x \in Project
               PROVE  /\ clones[x] <= retries + 1
                      /\ row'[x] = "absent" /\ x \notin deleted => clones[x] = 0
                      /\ Queued(x) => clones[x] >= 1 /\ job'[x][clones[x]].pc = "off"
                      /\ \A h \in Attempt : h > clones[x] => job'[x][h].pc = "off"
    BY <1>2 DEF BeginsInOrder
  <2>1. /\ clones[x] <= retries + 1
        /\ row[x] = "absent" /\ x \notin deleted => clones[x] = 0
        /\ Queued(x) => clones[x] >= 1 /\ job[x][clones[x]].pc = "off"
        /\ \A h \in Attempt : h > clones[x] => job[x][h].pc = "off"
    BY DEF Inv, BeginsInOrder
  <2>2. row'[x] = "absent" => row[x] = "absent"
    BY <1>4
  <2>3. Queued(x) => clones[x] \in Attempt /\ x # p
    BY <1>3, <2>1, ProjectConstants DEF Inv, TypeOK, Attempt
  <2>4. ASSUME NEW h \in Attempt, h > clones[x]  PROVE job'[x][h].pc = "off"
    <3>1. ~(x = p /\ h = k)
      BY <2>1, <2>4 DEF Works, Working, Preparing
    <3> QED BY <1>1, <2>1, <2>4, <3>1
  <2> QED BY <1>1, <2>1, <2>2, <2>3, <2>4
<1>6. QueuedNotFailed'
  BY <1>2, <1>3, <1>4 DEF Inv, QueuedNotFailed
<1>7. \A x \in Project, h \in Attempt : Works(x, h)' => Works(x, h)
  BY <1>1 DEF Works
<1>8. OneWriter'
  <2> SUFFICES ASSUME NEW x \in Project, NEW h \in Attempt, Works(x, h)'
               PROVE  row'[x] # "failed" /\ ~Queued(x)' /\ \A g \in Attempt : Works(x, g)' => g = h
    BY DEF OneWriter
  <2>1. row[x] # "failed" /\ ~Queued(x) /\ \A g \in Attempt : Works(x, g) => g = h
    BY <1>7 DEF Inv, OneWriter
  <2>2. row'[x] # "failed"
    <3>1. CASE x = p
      <4>1. h = k /\ job'[x][h] = v
        BY <1>1, <1>3, <1>7, <3>1
      <4> QED BY <1>4, <3>1, <4>1 DEF Works, Working, Preparing
    <3>2. CASE x # p
      BY <1>4, <2>1, <3>2
    <3> QED BY <3>1, <3>2
  <2> QED BY <1>2, <1>7, <2>1, <2>2
<1>9. CloningIsBacked'
  <2> SUFFICES ASSUME NEW x \in Project, row'[x] = "cloning"
               PROVE  Queued(x)' \/ \E h \in Attempt : Works(x, h)'
    BY DEF CloningIsBacked
  <2>1. CASE x = p
    BY <1>1, <1>4, <2>1 DEF Works
  <2>2. CASE x # p
    <3>1. Queued(x) \/ \E h \in Attempt : Works(x, h)
      BY <1>4, <2>2 DEF Inv, CloningIsBacked
    <3>2. \A h \in Attempt : Works(x, h) => Works(x, h)'
      BY <1>1, <2>2 DEF Works
    <3> QED BY <1>2, <3>1, <3>2
  <2> QED BY <2>1, <2>2
<1>10. FiniteSlots'
  <2>1. \A x \in Project, h \in Attempt : job'[x][h].pc # "off" <=> job[x][h].pc # "off"
    BY <1>1 DEF Works, Working, Preparing
  <2>2. Running' = Running
    BY <2>1 DEF Running, Slot
  <2> QED BY <2>2, SlotsStay DEF Inv
<1>11. ActiveTaskHasProject'
  BY <1>4 DEF Inv, ActiveTaskHasProject
<1> QED BY <1>2, <1>5, <1>6, <1>8, <1>9, <1>10, <1>11 DEF Inv

\* All that has a type but the runs, their queue and their slots.
RestTyped ==
  /\ row \in [Project -> {"absent", "cloning", "ready", "failed"}]
  /\ source \in [Project -> {"git", "empty"}]
  /\ disk \in [Project -> {"none", "empty", "partial", "full"}]
  /\ clones \in [Project -> 0..(MaxRetries + 1)]
  /\ emptying \in [Project -> {"no", "rm", "mkdir"}]
  /\ syncing \in [Project -> BOOLEAN] /\ removing \in [Project -> BOOLEAN]
  /\ task \in [Project -> {"no", "admitting", "active"}]
  /\ deleted \subseteq Project /\ tangled \subseteq Project /\ cancelled \subseteq Project
  /\ hurried \subseteq Project
  /\ retries \in 0..MaxRetries /\ crashes \in 0..MaxCrashes

LEMMA Settled ==
  ASSUME TypeOK, NEW p \in Project, row[p] # "failed", NEW to \in {"ready", "failed"},
         row' = Mutate(p, to)
  PROVE  /\ row' \in [Project -> {"absent", "cloning", "ready", "failed"}]
         /\ \A x \in Project \ {p} : row'[x] = row[x]
         /\ row'[p] # "cloning" /\ (row'[p] = "absent" => row[p] = "absent")
         /\ (row[p] = "ready" => row'[p] = "ready")
<1>1. row[p] \in {"absent", "cloning", "ready"}
      /\ row \in [Project -> {"absent", "cloning", "ready", "failed"}]
  BY DEF TypeOK
<1>2. <<row[p], to>> \in CanTransition <=> row[p] = "cloning"
  BY <1>1 DEF CanTransition
<1>3. row[p] = "cloning" => row' = [row EXCEPT ![p] = to]
  BY <1>2 DEF Mutate, Saved
<1>4. row[p] # "cloning" => row' = row
  BY <1>2 DEF Mutate
<1> QED BY <1>1, <1>3, <1>4

\* A run ends, after it has settled its row or after its handle is disposed.
LEMMA RunEnds ==
  ASSUME Inv, NEW p \in Project, NEW k \in Attempt, Finish(p, k, row'),
         UNCHANGED <<clones, task, deleted, retries>>,
         \/ Works(p, k) /\ \E to \in {"ready", "failed"} : row' = Mutate(p, to)
         \/ job[p][k].pc = "dispose" /\ row' = row,
         RestTyped'
  PROVE  Inv'
<1>1. /\ job' \in [Project -> [Attempt -> Jobs]]
      /\ controllers' \in [Project -> 0..(MaxRetries + 1)]
  BY FinishTyped DEF Inv
<1>2. /\ waiting' \in Seq(Project) /\ WaitingOnce' /\ QueueShrinks
      /\ \/ /\ waiting' = <<>> /\ activeCount' = activeCount - 1 /\ EndedRun(p, k)
            /\ \A x \in Project : Queued(x) => row'[x] # "cloning"
         \/ /\ waiting # <<>> /\ activeCount' = activeCount
            /\ \E q \in Project : /\ Queued(q) /\ row'[q] = "cloning" /\ clones[q] \in Attempt
                                  /\ NextRun(p, k, q) /\ ~Queued(q)' /\ QueueKept(q, row')
  BY FinishQueue DEF Inv
<1>3. job[p][k].pc # "off" /\ <<p, k>> \in Running
  <2>1. job[p][k].pc # "off"
    BY DEF Works, Working, Preparing
  <2> QED BY <2>1 DEF Running, Slot
<1>4. /\ \A x \in Project \ {p} : row'[x] = row[x]
      /\ row'[p] = "absent" => row[p] = "absent"
      /\ row[p] = "ready" => row'[p] = "ready"
      /\ Works(p, k) => row'[p] # "cloning"
      /\ ~Works(p, k) => row' = row
  <2>1. CASE Works(p, k) /\ \E to \in {"ready", "failed"} : row' = Mutate(p, to)
    <3>1. row[p] # "failed"
      BY <2>1 DEF Inv, OneWriter
    <3> QED BY <2>1, <3>1, Settled DEF Inv
  <2>2. CASE job[p][k].pc = "dispose" /\ row' = row
    BY <2>2 DEF Works, Working, Preparing
  <2> QED BY <2>1, <2>2
<1>5. Works(p, k) => ~Queued(p) /\ \A h \in Attempt : Works(p, h) => h = k
  BY DEF Inv, OneWriter
<1>6. ActiveTaskHasProject'
  BY <1>4 DEF Inv, ActiveTaskHasProject
<1>7. QueuedNotFailed'
  <2> SUFFICES ASSUME NEW x \in Project, Queued(x)  PROVE row'[x] # "failed"
    BY <1>2 DEF QueuedNotFailed, QueueShrinks
  <2>1. row[x] # "failed"
    BY DEF Inv, QueuedNotFailed
  <2>2. x # p \/ ~Works(p, k)
    BY <1>5
  <2> QED BY <1>4, <2>1, <2>2
<1>8. CASE /\ waiting' = <<>> /\ activeCount' = activeCount - 1 /\ EndedRun(p, k)
           /\ \A x \in Project : Queued(x) => row'[x] # "cloning"
  <2>1. \A x \in Project, h \in Attempt : job'[x][h] = IF x = p /\ h = k THEN Off ELSE job[x][h]
    BY <1>8 DEF EndedRun
  <2>2. \A x \in Project, h \in Attempt : Works(x, h)' <=> Works(x, h) /\ ~(x = p /\ h = k)
    BY <2>1, OffTyped DEF Works, Working, Preparing
  <2>3. \A x \in Project : ~Queued(x)'
    BY <1>8 DEF Queued
  <2>4. BeginsInOrder'
    BY <1>4, <2>1, <2>3, OffTyped DEF Inv, BeginsInOrder
  <2>5. OneWriter'
    <3> SUFFICES ASSUME NEW x \in Project, NEW h \in Attempt, Works(x, h), ~(x = p /\ h = k)
                 PROVE  row'[x] # "failed" /\ \A g \in Attempt : Works(x, g) => g = h
      BY <2>2, <2>3 DEF OneWriter
    <3>1. row[x] # "failed" /\ \A g \in Attempt : Works(x, g) => g = h
      BY DEF Inv, OneWriter
    <3>2. x # p \/ ~Works(p, k)
      BY <3>1
    <3> QED BY <1>4, <3>1, <3>2
  <2>6. CloningIsBacked'
    <3> SUFFICES ASSUME NEW x \in Project, row'[x] = "cloning"
                 PROVE  \E h \in Attempt : Works(x, h) /\ ~(x = p /\ h = k)
      BY <2>2 DEF CloningIsBacked
    <3>1. ~Queued(x) /\ row[x] = "cloning"
      BY <1>4, <1>8
    <3>2. PICK h \in Attempt : Works(x, h)
      BY <3>1 DEF Inv, CloningIsBacked
    <3> QED BY <1>4, <3>2
  <2>7. Running' = Running \ {<<p, k>>}
    BY <2>1, OffTyped DEF Running, Slot
  <2>8. FiniteSlots' /\ activeCount' \in Nat
    BY <1>3, <1>8, <2>7, SlotEnds DEF Inv
  <2> QED BY <1>1, <1>2, <1>6, <1>7, <2>4, <2>5, <2>6, <2>8 DEF Inv, TypeOK, RestTyped
<1>9. CASE /\ waiting # <<>> /\ activeCount' = activeCount
           /\ \E q \in Project : /\ Queued(q) /\ row'[q] = "cloning" /\ clones[q] \in Attempt
                                 /\ NextRun(p, k, q) /\ ~Queued(q)' /\ QueueKept(q, row')
  <2>0. PICK q \in Project : /\ Queued(q) /\ row'[q] = "cloning" /\ clones[q] \in Attempt
                             /\ NextRun(p, k, q) /\ ~Queued(q)' /\ QueueKept(q, row')
    BY <1>9
  <2>1. \A x \in Project, h \in Attempt :
          job'[x][h] = IF x = q /\ h = clones[q] THEN Started
                       ELSE IF x = p /\ h = k THEN Off ELSE job[x][h]
    BY <2>0 DEF NextRun
  <2>2. job[q][clones[q]].pc = "off" /\ ~(q = p /\ clones[q] = k)
    BY <1>3, <2>0 DEF Inv, BeginsInOrder
  <2>3. /\ \A x \in Project, h \in Attempt :
             Works(x, h)' <=> \/ x = q /\ h = clones[q]
                              \/ Works(x, h) /\ ~(x = p /\ h = k)
        /\ \A h \in Attempt : ~Works(q, h)
    <3>1. \A h \in Attempt : ~Works(q, h)
      BY <2>0 DEF Inv, OneWriter
    <3> QED BY <2>1, <3>1, OffTyped DEF Works, Working, Preparing
  <2>4. BeginsInOrder'
    <3> SUFFICES ASSUME NEW x \in Project
                 PROVE  /\ clones[x] <= retries + 1
                        /\ row'[x] = "absent" /\ x \notin deleted => clones[x] = 0
                        /\ Queued(x)' => clones[x] >= 1 /\ job'[x][clones[x]].pc = "off"
                        /\ \A h \in Attempt : h > clones[x] => job'[x][h].pc = "off"
      BY DEF BeginsInOrder
    <3>1. /\ clones[x] <= retries + 1
          /\ row[x] = "absent" /\ x \notin deleted => clones[x] = 0
          /\ Queued(x) => clones[x] >= 1 /\ job[x][clones[x]].pc = "off"
          /\ \A h \in Attempt : h > clones[x] => job[x][h].pc = "off"
      BY DEF Inv, BeginsInOrder
    <3>2. row'[x] = "absent" => row[x] = "absent"
      BY <1>4
    <3>3. ASSUME Queued(x)'  PROVE clones[x] >= 1 /\ job'[x][clones[x]].pc = "off"
      <4>1. Queued(x) /\ x # q
        BY <1>2, <2>0, <3>3 DEF QueueShrinks
      <4>2. clones[x] \in Attempt
        BY <3>1, <4>1, ProjectConstants DEF Inv, TypeOK, Attempt
      <4> QED BY <2>1, <3>1, <4>1, <4>2, OffTyped
    <3>4. ASSUME NEW h \in Attempt, h > clones[x]  PROVE job'[x][h].pc = "off"
      <4>1. ~(x = q /\ h = clones[q])
        BY <2>0, <3>4 DEF Attempt
      <4> QED BY <2>1, <3>1, <3>4, <4>1, OffTyped
    <3> QED BY <3>1, <3>2, <3>3, <3>4
  <2>5. OneWriter'
    <3> SUFFICES ASSUME NEW x \in Project, NEW h \in Attempt, Works(x, h)'
                 PROVE  row'[x] # "failed" /\ ~Queued(x)' /\ \A g \in Attempt : Works(x, g)' => g = h
      BY DEF OneWriter
    <3>1. CASE x = q
      BY <2>0, <2>3, <3>1
    <3>2. CASE x # q
      <4>1. Works(x, h) /\ ~(x = p /\ h = k)
        BY <2>3, <3>2
      <4>2. row[x] # "failed" /\ ~Queued(x) /\ \A g \in Attempt : Works(x, g) => g = h
        BY <4>1 DEF Inv, OneWriter
      <4>3. x # p \/ ~Works(p, k)
        BY <4>1, <4>2
      <4>4. ~Queued(x)'
        BY <1>2, <4>2 DEF QueueShrinks
      <4> QED BY <1>4, <2>3, <3>2, <4>2, <4>3, <4>4
    <3> QED BY <3>1, <3>2
  <2>6. CloningIsBacked'
    <3> SUFFICES ASSUME NEW x \in Project, row'[x] = "cloning", x # q
                 PROVE  Queued(x)' \/ \E h \in Attempt : Works(x, h)'
      BY <2>0, <2>3 DEF CloningIsBacked
    <3>1. row[x] = "cloning"
      BY <1>4
    <3>2. CASE Queued(x)
      BY <2>0, <3>2 DEF QueueKept
    <3>3. CASE \E h \in Attempt : Works(x, h)
      BY <1>4, <2>3, <3>3
    <3> QED BY <3>1, <3>2, <3>3 DEF Inv, CloningIsBacked
  <2>7. /\ Running' = (Running \ {<<p, k>>}) \cup {<<q, clones[q]>>}
        /\ <<q, clones[q]>> \in Slot /\ <<q, clones[q]>> \notin Running
    BY <2>0, <2>1, <2>2, OffTyped DEF Running, Slot
  <2>8. FiniteSlots' /\ activeCount' \in Nat
    BY <1>3, <1>9, <2>7, SlotIsHandedOn DEF Inv
  <2> QED BY <1>1, <1>2, <1>6, <1>7, <2>4, <2>5, <2>6, <2>8 DEF Inv, TypeOK, RestTyped
<1> QED BY <1>2, <1>8, <1>9

-----------------------------------------------------------------------------
(* Entering the queue, and leaving it *)

LEMMA Enqueued ==
  ASSUME Inv, NEW p \in Project, Enqueue(p), row' = [row EXCEPT ![p] = "cloning"],
         row[p] # "ready", ~Queued(p), \A h \in Attempt : ~Works(p, h),
         clones[p] <= retries', retries <= retries', retries' \in 0..MaxRetries,
         UNCHANGED <<task, deleted>>, RestTyped'
  PROVE  Inv'
<1> DEFINE n == clones[p] + 1
<1>1. n \in Attempt /\ n \in 0..(MaxRetries + 1) /\ clones[p] \in Nat
  BY ProjectConstants DEF Inv, TypeOK, Attempt
<1>2. /\ clones' = [clones EXCEPT ![p] = n]
      /\ clones'[p] = n /\ \A x \in Project \ {p} : clones'[x] = clones[x]
  BY DEF Enqueue, Inv, TypeOK
<1>3. row'[p] = "cloning" /\ \A x \in Project \ {p} : row'[x] = row[x]
  BY DEF Inv, TypeOK
<1>4. ActiveTaskHasProject'
  BY <1>3 DEF Inv, ActiveTaskHasProject
<1>5. \A h \in Attempt : h >= n => job[p][h].pc = "off"
  BY <1>1 DEF Inv, BeginsInOrder, Attempt
<1>6. \A x \in Project : clones[x] \in Nat /\ retries \in Nat /\ retries' \in Nat
  BY ProjectConstants DEF Inv, TypeOK
<1> HIDE DEF n
<1>7. CASE /\ HasSlot /\ activeCount' = activeCount + 1
           /\ Begin(p, n, job, controllers) /\ UNCHANGED waiting
  <2>1. /\ job' = [job EXCEPT ![p][n] = Started]
        /\ controllers' = [controllers EXCEPT ![p] = n]
    BY <1>7 DEF Begin
  <2>2. /\ job' \in [Project -> [Attempt -> Jobs]]
        /\ controllers' \in [Project -> 0..(MaxRetries + 1)]
        /\ \A x \in Project, h \in Attempt :
             job'[x][h] = IF x = p /\ h = n THEN Started ELSE job[x][h]
    <3>1. job \in [Project -> [Attempt -> Jobs]] /\ controllers \in [Project -> 0..(MaxRetries + 1)]
      BY DEF Inv, TypeOK
    <3> QED BY <1>1, <2>1, <3>1, OffTyped, ReplaceRun
  <2>3. WaitingOnce' /\ waiting' \in Seq(Project) /\ \A x \in Project : Queued(x)' <=> Queued(x)
    BY <1>7 DEF Inv, TypeOK, WaitingOnce, Queued
  <2>4. \A x \in Project, h \in Attempt : Works(x, h)' <=> Works(x, h) \/ (x = p /\ h = n)
    BY <2>2, OffTyped DEF Works, Working, Preparing
  <2>5. BeginsInOrder'
    <3> SUFFICES ASSUME NEW x \in Project
                 PROVE  /\ clones'[x] <= retries' + 1
                        /\ row'[x] = "absent" /\ x \notin deleted => clones'[x] = 0
                        /\ Queued(x) => clones'[x] >= 1 /\ job'[x][clones'[x]].pc = "off"
                        /\ \A h \in Attempt : h > clones'[x] => job'[x][h].pc = "off"
      BY <2>3 DEF BeginsInOrder
    <3>1. CASE x = p
      <4>1. n <= retries' + 1
        BY <1>1, <1>6 DEF n
      <4>2. \A h \in Attempt : h > n => job'[p][h].pc = "off"
        <5> SUFFICES ASSUME NEW h \in Attempt, h > n  PROVE job'[p][h].pc = "off"
          OBVIOUS
        <5>1. h >= n /\ h # n
          BY <1>1 DEF Attempt
        <5> QED BY <1>5, <2>2, <5>1
      <4> QED BY <1>2, <1>3, <3>1, <4>1, <4>2
    <3>2. CASE x # p
      <4>1. /\ clones[x] <= retries + 1
            /\ row[x] = "absent" /\ x \notin deleted => clones[x] = 0
            /\ Queued(x) => clones[x] >= 1 /\ job[x][clones[x]].pc = "off"
            /\ \A h \in Attempt : h > clones[x] => job[x][h].pc = "off"
        BY DEF Inv, BeginsInOrder
      <4>2. clones[x] <= retries' + 1
        BY <1>6, <4>1
      <4>3. Queued(x) => clones[x] \in Attempt
        BY <4>1, ProjectConstants DEF Inv, TypeOK, Attempt
      <4> QED BY <1>2, <1>3, <2>2, <3>2, <4>1, <4>2, <4>3
    <3> QED BY <3>1, <3>2
  <2>6. QueuedNotFailed'
    BY <1>3, <2>3 DEF Inv, QueuedNotFailed
  <2>7. OneWriter'
    BY <1>3, <2>3, <2>4 DEF Inv, OneWriter
  <2>8. CloningIsBacked'
    BY <1>1, <1>3, <2>3, <2>4 DEF Inv, CloningIsBacked
  <2>9. /\ <<p, n>> \in Slot /\ <<p, n>> \notin Running /\ Running' = Running \cup {<<p, n>>}
    <3>1. job[p][n].pc = "off"
      BY <1>1, <1>5 DEF Attempt
    <3> QED BY <1>1, <2>2, <3>1, OffTyped DEF Running, Slot
  <2>10. FiniteSlots' /\ activeCount' \in Nat
    BY <1>7, <2>9, SlotStarts DEF Inv
  <2> QED BY <1>4, <2>2, <2>3, <2>5, <2>6, <2>7, <2>8, <2>10 DEF Inv, TypeOK, RestTyped
<1>8. CASE ~HasSlot /\ waiting' = Append(waiting, p) /\ UNCHANGED <<job, activeCount, controllers>>
  <2>1. /\ waiting' \in Seq(Project) /\ Len(waiting') = Len(waiting) + 1 /\ Len(waiting) \in Nat
        /\ \A i \in DOMAIN waiting' : \/ i \in DOMAIN waiting /\ waiting'[i] = waiting[i]
                                      \/ i = Len(waiting) + 1 /\ waiting'[i] = p
        /\ \A i \in DOMAIN waiting : i \in DOMAIN waiting' /\ waiting'[i] = waiting[i]
        /\ Len(waiting) + 1 \in DOMAIN waiting' /\ waiting'[Len(waiting) + 1] = p
    BY <1>8 DEF Inv, TypeOK
  <2>2. \A x \in Project : Queued(x)' <=> Queued(x) \/ x = p
    BY <2>1 DEF Queued
  <2>3. WaitingOnce'
    <3> SUFFICES ASSUME NEW i \in DOMAIN waiting', NEW j \in DOMAIN waiting', waiting'[i] = waiting'[j]
                 PROVE  i = j
      BY DEF WaitingOnce
    <3>1. \A h \in DOMAIN waiting : waiting[h] # p
      BY DEF Queued
    <3>2. CASE i \in DOMAIN waiting /\ j \in DOMAIN waiting
      BY <2>1, <3>2 DEF Inv, WaitingOnce
    <3> QED BY <2>1, <3>1, <3>2
  <2>4. \A x \in Project, h \in Attempt : Works(x, h)' <=> Works(x, h)
    BY <1>8 DEF Works
  <2>5. BeginsInOrder'
    <3> SUFFICES ASSUME NEW x \in Project
                 PROVE  /\ clones'[x] <= retries' + 1
                        /\ row'[x] = "absent" /\ x \notin deleted => clones'[x] = 0
                        /\ Queued(x) \/ x = p => clones'[x] >= 1 /\ job[x][clones'[x]].pc = "off"
                        /\ \A h \in Attempt : h > clones'[x] => job[x][h].pc = "off"
      BY <1>8, <2>2 DEF BeginsInOrder
    <3>1. CASE x = p
      <4>1. n <= retries' + 1 /\ n >= 1 /\ n \in Nat
        BY <1>1, <1>6 DEF n
      <4>2. \A h \in Attempt : h > n => h >= n
        BY <4>1 DEF Attempt
      <4>3. job[p][n].pc = "off"
        BY <1>1, <1>5, <4>1
      <4> QED BY <1>2, <1>3, <1>5, <3>1, <4>1, <4>2, <4>3
    <3>2. CASE x # p
      <4>1. /\ clones[x] <= retries + 1
            /\ row[x] = "absent" /\ x \notin deleted => clones[x] = 0
            /\ Queued(x) => clones[x] >= 1 /\ job[x][clones[x]].pc = "off"
            /\ \A h \in Attempt : h > clones[x] => job[x][h].pc = "off"
        BY DEF Inv, BeginsInOrder
      <4>2. clones[x] <= retries' + 1
        BY <1>6, <4>1
      <4> QED BY <1>2, <1>3, <3>2, <4>1, <4>2
    <3> QED BY <3>1, <3>2
  <2>6. QueuedNotFailed'
    BY <1>3, <2>2 DEF Inv, QueuedNotFailed
  <2>7. OneWriter'
    BY <1>3, <2>2, <2>4 DEF Inv, OneWriter
  <2>8. CloningIsBacked'
    BY <1>3, <2>2, <2>4 DEF Inv, CloningIsBacked
  <2>9. FiniteSlots'
    <3>1. Running' = Running
      BY <1>8 DEF Running
    <3>2. activeCount = MAX_CONCURRENT_CLONES
      BY <1>8, ProjectConstants DEF HasSlot, Inv, TypeOK, FiniteSlots
    <3> QED BY <1>8, <3>1, <3>2 DEF Inv, FiniteSlots
  <2> QED BY <1>4, <1>8, <2>1, <2>3, <2>5, <2>6, <2>7, <2>8, <2>9 DEF Inv, TypeOK, RestTyped
<1> QED BY <1>7, <1>8 DEF Enqueue, n

\* cancel disturbs no phase of a run, and no other project in the queue.
LEMMA Aborted ==
  ASSUME Inv, NEW p \in Project, Abort(p)
  PROVE  /\ job' \in [Project -> [Attempt -> Jobs]]
         /\ \A x \in Project, h \in Attempt : job'[x][h].pc = job[x][h].pc
         /\ waiting' \in Seq(Project) /\ WaitingOnce'
         /\ \A x \in Project \ {p} : Queued(x)' <=> Queued(x)
         /\ Queued(p)' => Queued(p) /\ controllers[p] # 0
         /\ waiting' # <<>> => waiting # <<>>
<1>1. CASE /\ controllers[p] # 0 /\ UNCHANGED waiting
           /\ job' = [job EXCEPT ![p][controllers[p]].aborted = TRUE]
  <2>1. controllers[p] \in Attempt
    BY <1>1, ProjectConstants DEF Inv, TypeOK, Attempt
  <2>2. PICK c \in Attempt : c = controllers[p] /\ job' = [job EXCEPT ![p][c].aborted = TRUE]
    BY <1>1, <2>1
  <2>a. PICK v \in Jobs : v.pc = job[p][c].pc /\ job' = [job EXCEPT ![p][c] = v]
    <3>1. TypeOK /\ job' = [job EXCEPT ![p][c].aborted = TRUE]
      BY <2>2 DEF Inv
    <3>2. \E v \in Jobs : v.pc = job[p][c].pc /\ job' = [job EXCEPT ![p][c] = v]
      BY <3>1, SetAborted, Zenon
    <3> QED BY <3>2
  <2>3. /\ job' \in [Project -> [Attempt -> Jobs]]
        /\ \A x \in Project, h \in Attempt : job'[x][h] = IF x = p /\ h = c THEN v ELSE job[x][h]
    BY <2>a, ReplaceRun DEF Inv, TypeOK
  <2>4. \A x \in Project, h \in Attempt : job'[x][h].pc = job[x][h].pc
    BY <2>a, <2>3
  <2> QED BY <1>1, <2>3, <2>4 DEF Inv, TypeOK, WaitingOnce, Queued
<1>2. CASE controllers[p] = 0 /\ Dequeue(p) /\ UNCHANGED job
  <2>1. CASE ~Queued(p)
    <3>1. UNCHANGED waiting
      BY <1>2, <2>1 DEF Dequeue
    <3> QED BY <1>2, <2>1, <3>1 DEF Inv, TypeOK, WaitingOnce, Queued
  <2>2. CASE Queued(p)
    <3>1. PICK i \in DOMAIN waiting : waiting[i] = p /\ waiting' = RemoveAt(waiting, i)
      BY <1>2, <2>2 DEF Dequeue
    <3>2. waiting \in Seq(Project)
      BY DEF Inv, TypeOK
    <3>3. /\ waiting' \in Seq(Project) /\ Len(waiting') = Len(waiting) - 1
          /\ \A j \in DOMAIN waiting' :
               IF j < i THEN j \in DOMAIN waiting /\ waiting'[j] = waiting[j]
                        ELSE j + 1 \in DOMAIN waiting /\ waiting'[j] = waiting[j + 1]
          /\ \A j \in DOMAIN waiting : /\ j < i => j \in DOMAIN waiting' /\ waiting'[j] = waiting[j]
                                       /\ j > i => j - 1 \in DOMAIN waiting' /\ waiting'[j - 1] = waiting[j]
      BY <3>1, <3>2, WithoutPlace
    <3>4. i \in Nat /\ DOMAIN waiting \subseteq Nat /\ DOMAIN waiting' \subseteq Nat /\ waiting # <<>>
      BY <3>1, <3>2, <3>3
    <3>5. \A j, h \in DOMAIN waiting : waiting[j] = waiting[h] => j = h
      BY DEF Inv, WaitingOnce
    <3>6. WaitingOnce'
      <4> SUFFICES ASSUME NEW a \in DOMAIN waiting', NEW b \in DOMAIN waiting', waiting'[a] = waiting'[b]
                   PROVE  a = b
        BY DEF WaitingOnce
      <4>1. CASE a < i /\ b < i
        BY <3>3, <3>5, <4>1
      <4>2. CASE a < i /\ ~(b < i)
        <5>1. a = b + 1
          BY <3>3, <3>5, <4>2
        <5> QED BY <3>4, <4>2, <5>1
      <4>3. CASE ~(a < i) /\ b < i
        <5>1. b = a + 1
          BY <3>3, <3>5, <4>3
        <5> QED BY <3>4, <4>3, <5>1
      <4>4. CASE ~(a < i) /\ ~(b < i)
        <5>1. a + 1 = b + 1
          BY <3>3, <3>5, <4>4
        <5> QED BY <3>4, <5>1
      <4> QED BY <4>1, <4>2, <4>3, <4>4
    <3>7. \A x \in Project : Queued(x)' => Queued(x)
      BY <3>3 DEF Queued
    <3>8. ASSUME NEW x \in Project, x # p, Queued(x)  PROVE Queued(x)'
      <4>1. PICK j \in DOMAIN waiting : waiting[j] = x
        BY <3>8 DEF Queued
      <4>2. j < i \/ j > i
        BY <3>1, <3>4, <3>8, <4>1
      <4> QED BY <3>3, <4>1, <4>2 DEF Queued
    <3>9. ~Queued(p)'
      <4> SUFFICES ASSUME NEW a \in DOMAIN waiting', waiting'[a] = p  PROVE FALSE
        BY DEF Queued
      <4>1. CASE a < i
        <5>1. a = i
          BY <3>1, <3>3, <3>5, <4>1
        <5> QED BY <3>4, <4>1, <5>1
      <4>2. CASE ~(a < i)
        <5>1. a + 1 = i
          BY <3>1, <3>3, <3>5, <4>2
        <5> QED BY <3>4, <4>2, <5>1
      <4> QED BY <4>1, <4>2
    <3> QED BY <1>2, <3>3, <3>4, <3>6, <3>7, <3>8, <3>9 DEF Inv, TypeOK
  <2> QED BY <2>1, <2>2
<1> QED BY <1>1, <1>2 DEF Abort

\* A project is cancelled or deleted: its row stays, fails or goes.
LEMMA Withdrawn ==
  ASSUME Inv, NEW p \in Project,
         UNCHANGED <<clones, activeCount, controllers, retries>>,
         task[p] # "active" \/ row' = row, UNCHANGED task, deleted \subseteq deleted',
         \/ Abort(p)
         \/ row[p] # "cloning" /\ p \in deleted' /\ UNCHANGED <<job, waiting>>,
         \/ row' = row /\ (Queued(p) => controllers[p] # 0)
         \/ row' = [row EXCEPT ![p] = "failed"] /\ controllers[p] = 0 /\ Queued(p) /\ Abort(p)
         \/ row' = [row EXCEPT ![p] = "absent"] /\ p \in deleted',
         RestTyped'
  PROVE  Inv'
<1>1. /\ job' \in [Project -> [Attempt -> Jobs]]
      /\ \A x \in Project, h \in Attempt : job'[x][h].pc = job[x][h].pc
      /\ waiting' \in Seq(Project) /\ WaitingOnce'
      /\ \A x \in Project \ {p} : Queued(x)' <=> Queued(x)
      /\ Queued(p)' => Queued(p)
      /\ Queued(p)' => controllers[p] # 0 \/ row[p] # "cloning"
      /\ Abort(p) /\ controllers[p] = 0 => ~Queued(p)'
      /\ waiting' # <<>> => waiting # <<>>
  <2>1. CASE Abort(p)
    BY <2>1, Aborted
  <2>2. CASE row[p] # "cloning" /\ ~Abort(p) /\ UNCHANGED <<job, waiting>>
    BY <2>2 DEF Inv, TypeOK, WaitingOnce, Queued
  <2> QED BY <2>1, <2>2
<1>2. /\ \A x \in Project \ {p} : row'[x] = row[x]
      /\ \/ row'[p] = row[p] /\ (Queued(p) => controllers[p] # 0)
         \/ row'[p] = "failed" /\ ~Queued(p)' /\ Queued(p)
         \/ row'[p] = "absent" /\ p \in deleted'
      /\ row'[p] # row[p] => row' # row
  BY <1>1 DEF Inv, TypeOK
<1>3. \A x \in Project, h \in Attempt : Works(x, h)' <=> Works(x, h)
  BY <1>1 DEF Works
<1>4. BeginsInOrder'
  <2> SUFFICES ASSUME NEW x \in Project
               PROVE  /\ clones[x] <= retries + 1
                      /\ row'[x] = "absent" /\ x \notin deleted' => clones[x] = 0
                      /\ Queued(x)' => clones[x] >= 1 /\ job'[x][clones[x]].pc = "off"
                      /\ \A h \in Attempt : h > clones[x] => job'[x][h].pc = "off"
    BY DEF BeginsInOrder
  <2>1. /\ clones[x] <= retries + 1
        /\ row[x] = "absent" /\ x \notin deleted => clones[x] = 0
        /\ Queued(x) => clones[x] >= 1 /\ job[x][clones[x]].pc = "off"
        /\ \A h \in Attempt : h > clones[x] => job[x][h].pc = "off"
    BY DEF Inv, BeginsInOrder
  <2>2. Queued(x)' => Queued(x)
    BY <1>1
  <2>3. Queued(x) => clones[x] \in Attempt
    BY <2>1, ProjectConstants DEF Inv, TypeOK, Attempt
  <2>4. row'[x] = "absent" /\ x \notin deleted' => row[x] = "absent" /\ x \notin deleted
    BY <1>2
  <2> QED BY <1>1, <2>1, <2>2, <2>3, <2>4
<1>5. QueuedNotFailed'
  BY <1>1, <1>2 DEF Inv, QueuedNotFailed
<1>6. OneWriter'
  <2> SUFFICES ASSUME NEW x \in Project, NEW h \in Attempt, Works(x, h)
               PROVE  row'[x] # "failed" /\ ~Queued(x)' /\ \A g \in Attempt : Works(x, g) => g = h
    BY <1>3 DEF OneWriter
  <2>1. row[x] # "failed" /\ ~Queued(x) /\ \A g \in Attempt : Works(x, g) => g = h
    BY DEF Inv, OneWriter
  <2> QED BY <1>1, <1>2, <2>1
<1>7. CloningIsBacked'
  <2> SUFFICES ASSUME NEW x \in Project, row'[x] = "cloning"
               PROVE  Queued(x)' \/ \E h \in Attempt : Works(x, h)
    BY <1>3 DEF CloningIsBacked
  <2>1. row[x] = "cloning" /\ (Queued(x) \/ \E h \in Attempt : Works(x, h))
    BY <1>2 DEF Inv, CloningIsBacked
  <2>2. CASE x # p
    BY <1>1, <2>1, <2>2
  <2>3. CASE x = p /\ Queued(p)
    <3>1. controllers[p] # 0 /\ Abort(p)
      BY <1>2, <2>1, <2>3
    <3>2. UNCHANGED waiting
      BY <3>1 DEF Abort
    <3> QED BY <2>3, <3>2 DEF Queued
  <2> QED BY <2>1, <2>2, <2>3
<1>8. FiniteSlots' /\ activeCount' \in Nat
  <2>1. Running' = Running
    BY <1>1 DEF Running, Slot
  <2> QED BY <1>1, <2>1, SlotsStay DEF Inv
<1>9. ActiveTaskHasProject'
  BY <1>2 DEF Inv, ActiveTaskHasProject
<1> QED BY <1>1, <1>4, <1>5, <1>6, <1>7, <1>8, <1>9 DEF Inv, TypeOK, RestTyped

\* A process that starts has no run and no queue, and no row that says cloning.
LEMMA NothingRuns ==
  ASSUME job = [p \in Project |-> [k \in Attempt |-> Off]], activeCount = 0, waiting = <<>>,
         controllers = [p \in Project |-> 0], RestTyped,
         \A p \in Project : /\ row[p] # "cloning" /\ clones[p] <= retries + 1
                            /\ row[p] = "absent" /\ p \notin deleted => clones[p] = 0,
         ActiveTaskHasProject
  PROVE  Inv
<1>1. TypeOK
  BY OffTyped, ProjectConstants DEF TypeOK, RestTyped
<1>2. \A p \in Project : ~Queued(p)
  BY DEF Queued
<1>3. \A p \in Project, k \in Attempt : job[p][k].pc = "off"
  BY OffTyped
<1>4. WaitingOnce /\ BeginsInOrder /\ QueuedNotFailed
  BY <1>2, <1>3 DEF WaitingOnce, BeginsInOrder, QueuedNotFailed
<1>5. OneWriter /\ CloningIsBacked
  BY <1>3 DEF OneWriter, CloningIsBacked, Works, Working, Preparing
<1>6. FiniteSlots
  <2>1. Running = {}
    BY <1>3 DEF Running, Slot
  <2> QED BY <2>1, FS_EmptySet, ProjectConstants DEF FiniteSlots
<1> QED BY <1>1, <1>4, <1>5, <1>6 DEF Inv

LEMMA InitInv == Init => Inv
<1> SUFFICES ASSUME Init  PROVE Inv
  OBVIOUS
<1>1. RestTyped
  BY ProjectConstants DEF Init, RestTyped
<1> QED BY <1>1, NothingRuns DEF Init, ActiveTaskHasProject

LEMMA RestartInv ==
  ASSUME Inv, Restart  PROVE Inv'
<1>1. RestTyped'
  BY ProjectConstants DEF Inv, TypeOK, Restart, RestTyped, history
<1>2. \A p \in Project : row'[p] = IF row[p] = "cloning" THEN "failed" ELSE row[p]
  BY DEF Restart
<1>3. ActiveTaskHasProject'
  BY <1>2 DEF Restart, Inv, ActiveTaskHasProject
<1>4. \A p \in Project : /\ row'[p] # "cloning" /\ clones'[p] <= retries' + 1
                         /\ row'[p] = "absent" /\ p \notin deleted' => clones'[p] = 0
  BY <1>2 DEF Restart, history, Inv, BeginsInOrder
<1>5. WaitingOnce' /\ BeginsInOrder' /\ QueuedNotFailed' /\ OneWriter' /\ CloningIsBacked' /\ TypeOK'
  <2>1. \A p \in Project : ~Queued(p)'
    BY DEF Restart, Queued
  <2>2. \A p \in Project, k \in Attempt : job'[p][k].pc = "off"
    BY OffTyped DEF Restart
  <2>3. TypeOK'
    BY <1>1, OffTyped, ProjectConstants DEF Restart, TypeOK, RestTyped
  <2>4. WaitingOnce' /\ BeginsInOrder' /\ QueuedNotFailed'
    BY <1>4, <2>1, <2>2 DEF Restart, WaitingOnce, BeginsInOrder, QueuedNotFailed
  <2>5. OneWriter' /\ CloningIsBacked'
    BY <1>4, <2>2 DEF OneWriter, CloningIsBacked, Works, Working, Preparing
  <2> QED BY <2>3, <2>4, <2>5
<1>6. FiniteSlots'
  <2>1. Running' = {}
    BY OffTyped DEF Restart, Running, Slot
  <2> QED BY <2>1, FS_EmptySet, ProjectConstants DEF Restart, FiniteSlots
<1> QED BY <1>3, <1>5, <1>6 DEF Inv

-----------------------------------------------------------------------------
(* The actions *)

LEMMA DirsTyped ==
  ASSUME TypeOK, NEW p \in Project, RemoveDir(p) \/ CreateDir(p)
  PROVE  disk' \in [Project -> {"none", "empty", "partial", "full"}]
<1> DEFINE Disks == {"none", "empty", "partial", "full"}
<1>1. disk \in [Project -> Disks] /\ disk[p] \in Disks /\ "none" \in Disks /\ "empty" \in Disks
  BY DEF TypeOK
<1>2. \E v \in Disks : disk' = [disk EXCEPT ![p] = v]
  <2>1. CASE RemoveDir(p)
    BY <1>1, <2>1 DEF RemoveDir
  <2>2. CASE CreateDir(p)
    <3>1. disk' = [disk EXCEPT ![p] = IF disk[p] = "none" THEN "empty" ELSE disk[p]]
      BY <2>2 DEF CreateDir
    <3>2. (IF disk[p] = "none" THEN "empty" ELSE disk[p]) \in Disks
      BY <1>1
    <3> HIDE DEF Disks
    <3> QED BY <3>1, <3>2
  <2> QED BY <2>1, <2>2
<1> HIDE DEF Disks
<1>3. disk' \in [Project -> Disks]
  BY <1>1, <1>2
<1> QED BY <1>3 DEF Disks

LEMMA RunInv ==
  ASSUME Inv, NEW p \in Project, NEW k \in Attempt, RunProceeds(p, k) \/ TimesOut(p, k)
  PROVE  Inv'
<1> USE DEF requests, history, counters, workflow
<1>0. TypeOK
  BY DEF Inv
<1>1. CASE Prepared(p, k)
  <2>1. PICK b \in BOOLEAN : job' = [job EXCEPT ![p][k].pc = "git", ![p][k].auth = b]
    BY <1>1 DEF Prepared, AuthHandles
  <2>2. "git" \in Working /\ "git" \in Working \cup {"dispose"} /\ Works(p, k)
    BY <1>1 DEF Prepared, Works, Working, Preparing
  <2>3. \E v \in Jobs : v.pc = "git" /\ job' = [job EXCEPT ![p][k] = v]
    <3> DEFINE w == [job[p][k] EXCEPT !.pc = "git", !.auth = b]
    <3>1. job \in [Project -> [Attempt -> Jobs]] /\ job[p][k] \in Jobs
      BY <1>0 DEF TypeOK
    <3>2. w \in Jobs /\ w.pc = "git"
      BY <3>1 DEF Jobs, Working, Preparing
    <3>3. job' = [job EXCEPT ![p][k] = w]
      BY <3>1, <2>1
    <3> HIDE DEF w
    <3> QED BY <3>2, <3>3
  <2>3a. PICK v \in Jobs : v.pc = "git" /\ job' = [job EXCEPT ![p][k] = v]
    BY <2>3
  <2>3b. job' \in [Project -> [Attempt -> Jobs]]
    <3>1. job \in [Project -> [Attempt -> Jobs]]
      BY <1>0 DEF TypeOK
    <3> QED BY <2>3a, <3>1, ReplaceRun
  <2>4. TypeOK'
    BY <1>0, <1>1, <2>3b DEF Prepared, TypeOK
  <2> QED BY <1>1, <2>2, <2>3a, <2>4, RunGoesOn DEF Prepared
<1>2. CASE Cloned(p, k)
  <2>1. job' = [job EXCEPT ![p][k].pc = "measure"]
    BY <1>2 DEF Cloned
  <2>2. "measure" \in Working /\ "measure" \in Working \cup {"dispose"} /\ Works(p, k)
    BY <1>2 DEF Cloned, Works, Working, Preparing
  <2>3. \E v \in Jobs : v.pc = "measure" /\ job' = [job EXCEPT ![p][k] = v]
    <3> DEFINE w == [job[p][k] EXCEPT !.pc = "measure"]
    <3>1. job \in [Project -> [Attempt -> Jobs]] /\ job[p][k] \in Jobs
      BY <1>0 DEF TypeOK
    <3>2. w \in Jobs /\ w.pc = "measure"
      BY <3>1 DEF Jobs, Working, Preparing
    <3>3. job' = [job EXCEPT ![p][k] = w]
      BY <3>1, <2>1
    <3> HIDE DEF w
    <3> QED BY <3>2, <3>3
  <2>3a. PICK v \in Jobs : v.pc = "measure" /\ job' = [job EXCEPT ![p][k] = v]
    BY <2>3
  <2>3b. job' \in [Project -> [Attempt -> Jobs]]
    <3>1. job \in [Project -> [Attempt -> Jobs]]
      BY <1>0 DEF TypeOK
    <3> QED BY <2>3a, <3>1, ReplaceRun
  <2>4. TypeOK'
    BY <1>0, <1>2, <2>3b DEF Cloned, TypeOK
  <2> QED BY <1>2, <2>2, <2>3a, <2>4, RunGoesOn DEF Cloned
<1>3. CASE Failed(p, k)
  <2>1. PICK b \in BOOLEAN : job' = [job EXCEPT ![p][k].pc = "wipe", ![p][k].auth = b]
    BY <1>3 DEF Failed, AuthHandles
  <2>2. "wipe" \in Working /\ "wipe" \in Working \cup {"dispose"} /\ Works(p, k)
    BY <1>3 DEF Failed, Works, Working, Preparing
  <2>3. \E v \in Jobs : v.pc = "wipe" /\ job' = [job EXCEPT ![p][k] = v]
    <3> DEFINE w == [job[p][k] EXCEPT !.pc = "wipe", !.auth = b]
    <3>1. job \in [Project -> [Attempt -> Jobs]] /\ job[p][k] \in Jobs
      BY <1>0 DEF TypeOK
    <3>2. w \in Jobs /\ w.pc = "wipe"
      BY <3>1 DEF Jobs, Working, Preparing
    <3>3. job' = [job EXCEPT ![p][k] = w]
      BY <3>1, <2>1
    <3> HIDE DEF w
    <3> QED BY <3>2, <3>3
  <2>3a. PICK v \in Jobs : v.pc = "wipe" /\ job' = [job EXCEPT ![p][k] = v]
    BY <2>3
  <2>3b. job' \in [Project -> [Attempt -> Jobs]]
    <3>1. job \in [Project -> [Attempt -> Jobs]]
      BY <1>0 DEF TypeOK
    <3> QED BY <2>3a, <3>1, ReplaceRun
  <2>4. TypeOK'
    BY <1>0, <1>3, <2>3b DEF Failed, TypeOK
  <2> QED BY <1>3, <2>2, <2>3a, <2>4, RunGoesOn DEF Failed
<1>4. ASSUME NEW to \in {"ready", "failed"}, Works(p, k), Settle(p, k, to),
             UNCHANGED disk \/ RemoveDir(p)
      PROVE  Inv'
  <2>1. row' = Mutate(p, to) /\ UNCHANGED <<source, clones, requests, history, counters>>
    BY <1>4 DEF Settle
  <2>2. row' \in [Project -> {"absent", "cloning", "ready", "failed"}]
    BY <1>0, <1>4, <2>1, Settled DEF Inv, OneWriter
  <2>3. disk' \in [Project -> {"none", "empty", "partial", "full"}]
    BY <1>0, <1>4, DirsTyped DEF TypeOK
  <2>4. RestTyped'
    BY <1>0, <2>1, <2>2, <2>3 DEF TypeOK, RestTyped
  <2>5. CASE Finish(p, k, row')
    BY <1>4, <2>1, <2>4, <2>5, RunEnds
  <2>6. CASE job' = [job EXCEPT ![p][k].pc = "dispose"] /\ UNCHANGED <<activeCount, waiting, controllers>>
    <3>1. \E v \in Jobs : v.pc = "dispose" /\ job' = [job EXCEPT ![p][k] = v]
      <4> DEFINE w == [job[p][k] EXCEPT !.pc = "dispose"]
      <4>1. job \in [Project -> [Attempt -> Jobs]] /\ job[p][k] \in Jobs
        BY <1>0 DEF TypeOK
      <4>2. w \in Jobs /\ w.pc = "dispose"
        BY <4>1 DEF Jobs, Working, Preparing
      <4>3. job' = [job EXCEPT ![p][k] = w]
        BY <4>1, <2>6
      <4> HIDE DEF w
      <4> QED BY <4>2, <4>3
    <3>1a. PICK v \in Jobs : v.pc = "dispose" /\ job' = [job EXCEPT ![p][k] = v]
      BY <3>1
    <3>1b. job' \in [Project -> [Attempt -> Jobs]]
      <4>1. job \in [Project -> [Attempt -> Jobs]]
        BY <1>0 DEF TypeOK
      <4> QED BY <3>1a, <4>1, ReplaceRun
    <3>2. TypeOK'
      BY <1>0, <2>4, <2>6, <3>1b DEF TypeOK, RestTyped
    <3> QED BY <1>4, <2>1, <2>6, <3>1a, <3>2, RunGoesOn
  <2> QED BY <1>4, <2>5, <2>6 DEF Settle
<1>5. CASE Measured(p, k)
  BY <1>4, <1>5 DEF Measured, Works, Working
<1>6. CASE Wiped(p, k)
  BY <1>4, <1>6 DEF Wiped, Works, Working
<1>7. CASE Disposed(p, k)
  <2>1. RestTyped'
    BY <1>0, <1>7 DEF Disposed, TypeOK, RestTyped
  <2>2. Finish(p, k, row')
    BY <1>7 DEF Disposed
  <2> QED BY <1>7, <2>1, <2>2, RunEnds DEF Disposed
<1>8. CASE TimesOut(p, k)
  <2>1. job' = [job EXCEPT ![p][k].aborted = TRUE] /\ job[p][k].pc \in Working /\ Works(p, k)
    BY <1>8 DEF TimesOut, Works, Working, Preparing
  <2>a. \E v \in Jobs : v.pc = job[p][k].pc /\ job' = [job EXCEPT ![p][k] = v]
    BY <1>0, <2>1, SetAborted, Zenon
  <2>2. PICK v \in Jobs : v.pc = job[p][k].pc /\ job' = [job EXCEPT ![p][k] = v]
    BY <2>a
  <2>b. job' \in [Project -> [Attempt -> Jobs]]
    <3>1. job \in [Project -> [Attempt -> Jobs]]
      BY <1>0 DEF TypeOK
    <3> QED BY <2>2, <3>1, ReplaceRun
  <2>3. TypeOK'
    BY <1>0, <1>8, <2>b DEF TimesOut, TypeOK
  <2> QED BY <1>8, <2>1, <2>2, <2>3, RunGoesOn DEF TimesOut
<1> QED BY <1>1, <1>2, <1>3, <1>5, <1>6, <1>7, <1>8 DEF RunProceeds

LEMMA CloneRequestInv ==
  ASSUME Inv, NEW p \in Project,
         CreateGit(p) \/ RetryClone(p) \/ CancelClone(p)
         \/ \E keepBaseline \in BOOLEAN : DeleteProject(p, keepBaseline)
  PROVE  Inv'
<1> USE DEF requests, history, counters, workflow
<1>0. TypeOK
  BY DEF Inv
<1>1. CASE CreateGit(p)
  <2>1. clones[p] = 0 /\ row[p] = "absent"
    BY <1>1 DEF Inv, BeginsInOrder, CreateGit, Fresh
  <2>2. /\ ~Queued(p) /\ \A h \in Attempt : ~Works(p, h)
    BY <2>1, ProjectConstants DEF Inv, BeginsInOrder, Works, Working, Preparing, Attempt
  <2>3. retries' \in 0..MaxRetries /\ clones[p] <= retries' /\ retries <= retries'
    BY <1>0, <1>1, <2>1 DEF TypeOK, CreateGit
  <2>4. clones' = [clones EXCEPT ![p] = 1]
    BY <1>1, <2>1 DEF CreateGit, Enqueue
  <2>5. RestTyped'
    BY <1>0, <1>1, <2>4, ProjectConstants DEF CreateGit, Saved, TypeOK, RestTyped
  <2>6. row' = [row EXCEPT ![p] = "cloning"] /\ Enqueue(p)
        /\ UNCHANGED <<task, deleted, retries>>
    BY <1>1 DEF CreateGit, Saved
  <2> QED BY <2>1, <2>2, <2>3, <2>5, <2>6, Enqueued
<1>2. CASE RetryClone(p)
  <2>1. row[p] = "failed" /\ retries' = retries + 1 /\ retries < MaxRetries
    BY <1>2 DEF RetryClone, CanRetry
  <2>2. ~Queued(p) /\ \A h \in Attempt : ~Works(p, h)
    BY <2>1 DEF Inv, QueuedNotFailed, OneWriter
  <2>3. /\ clones[p] <= retries' /\ retries <= retries' /\ retries' \in 0..MaxRetries
        /\ clones[p] + 1 \in 0..(MaxRetries + 1)
    BY <1>0, <2>1, ProjectConstants DEF Inv, BeginsInOrder, TypeOK
  <2>4. clones' = [clones EXCEPT ![p] = clones[p] + 1]
    BY <1>0, <1>2 DEF RetryClone, Enqueue, TypeOK
  <2>5. RestTyped'
    BY <1>0, <1>2, <2>3, <2>4 DEF RetryClone, Saved, TypeOK, RestTyped
  <2>6. row' = [row EXCEPT ![p] = "cloning"] /\ Enqueue(p) /\ UNCHANGED <<task, deleted>>
    BY <1>2 DEF RetryClone, Saved
  <2> QED BY <2>1, <2>2, <2>3, <2>5, <2>6, Enqueued
<1>3. CASE CancelClone(p)
  <2>1. row[p] = "cloning" /\ Abort(p) /\ row' = CancelledRow(p)
    BY <1>3 DEF CancelClone
  <2>2. task[p] # "active"
    BY <2>1 DEF Inv, ActiveTaskHasProject
  <2>3. \/ row' = row /\ (Queued(p) => controllers[p] # 0)
        \/ row' = [row EXCEPT ![p] = "failed"] /\ controllers[p] = 0 /\ Queued(p)
    BY <2>1 DEF CancelledRow, Mutate, Saved, CanTransition
  <2>4. row' \in [Project -> {"absent", "cloning", "ready", "failed"}]
    BY <1>0, <2>3 DEF TypeOK
  <2>5. RestTyped'
    BY <1>0, <1>3, <2>4 DEF CancelClone, TypeOK, RestTyped
  <2>6. UNCHANGED <<clones, activeCount, controllers, retries, task, deleted>>
    BY <1>3 DEF CancelClone
  <2> QED BY <2>1, <2>2, <2>3, <2>5, <2>6, Withdrawn
<1>4. ASSUME NEW keepBaseline \in BOOLEAN, DeleteProject(p, keepBaseline)  PROVE Inv'
  <2>1. /\ task[p] # "active" /\ p \in deleted' /\ deleted \subseteq deleted'
        /\ UNCHANGED <<clones, activeCount, controllers, retries, task>>
        /\ \/ row[p] = "cloning" /\ Abort(p)
           \/ row[p] # "cloning" /\ UNCHANGED <<job, waiting>>
    BY <1>4 DEF DeleteProject
  <2>2. row' = [row EXCEPT ![p] = IF row[p] = "cloning" /\ controllers[p] = 0 /\ Queued(p)
                                  THEN "failed" ELSE "absent"]
    BY <1>4 DEF DeleteProject, Saved
  <2>3. \/ row' = [row EXCEPT ![p] = "failed"] /\ controllers[p] = 0 /\ Queued(p) /\ Abort(p)
        \/ row' = [row EXCEPT ![p] = "absent"] /\ p \in deleted'
    BY <2>1, <2>2
  <2>4. row' \in [Project -> {"absent", "cloning", "ready", "failed"}]
    BY <1>0, <2>3 DEF TypeOK
  <2>5. RestTyped'
    BY <1>0, <1>4, <2>4 DEF DeleteProject, TypeOK, RestTyped
  <2>6. Abort(p) \/ (row[p] # "cloning" /\ p \in deleted' /\ UNCHANGED <<job, waiting>>)
    BY <2>1
  <2> QED BY <2>1, <2>3, <2>5, <2>6, Withdrawn
<1> QED BY <1>1, <1>2, <1>3, <1>4

LEMMA OtherRequestInv ==
  ASSUME Inv, NEW p \in Project,
         RequestProceeds(p) \/ CreateEmpty(p) \/ ConvertToEmpty(p) \/ StartSync(p) \/ RequestTask(p)
  PROVE  Inv'
<1> USE DEF requests, history, counters, workflow
<1>0. TypeOK /\ ActiveTaskHasProject
  BY DEF Inv
<1>1. CASE CreateEmpty(p) \/ ConvertToEmpty(p) \/ CannotEmpty(p)
  <2>1. /\ UNCHANGED <<row, source, disk, clones, workflow, syncing, removing, task, history, counters>>
        /\ \E a \in {"no", "rm", "mkdir"} : emptying' = [emptying EXCEPT ![p] = a]
    BY <1>1 DEF CreateEmpty, ConvertToEmpty, CannotEmpty
  <2> QED BY <1>0, <2>1, NoRunChanges DEF TypeOK, ActiveTaskHasProject
<1>2. CASE ConvertRemoves(p)
  <2>1. TypeOK'
    BY <1>0, <1>2, DirsTyped DEF TypeOK, ConvertRemoves
  <2> QED BY <1>0, <1>2, <2>1, NoRunChanges DEF ConvertRemoves, ActiveTaskHasProject
<1>3. CASE SavesEmpty(p)
  <2>1. TypeOK'
    BY <1>0, <1>3, DirsTyped DEF TypeOK, SavesEmpty, Saved
  <2>2. \A x \in Project : row'[x] = row[x] \/ row'[x] = "ready"
    BY <1>0, <1>3 DEF TypeOK, SavesEmpty, Saved
  <2> QED BY <1>0, <1>3, <2>1, <2>2, NoRunChanges DEF SavesEmpty, ActiveTaskHasProject
<1>4. CASE StartSync(p)
  <2>1. TypeOK'
    BY <1>0, <1>4 DEF TypeOK, StartSync
  <2> QED BY <1>0, <1>4, <2>1, NoRunChanges DEF StartSync, ActiveTaskHasProject
<1>5. CASE EndSync(p)
  <2>1. TypeOK'
    BY <1>0, <1>5 DEF TypeOK, EndSync, Saved
  <2>2. \A x \in Project : row'[x] = row[x] \/ row'[x] = "ready"
    BY <1>0, <1>5 DEF TypeOK, EndSync, Saved
  <2> QED BY <1>0, <1>5, <2>1, <2>2, NoRunChanges DEF EndSync, ActiveTaskHasProject
<1>6. CASE RequestTask(p) \/ InsertTask(p) \/ EndTask(p)
  <2>1. /\ UNCHANGED <<row, source, disk, clones, workflow, emptying, syncing, removing, history, counters>>
        /\ \/ task' = [task EXCEPT ![p] = "admitting"]
           \/ task' = [task EXCEPT ![p] = "no"]
           \/ task' = [task EXCEPT ![p] = "active"] /\ row[p] = "ready"
    BY <1>6 DEF RequestTask, InsertTask, EndTask, Accepts
  <2>2. TypeOK' /\ ActiveTaskHasProject'
    BY <1>0, <2>1 DEF TypeOK, ActiveTaskHasProject
  <2> QED BY <2>1, <2>2, NoRunChanges
<1>7. CASE DeleteRemoves(p)
  <2>1. TypeOK'
    BY <1>0, <1>7, DirsTyped DEF TypeOK, DeleteRemoves
  <2> QED BY <1>0, <1>7, <2>1, NoRunChanges DEF DeleteRemoves, ActiveTaskHasProject
<1> QED BY <1>1, <1>2, <1>3, <1>4, <1>5, <1>6, <1>7 DEF RequestProceeds

\* Inv is inductive.
LEMMA NextInv == Inv /\ [Next]_vars => Inv'
<1> SUFFICES ASSUME Inv, [Next]_vars  PROVE Inv'
  OBVIOUS
<1>1. ASSUME NEW p \in Project, NEW k \in Attempt, RunProceeds(p, k) \/ TimesOut(p, k)  PROVE Inv'
  BY <1>1, RunInv
<1>2. ASSUME NEW p \in Project, RequestProceeds(p) \/ UserAsks(p)  PROVE Inv'
  BY <1>2, CloneRequestInv, OtherRequestInv DEF UserAsks
<1>3. CASE Restart
  BY <1>3, RestartInv
<1>4. CASE UNCHANGED vars
  <2>1. TypeOK' /\ ActiveTaskHasProject'
    BY <1>4 DEF Inv, TypeOK, ActiveTaskHasProject, vars, workflow, requests, history, counters
  <2> QED BY <1>4, <2>1, NoRunChanges DEF vars, workflow, requests, history, counters
<1> QED BY <1>1, <1>2, <1>3, <1>4 DEF Next

-----------------------------------------------------------------------------
(* The theorems *)

(* Inv holds in every state: what the single properties below rest on.     *)
THEOREM CloneInvariant == Spec => []Inv
BY InitInv, NextInv, PTL DEF Spec

(* Every variable of the clone workflow, its queue and its requests keeps  *)
(* its type, for any number of projects, slots, retries and restarts.      *)
THEOREM TypeCorrect == Spec => []TypeOK
<1>1. Inv => TypeOK
  BY DEF Inv
<1> QED BY <1>1, CloneInvariant, PTL

(* No two runs of the clone workflow work in one baseline directory, and   *)
(* none does while its project can be retried or converted.                *)
THEOREM OneWriterAlways == Spec => []OneWriter
<1>1. Inv => OneWriter
  BY DEF Inv
<1> QED BY <1>1, CloneInvariant, PTL

(* A row that says cloning has a run that will settle it, or a place in    *)
(* the queue of the workflow.                                              *)
THEOREM CloningBacked == Spec => []CloningIsBacked
<1>1. Inv => CloningIsBacked
  BY DEF Inv
<1> QED BY <1>1, CloneInvariant, PTL

(* activeCount is the number of runs, at most the limit, and exactly the   *)
(* limit while a clone waits: a slot is given up once.                     *)
THEOREM SlotsExact == Spec => []SlotsAreExact
<1>1. Inv => SlotsAreExact
  BY DEF Inv, FiniteSlots, Running, Slot, SlotsAreExact
<1> QED BY <1>1, CloneInvariant, PTL

(* An active task has a ready project, however the project is deleted,     *)
(* converted or synced while the task waited for its capacity.             *)
THEOREM TaskHasProject == Spec => []ActiveTaskHasProject
<1>1. Inv => ActiveTaskHasProject
  BY DEF Inv
<1> QED BY <1>1, CloneInvariant, PTL

-----------------------------------------------------------------------------
(* What is on the disk, and what a cancelled clone comes to                *)

HasRun(p) == Queued(p) \/ \E k \in Attempt : Works(p, k)

\* The baseline of a project that was neither deleted nor retried under a conversion: it is
\* written by a clone while the row says cloning, or by a request while it says failed or is
\* not there, and by nobody once the row is ready.
BaselineOf(p) ==
  /\ row[p] = "ready" => IF source[p] = "git" THEN disk[p] = "full" ELSE disk[p] # "none"
  /\ HasRun(p) => row[p] = "cloning" /\ source[p] = "git"
  /\ \A k \in Attempt : job[p][k].pc = "measure" => disk[p] = "full"
  /\ emptying[p] # "no" => row[p] \in {"absent", "failed"}
  /\ syncing[p] => row[p] = "ready" /\ source[p] = "git"
  /\ ~removing[p]

\* A clone that was cancelled in time: no run of it gets past git, none waits.
GivenUp(p) ==
  /\ row[p] # "absent" /\ (row[p] = "ready" => source[p] = "empty")
  /\ ~syncing[p] /\ ~Queued(p)
  /\ \A k \in Attempt : /\ job[p][k].pc # "measure"
                        /\ job[p][k].pc \in Preparing => job[p][k].aborted

Safe(p) ==
  /\ p \notin deleted \cup tangled => BaselineOf(p)
  /\ p \notin deleted /\ syncing[p] => row[p] = "ready"
  /\ p \in cancelled /\ p \notin deleted \cup hurried => GivenUp(p)

BaselineInv == \A p \in Project : Safe(p)

\* A run goes on in its phase, ends, or is the next one of the queue.
RunKept(x, h) ==
  \/ job'[x][h].pc = job[x][h].pc /\ (job[x][h].aborted => job'[x][h].aborted)
  \/ job'[x][h].pc = "off"
  \/ Queued(x) /\ job'[x][h].pc = "prepare"

RunsKept(x) == (Queued(x)' => Queued(x)) /\ \A h \in Attempt : RunKept(x, h)

\* A step that is about another project.
Quiet(x) ==
  /\ row'[x] = row[x] /\ source'[x] = source[x] /\ disk'[x] = disk[x]
  /\ emptying'[x] = emptying[x] /\ syncing'[x] = syncing[x] /\ removing'[x] = removing[x]
  /\ x \in deleted' <=> x \in deleted
  /\ x \in tangled' <=> x \in tangled
  /\ x \in cancelled' <=> x \in cancelled
  /\ x \in hurried' <=> x \in hurried
  /\ RunsKept(x)

LEMMA RunsKeptHas ==
  ASSUME NEW x \in Project, RunsKept(x)
  PROVE  /\ HasRun(x)' => HasRun(x)
         /\ \A h \in Attempt : job'[x][h].pc = "measure" => job[x][h].pc = "measure"
BY DEF RunsKept, RunKept, HasRun, Works, Working, Preparing

LEMMA QuietSafe ==
  ASSUME NEW x \in Project, Safe(x), Quiet(x)
  PROVE  Safe(x)'
<1>1. /\ HasRun(x)' => HasRun(x)
      /\ \A h \in Attempt : job'[x][h].pc = "measure" => job[x][h].pc = "measure"
  BY RunsKeptHas DEF Quiet
<1>2. BaselineOf(x) => BaselineOf(x)'
  BY <1>1 DEF Quiet, BaselineOf
<1>3. GivenUp(x) => GivenUp(x)'
  BY DEF Quiet, RunsKept, RunKept, GivenUp, Preparing
<1> QED BY <1>2, <1>3 DEF Safe, Quiet

LEMMA OthersQuiet ==
  ASSUME BaselineInv, NEW p \in Project, \A x \in Project \ {p} : Quiet(x), Safe(p)'
  PROVE  BaselineInv'
BY QuietSafe DEF BaselineInv

LEMMA RunsStay ==
  ASSUME UNCHANGED <<job, waiting>>
  PROVE  \A x \in Project : RunsKept(x)
BY DEF RunsKept, RunKept, Queued

LEMMA FinishKeeps ==
  ASSUME Inv, NEW p \in Project, NEW k \in Attempt, NEW r, Finish(p, k, r)
  PROVE  /\ \A x \in Project : RunsKept(x)
         /\ \A h \in Attempt : ~Queued(p) /\ job'[p][h].pc # "off" => h # k
<1>1. /\ QueueShrinks
      /\ \/ EndedRun(p, k)
         \/ \E q \in Project : Queued(q) /\ clones[q] \in Attempt /\ NextRun(p, k, q)
  BY FinishQueue, Zenon DEF Inv
<1>2. CASE EndedRun(p, k)
  BY <1>1, <1>2, OffTyped DEF EndedRun, QueueShrinks, RunsKept, RunKept
<1>3. ASSUME NEW q \in Project, Queued(q), NextRun(p, k, q)
      PROVE  /\ \A x \in Project : RunsKept(x)
             /\ \A h \in Attempt : ~Queued(p) /\ job'[p][h].pc # "off" => h # k
  <2>1. ASSUME NEW x \in Project, NEW h \in Attempt PROVE RunKept(x, h)
    BY <1>3, OffTyped DEF NextRun, RunKept
  <2>2. ASSUME NEW h \in Attempt, ~Queued(p), h = k PROVE job'[p][h].pc = "off"
    BY <1>3, <2>2, OffTyped DEF NextRun
  <2> QED BY <1>1, <2>1, <2>2 DEF QueueShrinks, RunsKept
<1> QED BY <1>1, <1>2, <1>3

LEMMA EnqueueKeeps ==
  ASSUME Inv, NEW p \in Project, Enqueue(p), clones[p] + 1 \in Attempt
  PROVE  /\ \A x \in Project \ {p} : RunsKept(x)
         /\ \A h \in Attempt : job'[p][h] = job[p][h] \/ job'[p][h] = Started
<1> DEFINE n == clones[p] + 1
<1>1. job \in [Project -> [Attempt -> Jobs]] /\ waiting \in Seq(Project)
  BY DEF Inv, TypeOK
<1>2. CASE Begin(p, n, job, controllers) /\ UNCHANGED waiting
  <2>1. job' = [job EXCEPT ![p][n] = Started]
    BY <1>2 DEF Begin
  <2> HIDE DEF n
  <2>2. \A x \in Project, h \in Attempt :
          job'[x][h] = IF x = p /\ h = n THEN Started ELSE job[x][h]
    BY <1>1, <2>1, OffTyped, ReplaceRun DEF n
  <2> QED BY <1>2, <2>2 DEF RunsKept, RunKept, Queued
<1>3. CASE waiting' = Append(waiting, p) /\ UNCHANGED job
  <2>1. \A x \in Project \ {p} : Queued(x)' => Queued(x)
    <3>1. \A i \in DOMAIN waiting' : \/ i \in DOMAIN waiting /\ waiting'[i] = waiting[i]
                                     \/ waiting'[i] = p
      BY <1>1, <1>3
    <3> QED BY <3>1 DEF Queued
  <2> QED BY <1>3, <2>1 DEF RunsKept, RunKept
<1> QED BY <1>2, <1>3 DEF Enqueue

LEMMA AbortedRun ==
  ASSUME TypeOK, NEW p \in Project, NEW k \in Attempt,
         job' = [job EXCEPT ![p][k].aborted = TRUE]
  PROVE  \E v \in Jobs : v.pc = job[p][k].pc /\ v.aborted /\ job' = [job EXCEPT ![p][k] = v]
<1> DEFINE v == [job[p][k] EXCEPT !.aborted = TRUE]
<1>1. job \in [Project -> [Attempt -> Jobs]] /\ job[p][k] \in Jobs
  BY DEF TypeOK
<1>2. v \in Jobs /\ v.pc = job[p][k].pc /\ v.aborted
  BY <1>1 DEF Jobs
<1>3. job' = [job EXCEPT ![p][k] = v]
  BY <1>1
<1> HIDE DEF v
<1> QED BY <1>2, <1>3

LEMMA AbortKeeps ==
  ASSUME Inv, NEW p \in Project, Abort(p)
  PROVE  /\ \A x \in Project : RunsKept(x)
         /\ controllers[p] = 0 => ~Queued(p)' /\ UNCHANGED job
         /\ controllers[p] # 0 => controllers[p] \in Attempt /\ job'[p][controllers[p]].aborted
<1>1. /\ \A x \in Project \ {p} : Queued(x)' <=> Queued(x)
      /\ Queued(p)' => Queued(p) /\ controllers[p] # 0
  BY Aborted
<1>2. CASE controllers[p] # 0 /\ job' = [job EXCEPT ![p][controllers[p]].aborted = TRUE]
  <2>1. controllers[p] \in Attempt
    BY <1>2, ProjectConstants DEF Inv, TypeOK, Attempt
  <2>2. PICK c \in Attempt : c = controllers[p] /\ job' = [job EXCEPT ![p][c].aborted = TRUE]
    BY <1>2, <2>1
  <2>3. TypeOK
    BY DEF Inv
  <2>4. PICK v \in Jobs : v.pc = job[p][c].pc /\ v.aborted /\ job' = [job EXCEPT ![p][c] = v]
    BY <2>2, <2>3, AbortedRun, Zenon
  <2>5. \A x \in Project, h \in Attempt : job'[x][h] = IF x = p /\ h = c THEN v ELSE job[x][h]
    BY <2>3, <2>4, ReplaceRun DEF TypeOK
  <2>6. \A x \in Project, h \in Attempt : RunKept(x, h)
    BY <2>4, <2>5 DEF RunKept
  <2>7. job'[p][c].aborted /\ c = controllers[p] /\ c \in Attempt
    BY <2>2, <2>4, <2>5
  <2> QED BY <1>1, <1>2, <2>6, <2>7 DEF RunsKept
<1>3. CASE controllers[p] = 0 /\ UNCHANGED job
  BY <1>1, <1>3 DEF RunsKept, RunKept
<1> QED BY <1>2, <1>3 DEF Abort

-----------------------------------------------------------------------------
(* The actions keep the projects safe                                      *)

\* One run changes, nothing enters or leaves the queue.
LEMMA RunWritten ==
  ASSUME TypeOK, NEW p \in Project, NEW k \in Attempt, NEW v \in Jobs,
         job' = [job EXCEPT ![p][k] = v], UNCHANGED waiting
  PROVE  /\ \A x \in Project \ {p} : RunsKept(x)
         /\ \A h \in Attempt : job'[p][h] = IF h = k THEN v ELSE job[p][h]
         /\ Queued(p)' <=> Queued(p)
<1>1. \A x \in Project, h \in Attempt : job'[x][h] = IF x = p /\ h = k THEN v ELSE job[x][h]
  BY ReplaceRun DEF TypeOK
<1> QED BY <1>1 DEF RunsKept, RunKept, Queued

\* The records the phases of a run leave behind.
LEMMA PhaseWritten ==
  ASSUME TypeOK, NEW p \in Project, NEW k \in Attempt
  PROVE  /\ Prepared(p, k) => \E v \in Jobs : /\ v.pc = "git" /\ v.aborted = job[p][k].aborted
                                             /\ job' = [job EXCEPT ![p][k] = v]
         /\ Cloned(p, k) => \E v \in Jobs : v.pc = "measure" /\ job' = [job EXCEPT ![p][k] = v]
         /\ Failed(p, k) => \E v \in Jobs : v.pc = "wipe" /\ job' = [job EXCEPT ![p][k] = v]
         /\ job' = [job EXCEPT ![p][k].pc = "dispose"] =>
              \E v \in Jobs : v.pc = "dispose" /\ job' = [job EXCEPT ![p][k] = v]
<1>0. job \in [Project -> [Attempt -> Jobs]] /\ job[p][k] \in Jobs
  BY DEF TypeOK
<1>1. ASSUME Prepared(p, k)
      PROVE  \E v \in Jobs : /\ v.pc = "git" /\ v.aborted = job[p][k].aborted
                             /\ job' = [job EXCEPT ![p][k] = v]
  <2>1. PICK b \in BOOLEAN : job' = [job EXCEPT ![p][k].pc = "git", ![p][k].auth = b]
    BY <1>1 DEF Prepared, AuthHandles
  <2> DEFINE w == [job[p][k] EXCEPT !.pc = "git", !.auth = b]
  <2>2. w \in Jobs /\ w.pc = "git" /\ w.aborted = job[p][k].aborted
    BY <1>0 DEF Jobs, Working, Preparing
  <2>3. job' = [job EXCEPT ![p][k] = w]
    BY <1>0, <2>1
  <2> HIDE DEF w
  <2> QED BY <2>2, <2>3
<1>2. ASSUME Cloned(p, k)
      PROVE  \E v \in Jobs : v.pc = "measure" /\ job' = [job EXCEPT ![p][k] = v]
  <2> DEFINE w == [job[p][k] EXCEPT !.pc = "measure"]
  <2>1. w \in Jobs /\ w.pc = "measure"
    BY <1>0 DEF Jobs, Working, Preparing
  <2>2. job' = [job EXCEPT ![p][k] = w]
    BY <1>0, <1>2 DEF Cloned
  <2> HIDE DEF w
  <2> QED BY <2>1, <2>2
<1>3. ASSUME Failed(p, k)
      PROVE  \E v \in Jobs : v.pc = "wipe" /\ job' = [job EXCEPT ![p][k] = v]
  <2>1. PICK b \in BOOLEAN : job' = [job EXCEPT ![p][k].pc = "wipe", ![p][k].auth = b]
    BY <1>3 DEF Failed, AuthHandles
  <2> DEFINE w == [job[p][k] EXCEPT !.pc = "wipe", !.auth = b]
  <2>2. w \in Jobs /\ w.pc = "wipe"
    BY <1>0 DEF Jobs, Working, Preparing
  <2>3. job' = [job EXCEPT ![p][k] = w]
    BY <1>0, <2>1
  <2> HIDE DEF w
  <2> QED BY <2>2, <2>3
<1>4. ASSUME job' = [job EXCEPT ![p][k].pc = "dispose"]
      PROVE  \E v \in Jobs : v.pc = "dispose" /\ job' = [job EXCEPT ![p][k] = v]
  <2> DEFINE w == [job[p][k] EXCEPT !.pc = "dispose"]
  <2>1. w \in Jobs /\ w.pc = "dispose"
    BY <1>0 DEF Jobs, Working, Preparing
  <2>2. job' = [job EXCEPT ![p][k] = w]
    BY <1>0, <1>4
  <2> HIDE DEF w
  <2> QED BY <2>1, <2>2
<1> QED BY <1>1, <1>2, <1>3, <1>4

\* A working run is the only one of its project, which is not failed and does not wait.
LEMMA WorksAlone ==
  ASSUME Inv, NEW p \in Project, NEW k \in Attempt, Works(p, k)
  PROVE  /\ row[p] # "failed" /\ ~Queued(p)
         /\ \A h \in Attempt : h # k => ~Works(p, h) /\ job[p][h].pc # "measure"
                                         /\ job[p][h].pc \notin Preparing
BY DEF Inv, OneWriter, Works, Working

\* prepare, git and a failure on the way to either.
LEMMA PhaseSafe ==
  ASSUME Inv, BaselineInv, NEW p \in Project, NEW k \in Attempt,
         Prepared(p, k) \/ Cloned(p, k) \/ Failed(p, k)
  PROVE  BaselineInv'
<1> USE DEF requests, history, counters, workflow
<1>0. TypeOK /\ Safe(p)
  BY DEF Inv, BaselineInv
<1>1. Works(p, k) /\ job[p][k].pc \in Preparing
  BY DEF Prepared, Cloned, Failed, Works, Working, Preparing
<1>2. /\ UNCHANGED <<row, source, waiting, emptying, syncing, removing, deleted, tangled, cancelled,
                     hurried>>
      /\ \A x \in Project \ {p} : disk'[x] = disk[x]
  BY <1>0 DEF Prepared, Cloned, Failed, TypeOK
<1>3. \E v \in Jobs : /\ job' = [job EXCEPT ![p][k] = v]
                      /\ \/ v.pc = "git" /\ v.aborted = job[p][k].aborted
                         \/ v.pc = "measure" /\ ~job[p][k].aborted /\ disk'[p] = "full"
                         \/ v.pc = "wipe"
  <2>1. CASE Prepared(p, k)  BY <1>0, <2>1, PhaseWritten
  <2>2. CASE Cloned(p, k)
    <3>1. ~job[p][k].aborted /\ disk'[p] = "full"
      BY <1>0, <2>2 DEF Cloned, Killed, TypeOK
    <3> QED BY <1>0, <2>2, <3>1, PhaseWritten
  <2>3. CASE Failed(p, k)  BY <1>0, <2>3, PhaseWritten
  <2> QED BY <2>1, <2>2, <2>3
<1>4. PICK v \in Jobs : /\ job' = [job EXCEPT ![p][k] = v]
                        /\ \/ v.pc = "git" /\ v.aborted = job[p][k].aborted
                           \/ v.pc = "measure" /\ ~job[p][k].aborted /\ disk'[p] = "full"
                           \/ v.pc = "wipe"
  BY <1>3
<1>5. /\ \A x \in Project \ {p} : RunsKept(x)
      /\ \A h \in Attempt : job'[p][h] = IF h = k THEN v ELSE job[p][h]
      /\ Queued(p)' <=> Queued(p)
  BY <1>0, <1>2, <1>4, RunWritten
<1>6. \A x \in Project \ {p} : Quiet(x)
  BY <1>2, <1>5 DEF Quiet
<1>7. \A h \in Attempt : h # k => job[p][h].pc # "measure" /\ job[p][h].pc \notin Preparing
  BY <1>1, WorksAlone
<1>8. HasRun(p)
  BY <1>1 DEF HasRun
<1>9. BaselineOf(p) => BaselineOf(p)'
  <2> SUFFICES ASSUME BaselineOf(p) PROVE BaselineOf(p)'
    OBVIOUS
  <2>1. row[p] = "cloning" /\ source[p] = "git"
    BY <1>8 DEF BaselineOf
  <2>2. \A h \in Attempt : job'[p][h].pc = "measure" => disk'[p] = "full"
    BY <1>4, <1>5, <1>7
  <2> QED BY <1>2, <2>1, <2>2 DEF BaselineOf
<1>10. GivenUp(p) => GivenUp(p)'
  <2> SUFFICES ASSUME GivenUp(p) PROVE GivenUp(p)'
    OBVIOUS
  <2>1. job[p][k].aborted
    BY <1>1 DEF GivenUp
  <2>2. ASSUME NEW h \in Attempt
        PROVE  job'[p][h].pc # "measure" /\ (job'[p][h].pc \in Preparing => job'[p][h].aborted)
    <3>1. CASE h = k  BY <1>4, <1>5, <2>1, <3>1 DEF Preparing
    <3>2. CASE h # k  BY <1>5, <1>7, <3>2
    <3> QED BY <3>1, <3>2
  <2> QED BY <1>2, <1>5, <2>2 DEF GivenUp
<1>11. Safe(p)'
  BY <1>0, <1>2, <1>9, <1>10 DEF Safe
<1> QED BY <1>6, <1>11, OthersQuiet

\* The row is settled, and the run ends or has its handle to dispose.
LEMMA SettledSafe ==
  ASSUME Inv, BaselineInv, NEW p \in Project, NEW k \in Attempt, Measured(p, k) \/ Wiped(p, k)
  PROVE  BaselineInv'
<1> USE DEF requests, history, counters, workflow
<1>0. TypeOK /\ Safe(p)
  BY DEF Inv, BaselineInv
<1>1. Works(p, k)
  BY DEF Measured, Wiped, Works, Working
<1>2. PICK to \in {"ready", "failed"} :
        /\ Settle(p, k, to)
        /\ \/ to = "ready" /\ job[p][k].pc = "measure" /\ UNCHANGED disk
           \/ to = "failed" /\ RemoveDir(p)
  BY DEF Measured, Wiped
<1>3. /\ row' = Mutate(p, to)
      /\ UNCHANGED <<source, emptying, syncing, removing, deleted, tangled, cancelled, hurried>>
  BY <1>2 DEF Settle
<1>4. /\ row[p] # "failed" /\ ~Queued(p)
      /\ \A h \in Attempt : h # k => ~Works(p, h) /\ job[p][h].pc # "measure"
                                      /\ job[p][h].pc \notin Preparing
  BY <1>1, WorksAlone
<1>5. /\ \A x \in Project \ {p} : row'[x] = row[x] /\ disk'[x] = disk[x]
      /\ row[p] = "cloning" => row'[p] = to
      /\ row[p] # "cloning" => row'[p] = row[p]
  <2>1. row \in [Project -> {"absent", "cloning", "ready", "failed"}] /\ row[p] # "failed"
    BY <1>0, <1>4 DEF TypeOK
  <2>2. <<row[p], to>> \in CanTransition <=> row[p] = "cloning"
    BY <2>1 DEF CanTransition
  <2>3. \A x \in Project \ {p} : disk'[x] = disk[x]
    BY <1>0, <1>2 DEF RemoveDir, TypeOK
  <2> QED BY <1>3, <2>1, <2>2, <2>3 DEF Mutate, Saved
<1>6. /\ \A x \in Project \ {p} : RunsKept(x)
      /\ ~Queued(p)'
      /\ \A h \in Attempt : job'[p][h].pc \in {"off", "dispose"} \/ (h # k /\ job'[p][h].pc = job[p][h].pc)
  <2>1. CASE Finish(p, k, row')
    <3>1. /\ \A x \in Project : RunsKept(x)
          /\ \A h \in Attempt : ~Queued(p) /\ job'[p][h].pc # "off" => h # k
      BY <2>1, FinishKeeps
    <3> QED BY <1>4, <3>1 DEF RunsKept, RunKept
  <2>2. CASE job' = [job EXCEPT ![p][k].pc = "dispose"] /\ UNCHANGED waiting
    <3>1. PICK v \in Jobs : v.pc = "dispose" /\ job' = [job EXCEPT ![p][k] = v]
        BY <1>0, <2>2, PhaseWritten
    <3>2. waiting' = waiting
      BY <2>2
    <3>3. /\ \A x \in Project \ {p} : RunsKept(x)
          /\ \A h \in Attempt : job'[p][h] = IF h = k THEN v ELSE job[p][h]
          /\ Queued(p)' <=> Queued(p)
      BY <1>0, <3>1, <3>2, RunWritten
    <3> QED BY <1>4, <3>1, <3>3
  <2> QED BY <1>2, <2>1, <2>2 DEF Settle
<1>7. \A x \in Project \ {p} : Quiet(x)
  BY <1>3, <1>5, <1>6 DEF Quiet
<1>8. \A h \in Attempt : ~Works(p, h)' /\ job'[p][h].pc # "measure" /\ job'[p][h].pc \notin Preparing
  <2> SUFFICES ASSUME NEW h \in Attempt PROVE job'[p][h].pc \notin Working
    BY DEF Works, Working
  <2> QED BY <1>4, <1>6 DEF Works, Working, Preparing
<1>9. BaselineOf(p) => BaselineOf(p)'
  <2> SUFFICES ASSUME BaselineOf(p) PROVE BaselineOf(p)'
    OBVIOUS
  <2>1. row[p] = "cloning" /\ source[p] = "git" /\ emptying[p] = "no" /\ ~syncing[p] /\ ~removing[p]
    BY <1>1 DEF BaselineOf, HasRun
  <2>2. row'[p] = to /\ (to = "ready" => disk'[p] = "full")
    BY <1>2, <1>5, <2>1 DEF BaselineOf
  <2> QED BY <1>3, <1>6, <1>8, <2>1, <2>2 DEF BaselineOf, HasRun
<1>10. GivenUp(p) => GivenUp(p)'
  <2> SUFFICES ASSUME GivenUp(p) PROVE GivenUp(p)'
    OBVIOUS
  <2>1. to = "failed"
    BY <1>2 DEF GivenUp
  <2> QED BY <1>3, <1>5, <1>6, <1>8, <2>1 DEF GivenUp
<1>11. Safe(p)'
  BY <1>0, <1>3, <1>5, <1>9, <1>10 DEF Safe
<1> QED BY <1>7, <1>11, OthersQuiet

LEMMA DisposedSafe ==
  ASSUME Inv, BaselineInv, NEW p \in Project, NEW k \in Attempt, Disposed(p, k)
  PROVE  BaselineInv'
<1> USE DEF requests, history, counters
<1>1. \A x \in Project : RunsKept(x)
  BY FinishKeeps DEF Disposed
<1>2. \A x \in Project : Quiet(x)
  BY <1>1 DEF Disposed, Quiet
<1> QED BY <1>2, QuietSafe DEF BaselineInv

LEMMA TimesOutSafe ==
  ASSUME Inv, BaselineInv, NEW p \in Project, NEW k \in Attempt, TimesOut(p, k)
  PROVE  BaselineInv'
<1> USE DEF requests, history, counters
<1>0. TypeOK
  BY DEF Inv
<1>1. PICK v \in Jobs : v.pc = job[p][k].pc /\ v.aborted /\ job' = [job EXCEPT ![p][k] = v]
  BY <1>0, AbortedRun, Zenon DEF TimesOut
<1>2. waiting' = waiting
  BY DEF TimesOut
<1>3. \A x \in Project : RunsKept(x)
  <2>1. /\ \A x \in Project \ {p} : RunsKept(x)
        /\ \A h \in Attempt : job'[p][h] = IF h = k THEN v ELSE job[p][h]
        /\ Queued(p)' <=> Queued(p)
    BY <1>0, <1>1, <1>2, RunWritten
  <2> QED BY <1>1, <2>1 DEF RunsKept, RunKept
<1>4. \A x \in Project : Quiet(x)
  BY <1>3 DEF TimesOut, Quiet
<1> QED BY <1>4, QuietSafe DEF BaselineInv

\* A clone is asked for: the first one of a project, or another after one that failed.
LEMMA AskedSafe ==
  ASSUME Inv, BaselineInv, NEW p \in Project, CreateGit(p) \/ RetryClone(p)
  PROVE  BaselineInv'
<1> USE DEF requests, history, counters, workflow
<1>0. TypeOK /\ Safe(p)
  BY DEF Inv, BaselineInv
<1>1. /\ Enqueue(p) /\ row' = Saved(p, "cloning")
      /\ UNCHANGED <<disk, emptying, syncing, removing, deleted>>
      /\ \A x \in Project \ {p} : /\ source'[x] = source[x]
                                  /\ x \in tangled' <=> x \in tangled
                                  /\ x \in cancelled' <=> x \in cancelled
                                  /\ x \in hurried' <=> x \in hurried
  BY <1>0 DEF CreateGit, RetryClone, TypeOK
<1>2. /\ row[p] \in {"absent", "failed"} /\ clones[p] + 1 \in Attempt /\ source'[p] = "git"
      /\ \A h \in Attempt : job[p][h].pc \notin Working
  <2>1. CASE CreateGit(p)
    <3>1. row[p] = "absent" /\ clones[p] = 0 /\ source'[p] = "git"
      BY <1>0, <2>1 DEF Inv, BeginsInOrder, CreateGit, Fresh, TypeOK
    <3>2. \A h \in Attempt : job[p][h].pc = "off"
      BY <3>1, ProjectConstants DEF Inv, BeginsInOrder, Attempt
    <3>3. clones[p] + 1 \in Attempt
      BY <3>1, ProjectConstants DEF Attempt
    <3> QED BY <3>1, <3>2, <3>3 DEF Working, Preparing
  <2>2. CASE RetryClone(p)
    <3>1. row[p] = "failed" /\ source'[p] = "git" /\ retries < MaxRetries
      BY <2>2 DEF RetryClone, CanRetry
    <3>2. \A h \in Attempt : job[p][h].pc \notin Working
      BY <3>1 DEF Inv, OneWriter, Works
    <3>3. clones[p] + 1 \in Attempt
      BY <1>0, <3>1, ProjectConstants DEF Inv, BeginsInOrder, TypeOK, Attempt
    <3> QED BY <3>1, <3>2, <3>3
  <2> QED BY <2>1, <2>2
<1>3. /\ \A x \in Project \ {p} : RunsKept(x)
      /\ \A h \in Attempt : job'[p][h] = job[p][h] \/ job'[p][h] = Started
  BY <1>1, <1>2, EnqueueKeeps
<1>4. row'[p] = "cloning" /\ \A x \in Project \ {p} : row'[x] = row[x]
  BY <1>0, <1>1 DEF Saved, TypeOK
<1>5. \A x \in Project \ {p} : Quiet(x)
  BY <1>1, <1>3, <1>4 DEF Quiet
<1>6. \A h \in Attempt : job'[p][h].pc # "measure"
  BY <1>2, <1>3, OffTyped DEF Working, Preparing
<1>7. p \notin cancelled' \/ p \in deleted' \cup hurried'
  <2>1. CASE CreateGit(p)
    BY <1>0, <1>1, <2>1 DEF CreateGit, Fresh, Safe, GivenUp
  <2>2. CASE RetryClone(p)
    BY <2>2 DEF RetryClone
  <2> QED BY <2>1, <2>2
<1>8. p \notin deleted' \cup tangled' => BaselineOf(p)'
  <2>0. SUFFICES ASSUME p \notin deleted' \cup tangled' PROVE BaselineOf(p)'
    OBVIOUS
  <2>1. p \notin deleted \cup tangled /\ emptying[p] = "no"
    <3>1. CASE CreateGit(p)
      BY <2>0, <3>1 DEF CreateGit, Fresh
    <3>2. CASE RetryClone(p)
      BY <2>0, <3>2 DEF RetryClone
    <3> QED BY <3>1, <3>2
  <2>2. ~syncing[p] /\ ~removing[p]
    BY <1>0, <1>2, <2>1 DEF Safe, BaselineOf
  <2> QED BY <1>1, <1>2, <1>4, <1>6, <2>1, <2>2 DEF BaselineOf
<1>9. Safe(p)'
  BY <1>0, <1>1, <1>2, <1>4, <1>7, <1>8 DEF Safe
<1> QED BY <1>5, <1>9, OthersQuiet

-----------------------------------------------------------------------------
(* The registered controllers                                              *)

Runs(p, k) == job[p][k].pc # "off"

\* The registered controller belongs to a run that has not ended.
Registered ==
  \A p \in Project : controllers[p] # 0 => \E k \in Attempt : k = controllers[p] /\ Runs(p, k)

\* A project that is not retried beside an older run has no run but the one asked for last,
\* whose controller is registered.
LoneRun ==
  \A p \in Project : p \notin deleted \cup hurried =>
    \A k \in Attempt : Runs(p, k) => k = clones[p] /\ controllers[p] = k

ControlInv == Registered /\ LoneRun

\* The runs keep their places, and so do their controllers.
LEMMA ControlStays ==
  ASSUME ControlInv, UNCHANGED <<clones, controllers, hurried>>, deleted \subseteq deleted',
         \A x \in Project, h \in Attempt : Runs(x, h)' <=> Runs(x, h)
  PROVE  ControlInv'
BY DEF ControlInv, Registered, LoneRun

\* Another record of a run that goes on.
LEMMA RunsOn ==
  ASSUME TypeOK, NEW p \in Project, NEW k \in Attempt, NEW v \in Jobs,
         job' = [job EXCEPT ![p][k] = v], Runs(p, k), v.pc # "off"
  PROVE  \A x \in Project, h \in Attempt : Runs(x, h)' <=> Runs(x, h)
<1>1. \A x \in Project, h \in Attempt : job'[x][h] = IF x = p /\ h = k THEN v ELSE job[x][h]
  BY ReplaceRun DEF TypeOK
<1> QED BY <1>1 DEF Runs

\* A run ends: its project has no controller, unless it is the next of the queue.
LEMMA ControlEnds ==
  ASSUME Inv, ControlInv, NEW p \in Project, NEW k \in Attempt, NEW r, Finish(p, k, r),
         Runs(p, k), UNCHANGED <<clones, deleted, hurried>>
  PROVE  ControlInv'
<1> DEFINE ended == [job EXCEPT ![p][k] = Off]
           unregistered == [controllers EXCEPT ![p] = 0]
<1>0. TypeOK /\ BeginsInOrder
  BY DEF Inv
<1>1. /\ ended \in [Project -> [Attempt -> Jobs]]
      /\ \A x \in Project, h \in Attempt : ended[x][h] = IF x = p /\ h = k THEN Off ELSE job[x][h]
      /\ \A x \in Project : unregistered[x] = IF x = p THEN 0 ELSE controllers[x]
      /\ unregistered \in [Project -> 0..(MaxRetries + 1)]
  BY <1>0, OffTyped, ReplaceRun, ProjectConstants DEF TypeOK
<1>2. CASE job' = ended /\ controllers' = unregistered
  <2>1. /\ \A x \in Project, h \in Attempt :
               Runs(x, h)' <=> Runs(x, h) /\ ~(x = p /\ h = k)
        /\ \A x \in Project : controllers'[x] = IF x = p THEN 0 ELSE controllers[x]
    BY <1>1, <1>2, OffTyped DEF Runs
  <2>2. Registered'
    BY <2>1 DEF ControlInv, Registered
  <2>3. LoneRun'
    BY <2>1 DEF ControlInv, LoneRun
  <2> QED BY <2>2, <2>3 DEF ControlInv
<1>3. CASE \E i \in Startable(r) : Begin(waiting[i], clones[waiting[i]], ended, unregistered)
  <2>1. PICK i \in Startable(r) : Begin(waiting[i], clones[waiting[i]], ended, unregistered)
    BY <1>3
  <2>2. PICK q \in Project : q = waiting[i] /\ Queued(q)
    BY <1>0, <2>1 DEF TypeOK, Startable, Queued
  <2>a. clones[q] >= 1 /\ job[q][clones[q]].pc = "off"
    BY <1>0, <2>2 DEF BeginsInOrder
  <2>b. clones[q] \in Attempt
    BY <1>0, <2>a, ProjectConstants DEF TypeOK, Attempt
  <2>3. PICK c \in Attempt : c = clones[q] /\ ~Runs(q, c)
    BY <2>a, <2>b DEF Runs
  <2> HIDE DEF ended, unregistered
  <2>4. job' = [ended EXCEPT ![q][c] = Started] /\ controllers' = [unregistered EXCEPT ![q] = c]
    BY <2>1, <2>2, <2>3 DEF Begin
  <2>5. \A x \in Project, h \in Attempt :
          job'[x][h] = IF x = q /\ h = c THEN Started ELSE ended[x][h]
    BY <1>1, <2>4, OffTyped, ReplaceRun
  <2>6. \A x \in Project : controllers'[x] = IF x = q THEN c ELSE unregistered[x]
    BY <1>1, <2>4
  <2>7. \A x \in Project, h \in Attempt :
          Runs(x, h)' <=> (x = q /\ h = c) \/ (Runs(x, h) /\ ~(x = p /\ h = k))
    BY <1>1, <2>3, <2>5, OffTyped DEF Runs
  <2>8. Registered'
    BY <1>1, <2>6, <2>7 DEF ControlInv, Registered
  <2>9. LoneRun'
    <3> SUFFICES ASSUME NEW x \in Project, x \notin deleted \cup hurried,
                        NEW h \in Attempt, Runs(x, h)'
                 PROVE  h = clones[x] /\ controllers'[x] = h
      BY DEF LoneRun
    <3>1. CASE x = q /\ h = c
      BY <2>3, <2>6, <3>1
    <3>2. CASE Runs(x, h) /\ ~(x = p /\ h = k)
      <4>1. h = clones[x] /\ controllers[x] = h
        BY <3>2 DEF ControlInv, LoneRun
      <4>2. x # q
        BY <2>3, <3>2, <4>1
      <4>3. x # p
        <5> SUFFICES ASSUME x = p PROVE FALSE
          OBVIOUS
        <5> QED BY <3>2, <4>1 DEF ControlInv, LoneRun
      <4> QED BY <1>1, <2>6, <4>1, <4>2, <4>3
    <3> QED BY <2>7, <3>1, <3>2
  <2> QED BY <2>8, <2>9 DEF ControlInv
<1> QED BY <1>2, <1>3 DEF Finish

\* A clone is asked for: it runs with its controller at once, or waits without one.
LEMMA ControlAsked ==
  ASSUME Inv, ControlInv, NEW p \in Project, CreateGit(p) \/ RetryClone(p)
  PROVE  ControlInv'
<1> USE DEF requests, history, counters, workflow
<1> DEFINE n == clones[p] + 1
<1>0. TypeOK
  BY DEF Inv
<1>1. Enqueue(p) /\ UNCHANGED deleted
  BY DEF CreateGit, RetryClone
<1>2. n \in Attempt
  <2>1. CASE CreateGit(p)
    BY <1>0, <2>1, ProjectConstants DEF Inv, BeginsInOrder, CreateGit, Fresh, TypeOK, Attempt
  <2>2. CASE RetryClone(p)
    BY <1>0, <2>2, ProjectConstants DEF Inv, BeginsInOrder, RetryClone, TypeOK, Attempt
  <2> QED BY <2>1, <2>2
<1>3. /\ \A x \in Project \ {p} : x \in hurried' <=> x \in hurried
      /\ p \notin deleted \cup hurried' => \A h \in Attempt : ~Runs(p, h)
  <2>1. CASE CreateGit(p)
    <3>1. clones[p] = 0 /\ hurried' = hurried
      BY <1>0, <2>1 DEF Inv, BeginsInOrder, CreateGit, Fresh, TypeOK
    <3>2. \A h \in Attempt : ~Runs(p, h)
      BY <3>1, ProjectConstants DEF Inv, BeginsInOrder, Attempt, Runs
    <3> QED BY <3>1, <3>2
  <2>2. CASE RetryClone(p)
    BY <1>0, <2>2 DEF RetryClone, Runs, TypeOK
  <2> QED BY <2>1, <2>2
<1>4. /\ clones' = [clones EXCEPT ![p] = n]
      /\ \A x \in Project : clones'[x] = IF x = p THEN n ELSE clones[x]
  BY <1>0, <1>1 DEF Enqueue, TypeOK
<1> HIDE DEF n
<1>5. CASE Begin(p, n, job, controllers)
  <2>1. job' = [job EXCEPT ![p][n] = Started] /\ controllers' = [controllers EXCEPT ![p] = n]
    BY <1>5 DEF Begin
  <2>2. \A x \in Project, h \in Attempt :
          job'[x][h] = IF x = p /\ h = n THEN Started ELSE job[x][h]
    BY <1>0, <1>2, <2>1, OffTyped, ReplaceRun DEF TypeOK
  <2>3. \A x \in Project : controllers'[x] = IF x = p THEN n ELSE controllers[x]
    BY <1>0, <2>1 DEF TypeOK
  <2>4. \A x \in Project, h \in Attempt : Runs(x, h)' <=> (x = p /\ h = n) \/ Runs(x, h)
    BY <2>2, OffTyped DEF Runs
  <2>5. Registered'
    BY <1>2, <2>3, <2>4 DEF ControlInv, Registered
  <2>6. LoneRun'
    BY <1>1, <1>3, <1>4, <2>3, <2>4 DEF ControlInv, LoneRun
  <2> QED BY <2>5, <2>6 DEF ControlInv
<1>6. CASE UNCHANGED <<job, controllers>>
  <2>1. \A x \in Project, h \in Attempt : Runs(x, h)' <=> Runs(x, h)
    BY <1>6 DEF Runs
  <2>2. Registered'
    BY <1>6, <2>1 DEF ControlInv, Registered
  <2>3. LoneRun'
    BY <1>1, <1>3, <1>4, <1>6, <2>1 DEF ControlInv, LoneRun
  <2> QED BY <2>2, <2>3 DEF ControlInv
<1> QED BY <1>1, <1>5, <1>6 DEF Enqueue, n

LEMMA NextControl == Inv /\ ControlInv /\ [Next]_vars => ControlInv'
<1> SUFFICES ASSUME Inv, ControlInv, [Next]_vars PROVE ControlInv'
  OBVIOUS
<1> USE DEF requests, history, counters, workflow
<1>0. TypeOK
  BY DEF Inv
<1>1. ASSUME NEW p \in Project, NEW k \in Attempt, RunProceeds(p, k) \/ TimesOut(p, k)
      PROVE  ControlInv'
  <2>0. Runs(p, k) /\ UNCHANGED <<clones, deleted, hurried>>
    BY <1>1 DEF RunProceeds, Runs, Prepared, Cloned, Failed, Measured, Wiped, Disposed, Settle,
                TimesOut, Preparing
  <2>1. CASE Prepared(p, k) \/ Cloned(p, k) \/ Failed(p, k)
    <3>1. UNCHANGED controllers
      BY <2>1 DEF Prepared, Cloned, Failed
    <3>2. PICK v \in Jobs : v.pc # "off" /\ job' = [job EXCEPT ![p][k] = v]
      BY <1>0, <2>1, PhaseWritten
    <3> QED BY <1>0, <2>0, <3>1, <3>2, RunsOn, ControlStays
  <2>2. CASE Measured(p, k) \/ Wiped(p, k)
    <3>1. CASE Finish(p, k, row')
      BY <2>0, <3>1, ControlEnds
    <3>2. CASE job' = [job EXCEPT ![p][k].pc = "dispose"] /\ UNCHANGED controllers
      <4>1. PICK v \in Jobs : v.pc = "dispose" /\ job' = [job EXCEPT ![p][k] = v]
        BY <1>0, <3>2, PhaseWritten
      <4>2. v.pc # "off"
        BY <4>1
      <4> QED BY <1>0, <2>0, <3>2, <4>1, <4>2, RunsOn, ControlStays
    <3> QED BY <2>2, <3>1, <3>2 DEF Measured, Wiped, Settle
  <2>3. CASE Disposed(p, k)
    BY <2>0, <2>3, ControlEnds DEF Disposed
  <2>4. CASE TimesOut(p, k)
    <3>1. UNCHANGED controllers
      BY <2>4 DEF TimesOut
    <3>a. job' = [job EXCEPT ![p][k].aborted = TRUE]
      BY <2>4 DEF TimesOut
    <3>2. PICK v \in Jobs : v.pc = job[p][k].pc /\ v.aborted /\ job' = [job EXCEPT ![p][k] = v]
      BY <1>0, <3>a, AbortedRun, Zenon
    <3>3. v.pc # "off"
      BY <2>0, <3>2 DEF Runs
    <3> QED BY <1>0, <2>0, <3>1, <3>2, <3>3, RunsOn, ControlStays
  <2> QED BY <1>1, <2>1, <2>2, <2>3, <2>4 DEF RunProceeds
<1>2. ASSUME NEW p \in Project, CancelClone(p) \/ \E keep \in BOOLEAN : DeleteProject(p, keep)
      PROVE  ControlInv'
  <2>1. \A x \in Project, h \in Attempt : Runs(x, h)' <=> Runs(x, h)
    BY <1>2, Aborted DEF CancelClone, DeleteProject, Runs
  <2>2. CASE CancelClone(p)
    BY <2>1, <2>2, ControlStays DEF CancelClone
  <2>3. CASE \E keep \in BOOLEAN : DeleteProject(p, keep)
    <3>1. /\ UNCHANGED <<clones, controllers>> /\ p \in deleted' /\ deleted \subseteq deleted'
          /\ \A x \in Project \ {p} : x \in hurried' <=> x \in hurried
      BY <1>0, <2>3 DEF DeleteProject, TypeOK
    <3> QED BY <2>1, <3>1 DEF ControlInv, Registered, LoneRun
  <2> QED BY <1>2, <2>2, <2>3
<1>3. ASSUME NEW p \in Project,
             \/ RequestProceeds(p)
             \/ CreateEmpty(p) \/ ConvertToEmpty(p) \/ StartSync(p) \/ RequestTask(p)
      PROVE  ControlInv'
  <2>1. UNCHANGED <<job, clones, controllers, deleted, hurried>>
    BY <1>3 DEF RequestProceeds, CreateEmpty, ConvertToEmpty, StartSync, RequestTask,
                ConvertRemoves, SavesEmpty, CannotEmpty, EndSync, DeleteRemoves, InsertTask, EndTask
  <2> QED BY <2>1, ControlStays DEF Runs
<1>4. CASE Restart
  <2>1. /\ \A x \in Project : controllers'[x] = 0
        /\ \A x \in Project, h \in Attempt : ~Runs(x, h)'
    BY <1>4, OffTyped DEF Restart, Runs
  <2> QED BY <2>1 DEF ControlInv, Registered, LoneRun
<1>5. CASE UNCHANGED vars
  BY <1>5, ControlStays DEF vars, Runs
<1>6. ASSUME NEW p \in Project, UserAsks(p) PROVE ControlInv'
  BY <1>2, <1>3, <1>6, ControlAsked DEF UserAsks
<1> QED BY <1>1, <1>3, <1>4, <1>5, <1>6 DEF Next

LEMMA InitControl == Init => ControlInv
BY OffTyped DEF Init, ControlInv, Registered, LoneRun, Runs

-----------------------------------------------------------------------------
(* The requests keep the projects safe                                     *)

\* A clone is cancelled: its run is told to stop, or it leaves the queue as failed.
LEMMA CancelSafe ==
  ASSUME Inv, ControlInv, BaselineInv, NEW p \in Project, CancelClone(p)
  PROVE  BaselineInv'
<1> USE DEF requests, history, counters, workflow
<1>0. TypeOK /\ Safe(p)
  BY DEF Inv, BaselineInv
<1>1. /\ row[p] = "cloning" /\ Abort(p) /\ row' = CancelledRow(p)
      /\ UNCHANGED <<source, disk, controllers, emptying, syncing, removing, deleted, tangled, hurried>>
      /\ cancelled' = IF InTime(p) THEN cancelled \cup {p} ELSE cancelled
  BY DEF CancelClone
<1>2. /\ \A x \in Project : RunsKept(x)
      /\ controllers[p] = 0 => ~Queued(p)' /\ UNCHANGED job
      /\ controllers[p] # 0 => controllers[p] \in Attempt /\ job'[p][controllers[p]].aborted
  BY <1>1, AbortKeeps
<1>3. /\ \A x \in Project \ {p} : row'[x] = row[x]
      /\ \/ row'[p] = "cloning"
         \/ row'[p] = "failed" /\ controllers[p] = 0 /\ Queued(p)
  <2>1. \/ row' = row
        \/ row' = [row EXCEPT ![p] = "failed"] /\ controllers[p] = 0 /\ Queued(p)
    BY <1>1 DEF CancelledRow, Mutate, Saved
  <2> QED BY <1>0, <1>1, <2>1 DEF TypeOK
<1>4. \A x \in Project \ {p} : Quiet(x)
  BY <1>1, <1>2, <1>3 DEF Quiet
<1>5. /\ HasRun(p)' => HasRun(p)
      /\ \A h \in Attempt : job'[p][h].pc = "measure" => job[p][h].pc = "measure"
  BY <1>2, RunsKeptHas
<1>6. Queued(p) => \A h \in Attempt : ~Works(p, h)
  BY DEF Inv, OneWriter
<1>7. BaselineOf(p) => BaselineOf(p)'
  <2> SUFFICES ASSUME BaselineOf(p) PROVE BaselineOf(p)'
    OBVIOUS
  <2>1. HasRun(p)' => row'[p] = "cloning" /\ source'[p] = "git"
    <3>1. CASE row'[p] = "cloning"
      BY <1>1, <1>5, <3>1 DEF BaselineOf
    <3>2. CASE row'[p] = "failed" /\ controllers[p] = 0 /\ Queued(p)
      BY <1>2, <1>6, <3>2 DEF HasRun, Works
    <3> QED BY <1>3, <3>1, <3>2
  <2>2. row'[p] # "ready" /\ emptying[p] = "no" /\ ~syncing[p] /\ ~removing[p]
    BY <1>1, <1>3 DEF BaselineOf
  <2>3. \A h \in Attempt : job'[p][h].pc = "measure" => disk'[p] = "full"
    BY <1>1, <1>5 DEF BaselineOf
  <2> QED BY <1>1, <2>1, <2>2, <2>3 DEF BaselineOf
<1>8. p \notin deleted => ~syncing[p]
  BY <1>0, <1>1 DEF Safe
<1>9. ASSUME p \in cancelled', p \notin deleted' \cup hurried' PROVE GivenUp(p)'
  <2>0. p \notin deleted \cup hurried
    BY <1>1, <1>9
  <2>1. row'[p] # "absent" /\ row'[p] # "ready" /\ ~syncing'[p]
    BY <1>1, <1>3, <1>8, <2>0
  <2>2. CASE Queued(p)
    <3>1. controllers[p] = 0
      <4> SUFFICES ASSUME controllers[p] # 0 PROVE FALSE
        OBVIOUS
      <4>1. PICK c \in Attempt : c = controllers[p] /\ Runs(p, c)
        BY DEF ControlInv, Registered
      <4>2. c = clones[p] /\ job[p][c].pc # "off"
        BY <2>0, <4>1 DEF ControlInv, LoneRun, Runs
      <4> QED BY <2>2, <4>2 DEF Inv, BeginsInOrder
    <3>2. ~Queued(p)' /\ UNCHANGED job
      BY <1>2, <3>1
    <3>3. \A h \in Attempt : job'[p][h].pc \notin Working
      BY <1>6, <2>2, <3>2 DEF Works
    <3> QED BY <2>1, <3>2, <3>3 DEF GivenUp, Working
  <2>3. CASE InTime(p) /\ ~Queued(p)
    <3>1. PICK c \in Attempt : c = clones[p] /\ job[p][c].pc \in Preparing
      <4>1. clones[p] \in Attempt
        <5>1. PICK k \in Attempt : Works(p, k)
          BY <1>1, <2>3 DEF Inv, CloningIsBacked
        <5>2. ~(k > clones[p])
          BY <5>1 DEF Inv, BeginsInOrder, Works, Working, Preparing
        <5> QED BY <1>0, <5>2, ProjectConstants DEF TypeOK, Attempt
      <4> QED BY <2>3, <4>1 DEF InTime
    <3>2. Works(p, c) /\ Runs(p, c)
      BY <3>1 DEF Works, Working, Runs, Preparing
    <3>3. controllers[p] = c /\ job'[p][c].aborted
      BY <1>2, <2>0, <3>2, ProjectConstants DEF ControlInv, LoneRun, Attempt
    <3>4. \A h \in Attempt : h # c => job[p][h].pc # "measure" /\ job[p][h].pc \notin Preparing
      BY <3>2, WorksAlone
    <3>5. ~Queued(p)'
      BY <1>2, <2>3 DEF RunsKept
    <3>6. ASSUME NEW h \in Attempt
          PROVE  job'[p][h].pc # "measure" /\ (job'[p][h].pc \in Preparing => job'[p][h].aborted)
      <4>1. job'[p][h].pc = job[p][h].pc \/ job'[p][h].pc = "off"
        BY <1>2, <2>3 DEF RunsKept, RunKept
      <4> QED BY <3>1, <3>3, <3>4, <4>1 DEF Preparing
    <3> QED BY <2>1, <3>5, <3>6 DEF GivenUp
  <2>4. CASE ~InTime(p)
    <3>1. GivenUp(p)
      BY <1>0, <1>1, <1>9, <2>0, <2>4 DEF Safe
    <3> QED BY <1>2, <2>1, <3>1 DEF GivenUp, RunsKept, RunKept, Preparing
  <2> QED BY <2>2, <2>3, <2>4
<1>10. Safe(p)'
  BY <1>0, <1>1, <1>7, <1>8, <1>9 DEF Safe
<1> QED BY <1>4, <1>10, OthersQuiet

LEMMA DeleteSafe ==
  ASSUME Inv, BaselineInv, NEW p \in Project, NEW keep \in BOOLEAN, DeleteProject(p, keep)
  PROVE  BaselineInv'
<1>0. TypeOK
  BY DEF Inv
<1>1. \A x \in Project : RunsKept(x)
  BY AbortKeeps, RunsStay DEF DeleteProject
<1>2. \A x \in Project \ {p} : Quiet(x)
  BY <1>0, <1>1 DEF DeleteProject, Saved, Quiet, TypeOK
<1>3. Safe(p)'
  BY DEF DeleteProject, Safe
<1> QED BY <1>2, <1>3, OthersQuiet

\* The requests that ask for no clone.
LEMMA RequestSafe ==
  ASSUME Inv, BaselineInv, NEW p \in Project,
         RequestProceeds(p) \/ CreateEmpty(p) \/ ConvertToEmpty(p) \/ StartSync(p) \/ RequestTask(p)
  PROVE  BaselineInv'
<1> USE DEF requests, history, counters, workflow
<1>0. TypeOK /\ Safe(p)
  BY DEF Inv, BaselineInv
<1>1. UNCHANGED <<job, waiting, deleted, tangled, cancelled, hurried>>
  BY DEF RequestProceeds, CreateEmpty, ConvertToEmpty, StartSync, RequestTask, ConvertRemoves,
         SavesEmpty, CannotEmpty, EndSync, DeleteRemoves, InsertTask, EndTask
<1>2. \A x \in Project : RunsKept(x)
  BY <1>1, RunsStay
<1>3. /\ HasRun(p)' <=> HasRun(p)
      /\ Queued(p)' <=> Queued(p)
  BY <1>1 DEF HasRun, Queued, Works
<1>4. CASE CreateEmpty(p) \/ ConvertToEmpty(p) \/ CannotEmpty(p)
  <2>1. /\ UNCHANGED <<row, source, disk, syncing, removing>>
        /\ \A x \in Project \ {p} : emptying'[x] = emptying[x]
        /\ emptying'[p] # "no" => row[p] \in {"absent", "failed"}
    BY <1>0, <1>4 DEF CreateEmpty, ConvertToEmpty, CannotEmpty, Fresh, CanConvert, TypeOK
  <2>2. \A x \in Project \ {p} : Quiet(x)
    BY <1>1, <1>2, <2>1 DEF Quiet
  <2>3. Safe(p)'
    BY <1>0, <1>1, <1>3, <2>1 DEF Safe, BaselineOf, GivenUp
  <2> QED BY <2>2, <2>3, OthersQuiet
<1>5. CASE ConvertRemoves(p)
  <2>1. /\ UNCHANGED <<row, source, syncing, removing>> /\ emptying[p] # "no"
        /\ \A x \in Project \ {p} : emptying'[x] = emptying[x] /\ disk'[x] = disk[x]
    BY <1>0, <1>5 DEF ConvertRemoves, RemoveDir, TypeOK
  <2>2. \A x \in Project \ {p} : Quiet(x)
    BY <1>1, <1>2, <2>1 DEF Quiet
  <2>3. BaselineOf(p) => BaselineOf(p)'
    BY <1>1, <1>3, <2>1 DEF BaselineOf, HasRun, Works, Working
  <2>4. Safe(p)'
    BY <1>0, <1>1, <1>3, <2>1, <2>3 DEF Safe, GivenUp
  <2> QED BY <2>2, <2>4, OthersQuiet
<1>6. CASE SavesEmpty(p)
  <2>1. /\ UNCHANGED <<syncing, removing>> /\ emptying[p] # "no" /\ emptying'[p] = "no"
        /\ row'[p] = "ready" /\ source'[p] = "empty" /\ disk'[p] # "none"
        /\ \A x \in Project \ {p} : /\ emptying'[x] = emptying[x] /\ disk'[x] = disk[x]
                                    /\ row'[x] = row[x] /\ source'[x] = source[x]
    BY <1>0, <1>6 DEF SavesEmpty, CreateDir, Saved, TypeOK
  <2>2. \A x \in Project \ {p} : Quiet(x)
    BY <1>1, <1>2, <2>1 DEF Quiet
  <2>3. BaselineOf(p) => BaselineOf(p)'
    BY <1>1, <1>3, <2>1 DEF BaselineOf, HasRun, Works, Working
  <2>4. GivenUp(p) => GivenUp(p)'
    BY <1>1, <1>3, <2>1 DEF GivenUp
  <2>5. Safe(p)'
    BY <1>0, <1>1, <2>1, <2>3, <2>4 DEF Safe
  <2> QED BY <2>2, <2>5, OthersQuiet
<1>7. CASE StartSync(p)
  <2>1. /\ UNCHANGED <<row, source, disk, emptying, removing>>
        /\ row[p] = "ready" /\ source[p] = "git"
        /\ \A x \in Project \ {p} : syncing'[x] = syncing[x]
    BY <1>0, <1>7 DEF StartSync, TypeOK
  <2>2. \A x \in Project \ {p} : Quiet(x)
    BY <1>1, <1>2, <2>1 DEF Quiet
  <2>3. BaselineOf(p) => BaselineOf(p)'
    BY <1>1, <1>3, <2>1 DEF BaselineOf
  <2>4. ~GivenUp(p)
    BY <2>1 DEF GivenUp
  <2>5. Safe(p)'
    BY <1>0, <1>1, <2>1, <2>3, <2>4 DEF Safe
  <2> QED BY <2>2, <2>5, OthersQuiet
<1>8. CASE EndSync(p)
  <2>1. /\ UNCHANGED <<disk, emptying, removing>> /\ syncing[p] /\ ~syncing'[p]
        /\ \/ row'[p] = row[p] /\ source'[p] = source[p]
           \/ row'[p] = "ready" /\ source'[p] = "git"
        /\ \A x \in Project \ {p} : /\ syncing'[x] = syncing[x]
                                    /\ row'[x] = row[x] /\ source'[x] = source[x]
    BY <1>0, <1>8 DEF EndSync, Saved, TypeOK
  <2>2. \A x \in Project \ {p} : Quiet(x)
    BY <1>1, <1>2, <2>1 DEF Quiet
  <2>3. BaselineOf(p) => BaselineOf(p)'
    BY <1>1, <1>3, <2>1 DEF BaselineOf
  <2>4. ~GivenUp(p)
    BY <2>1 DEF GivenUp
  <2>5. Safe(p)'
    BY <1>0, <1>1, <2>1, <2>3, <2>4 DEF Safe
  <2> QED BY <2>2, <2>5, OthersQuiet
<1>9. CASE RequestTask(p) \/ InsertTask(p) \/ EndTask(p)
  <2>1. UNCHANGED <<row, source, disk, emptying, syncing, removing>>
    BY <1>9 DEF RequestTask, InsertTask, EndTask
  <2>2. \A x \in Project : Quiet(x)
    BY <1>1, <1>2, <2>1 DEF Quiet
  <2> QED BY <2>2, QuietSafe DEF BaselineInv
<1>10. CASE DeleteRemoves(p)
  <2>1. /\ UNCHANGED <<row, source, emptying, syncing>> /\ removing[p]
        /\ \A x \in Project \ {p} : removing'[x] = removing[x] /\ disk'[x] = disk[x]
    BY <1>0, <1>10 DEF DeleteRemoves, RemoveDir, TypeOK
  <2>2. \A x \in Project \ {p} : Quiet(x)
    BY <1>1, <1>2, <2>1 DEF Quiet
  <2>3. ~BaselineOf(p)
    BY <2>1 DEF BaselineOf
  <2>4. GivenUp(p) => GivenUp(p)'
    BY <1>1, <1>3, <2>1 DEF GivenUp
  <2>5. Safe(p)'
    BY <1>0, <1>1, <2>1, <2>3, <2>4 DEF Safe
  <2> QED BY <2>2, <2>5, OthersQuiet
<1> QED BY <1>4, <1>5, <1>6, <1>7, <1>8, <1>9, <1>10 DEF RequestProceeds

LEMMA RestartSafe ==
  ASSUME Inv, BaselineInv, Restart
  PROVE  BaselineInv'
<1>1. /\ UNCHANGED <<source, disk, deleted, tangled, cancelled, hurried>> /\ waiting' = <<>>
      /\ \A x \in Project : /\ row'[x] = IF row[x] = "cloning" THEN "failed" ELSE row[x]
                            /\ emptying'[x] = "no" /\ ~syncing'[x] /\ ~removing'[x]
                            /\ \A h \in Attempt : job'[x][h] = Off
  BY DEF Restart, history
<1>2. \A x \in Project : /\ ~HasRun(x)' /\ ~Queued(x)'
                         /\ \A h \in Attempt : job'[x][h].pc = "off"
  BY <1>1, OffTyped DEF HasRun, Queued, Works, Working, Preparing
<1>3. ASSUME NEW x \in Project PROVE Safe(x)'
  <2>1. Safe(x)
    BY DEF BaselineInv
  <2>2. BaselineOf(x) => BaselineOf(x)'
    BY <1>1, <1>2 DEF BaselineOf
  <2>3. GivenUp(x) => GivenUp(x)'
    BY <1>1, <1>2 DEF GivenUp, Preparing
  <2> QED BY <1>1, <2>1, <2>2, <2>3 DEF Safe
<1> QED BY <1>3 DEF BaselineInv

LEMMA InitBaseline == Init => BaselineInv
<1> SUFFICES ASSUME Init, NEW p \in Project PROVE Safe(p)
  BY DEF BaselineInv
<1>1. ~Queued(p) /\ \A h \in Attempt : job[p][h].pc = "off"
  BY OffTyped DEF Init, Queued
<1>2. ~HasRun(p)
  BY <1>1 DEF HasRun, Works, Working, Preparing
<1>3. BaselineOf(p)
  BY <1>1, <1>2 DEF Init, BaselineOf
<1> QED BY <1>3 DEF Init, Safe

LEMMA NextBaseline == Inv /\ ControlInv /\ BaselineInv /\ [Next]_vars => BaselineInv'
<1> SUFFICES ASSUME Inv, ControlInv, BaselineInv, [Next]_vars PROVE BaselineInv'
  OBVIOUS
<1>1. ASSUME NEW p \in Project, NEW k \in Attempt, RunProceeds(p, k) \/ TimesOut(p, k)
      PROVE  BaselineInv'
  BY <1>1, PhaseSafe, SettledSafe, DisposedSafe, TimesOutSafe DEF RunProceeds
<1>2. ASSUME NEW p \in Project, RequestProceeds(p) \/ UserAsks(p) PROVE BaselineInv'
  BY <1>2, AskedSafe, CancelSafe, DeleteSafe, RequestSafe DEF UserAsks
<1>3. CASE Restart
  BY <1>3, RestartSafe
<1>4. CASE UNCHANGED vars
  <2>1. \A x \in Project : Quiet(x)
    BY <1>4, RunsStay DEF vars, workflow, requests, history, Quiet
  <2> QED BY <2>1, QuietSafe DEF BaselineInv
<1> QED BY <1>1, <1>2, <1>3, <1>4 DEF Next

(* The runs and their controllers: the registered controller is that of a  *)
(* run that has not ended, and the only run of a project that was not      *)
(* retried beside an older one is registered (clone-project.workflow:      *)
(* controllers).                                                           *)
THEOREM ControllersRegistered == Spec => []ControlInv
BY InitControl, NextControl, CloneInvariant, PTL DEF Spec

(* The baselines and the cancelled clones, for any number of projects and  *)
(* slots: what the next two theorems rest on.                              *)
THEOREM BaselineInvariant == Spec => []BaselineInv
BY InitBaseline, NextBaseline, CloneInvariant, ControllersRegistered, PTL DEF Spec

(* A ready project has on disk what its tasks start from: the repository   *)
(* of a git project, a directory for an empty one; whatever was cancelled, *)
(* retried, converted, synced or restarted before (clone-project.workflow, *)
(* project-application.service).                                           *)
THEOREM ReadyHasBaseline == Spec => []ReadyIsOnDisk
<1>1. BaselineInv => ReadyIsOnDisk
  BY DEF BaselineInv, Safe, BaselineOf, ReadyIsOnDisk
<1> QED BY <1>1, BaselineInvariant, PTL

(* A clone cancelled while it waits or before its git command has ended    *)
(* never makes the project a ready git project, also when it is the timer, *)
(* a late answer of git or the queue that comes between; unless the        *)
(* project was retried beside an older run, when the code may lose the     *)
(* cancel (CancelIsObeyed).                                                *)
THEOREM CancelledNeverCloned == Spec => []CancelledIsNotCloned
<1>1. Inv /\ BaselineInv => CancelledIsNotCloned
  <2> SUFFICES ASSUME Inv, BaselineInv, NEW p \in cancelled \ (deleted \cup hurried), row[p] = "ready"
               PROVE  source[p] = "empty"
    BY DEF CancelledIsNotCloned
  <2>1. p \in Project
    BY DEF Inv, TypeOK
  <2> QED BY <2>1 DEF BaselineInv, Safe, GivenUp
<1> QED BY <1>1, BaselineInvariant, CloneInvariant, PTL

=============================================================================
