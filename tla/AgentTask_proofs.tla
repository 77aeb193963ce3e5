--------------------------- MODULE AgentTask_proofs ---------------------------
(***************************************************************************)
(* Proofs about the output of an agent, in a headless task and in the      *)
(* terminals of an interactive one.                                        *)
(*                                                                         *)
(* AgentTask: a cancelled job is recorded as killed, the session of a job  *)
(* is kept until its verdict is saved, a verdict is never changed, and the *)
(* row always admits a part of the log, which is a part of the output, and *)
(* counts exactly the events of that part, so a pump resumes without loss. *)
(* What a client has seen, over replays, subscriptions and restarts, is the *)
(* beginning of the job's events, and its exit comes after all of them.    *)
(*                                                                         *)
(* TerminalSessions: a stream is always held, who is told the end has seen *)
(* all the output, and a task waits exactly when all its terminals do.     *)
(***************************************************************************)
EXTENDS AgentTask, TerminalSessions, FiniteSetTheorems, SequenceTheorems, WellFoundedInduction, TLAPS

\* The type of a row or a copy of it.  Its seq counts parsed events and is left open.
IsRow(r) ==
  /\ DOMAIN r = {"status", "cancel", "how", "cursor", "seq", "bytes"}
  /\ r.status \in Statuses \cup {"absent"} /\ r.cancel \in BOOLEAN /\ r.how \in {"none", "exit", "error"}
  /\ r.cursor \in Nat /\ r.bytes \in Nat

IsJob(j) ==
  /\ DOMAIN j = {"st", "out", "code", "signals"}
  /\ j.st \in {"none", "running", "exited", "lost", "released"} /\ j.out \in Nat

IsPump(p) ==
  /\ DOMAIN p = {"at", "task", "upto", "exited", "attempts", "timedOut"}
  /\ p.at \in {"off", "truncating", "reading", "appending", "delivering", "killing", "collecting",
               "announcing", "releasing"}
  /\ IsRow(p.task) /\ p.upto \in Nat /\ p.exited \in BOOLEAN

Absent == row.status = "absent"

ControlType ==
  /\ IsRow(row) /\ IsJob(job) /\ IsPump(pump)
  /\ deleted \in BOOLEAN
  /\ start \in {"idle", "starting", "clearing", "dropping", "answered", "refused", "lost"}
  /\ cancel \in {"idle", "killing"}

\* Only the request that starts the task makes its row, and nothing precedes it.
StartInv ==
  /\ start # "answered" =>
       /\ Absent /\ pump.at = "off" /\ cancel = "idle"
       /\ "cancel" \notin job.signals
  /\ start = "idle" => job.st = "none"
  /\ start = "starting" => job.st # "released"
  /\ start = "answered" => job.st # "none" /\ (Absent => deleted)
  /\ deleted => Absent

\* Who signalled the job in the name of a cancel has recorded the intent before.
IntentInv == cancel = "killing" \/ "cancel" \in job.signals => row.cancel \/ Absent

\* The copy of the pump and the row.
CopyInv ==
  pump.at # "off" /\ ~Absent =>
    /\ pump.task.cursor = row.cursor
    /\ pump.task.cancel => row.cancel
    /\ pump.at \in {"announcing", "releasing"} => row.status \in Terminal
    /\ pump.at \notin {"announcing", "releasing"} => row.status = "running"

PumpInv ==
  /\ pump.at \notin {"off", "announcing", "releasing"} =>
       pump.task.status = "running" /\ pump.task.how = "none"
  /\ pump.at \in {"truncating", "reading", "killing"} => ~pump.exited
  /\ pump.at = "collecting" => pump.exited
  /\ pump.exited => job.st \in {"exited", "lost", "released"} /\ pump.upto = job.out
  /\ pump.at \notin {"off", "releasing"} => job.st # "released"

\* What the pump knows when it is about to judge an exit.
CollectInv ==
  pump.at = "collecting" =>
    /\ pump.task.cursor = job.out
    /\ "cancel" \in job.signals /\ ~Absent => pump.task.cancel

\* What a finished row says.
VerdictInv ==
  /\ row.status = "running" => row.how = "none"
  /\ row.status = "killed" => row.cancel
  /\ row.how = "exit" =>
       /\ row.status \in Terminal
       /\ job.st \in {"exited", "lost", "released"}
       /\ row.cursor = job.out
       /\ "cancel" \in job.signals => row.status = "killed"
  /\ job.st = "released" => Absent \/ row.status \in Terminal

IInv ==
  /\ ControlType
  /\ StartInv
  /\ IntentInv
  /\ CopyInv
  /\ PumpInv
  /\ CollectInv
  /\ VerdictInv

USE DEF Statuses, Terminal, channel, requests

LEMMA NoRowType ==
  /\ IsRow(NoRow)
  /\ NoRow.status = "absent" /\ ~NoRow.cancel /\ NoRow.how = "none" /\ NoRow.cursor = 0
BY DEF NoRow, IsRow

LEMMA NewTaskType ==
  /\ IsRow(NewTask)
  /\ NewTask.status = "running" /\ ~NewTask.cancel /\ NewTask.how = "none" /\ NewTask.cursor = 0
BY DEF NoRow, NewTask, IsRow

LEMMA IdleType == IsPump(Idle) /\ Idle.at = "off" /\ ~Idle.exited /\ Idle.task = NoRow
<1>1. IsRow(NoRow) BY NoRowType
<1> QED BY <1>1 DEF Idle, IsPump

LEMMA PumpFromType ==
  ASSUME NEW r, IsRow(r)
  PROVE  IsPump(PumpFrom(r)) /\ PumpFrom(r).at = "truncating" /\ PumpFrom(r).task = r
         /\ ~PumpFrom(r).exited
BY DEF Idle, PumpFrom, IsPump

\* What saving a copy writes: its fields, and a cancel that either of the two records.
LEMMA SavedType ==
  ASSUME NEW t, IsRow(t), IsRow(row)
  PROVE  /\ IsRow(Saved(t))
         /\ Saved(t).status = t.status /\ Saved(t).how = t.how /\ Saved(t).cursor = t.cursor
         /\ Saved(t).cancel <=> t.cancel \/ row.cancel
BY DEF Saved, IsRow

LEMMA FinishedType ==
  ASSUME NEW t, IsRow(t), NEW status \in Terminal, NEW how \in {"exit", "error"}
  PROVE  /\ IsRow(Finished(t, status, how))
         /\ Finished(t, status, how).status = status /\ Finished(t, status, how).how = how
         /\ Finished(t, status, how).cursor = t.cursor /\ Finished(t, status, how).cancel = t.cancel
BY DEF Finished, IsRow

LEMMA InitIInv == Init => IInv
<1> SUFFICES ASSUME Init PROVE IInv OBVIOUS
<1>1. row = NoRow /\ pump = Idle /\ job = NoJob /\ start = "idle" /\ cancel = "idle" /\ ~deleted
  BY DEF Init
<1>2. IsJob(NoJob) /\ NoJob.st = "none" /\ NoJob.signals = {} BY DEF NoJob, IsJob
<1>3. ControlType BY <1>1, <1>2, NoRowType, IdleType DEF ControlType, Init
<1>4. StartInv BY <1>1, <1>2, NoRowType, IdleType DEF StartInv, Absent
<1>5. IntentInv BY <1>1, <1>2, NoRowType DEF IntentInv, Absent
<1>6. CopyInv BY <1>1, <1>2, IdleType DEF CopyInv
<1>7. PumpInv /\ CollectInv BY <1>1, <1>2, IdleType DEF PumpInv, CollectInv
<1>8. VerdictInv BY <1>1, <1>2, NoRowType DEF VerdictInv
<1> QED BY <1>3, <1>4, <1>5, <1>6, <1>7, <1>8 DEF IInv

-----------------------------------------------------------------------------
(* The request that starts the task, and the request that cancels it.      *)

LEMMA StartIInv == IInv /\ StartStep => IInv'
<1> SUFFICES ASSUME IInv, StartStep PROVE IInv' OBVIOUS
<1> USE DEF IInv
<1>1. CASE RunTask
  BY <1>1 DEF RunTask, ControlType, IsRow, IsJob, IsPump, StartInv, IntentInv, CopyInv, PumpInv,
              CollectInv, VerdictInv, Absent
<1>2. CASE JobAccepted
  BY <1>2 DEF JobAccepted, ControlType, IsRow, IsJob, IsPump, StartInv, IntentInv, CopyInv,
              PumpInv, CollectInv, VerdictInv, Absent
<1>3. CASE StartThrows
  BY <1>3 DEF StartThrows, ControlType, IsRow, IsJob, IsPump, StartInv, IntentInv, CopyInv,
              PumpInv, CollectInv, VerdictInv, Absent
<1>4. CASE PersistStart
  <2>1. CASE deleted
    BY <1>4, <2>1 DEF PersistStart, ControlType, IsRow, IsJob, IsPump, StartInv, IntentInv,
                      CopyInv, PumpInv, CollectInv, VerdictInv, Absent
  <2>2. CASE ~deleted
    <3>1. /\ start = "starting" /\ start' = "answered" /\ row' = NewTask /\ pump' = PumpFrom(NewTask)
          /\ UNCHANGED <<deleted, job, cancel>>
      BY <1>4, <2>2 DEF PersistStart
    <3>2. job.st \notin {"none", "released"} /\ "cancel" \notin job.signals /\ cancel = "idle"
      BY <1>4, <3>1 DEF PersistStart, StartInv
    <3>3. /\ IsPump(pump') /\ pump'.at = "truncating" /\ pump'.task = row' /\ ~pump'.exited
      BY <3>1, NewTaskType, PumpFromType
    <3>4. ControlType' BY <3>1, <3>3, NewTaskType DEF ControlType
    <3> QED BY <2>2, <3>1, <3>2, <3>3, <3>4, NewTaskType
            DEF StartInv, IntentInv, CopyInv, PumpInv, CollectInv, VerdictInv, Absent
  <2> QED BY <2>1, <2>2
<1>5. CASE ClearKill
  BY <1>5 DEF ClearKill, Signalled, ControlType, IsRow, IsJob, IsPump, StartInv, IntentInv,
              CopyInv, PumpInv, CollectInv, VerdictInv, Absent
<1>6. CASE ClearRelease
  BY <1>6 DEF ClearRelease, Released, ControlType, IsRow, IsJob, IsPump, StartInv, IntentInv,
              CopyInv, PumpInv, CollectInv, VerdictInv, Absent
<1> QED BY <1>1, <1>2, <1>3, <1>4, <1>5, <1>6 DEF StartStep

LEMMA CancelIInv == IInv /\ (Cancel \/ CancelKill) => IInv'
<1> SUFFICES ASSUME IInv, Cancel \/ CancelKill PROVE IInv' OBVIOUS
<1> USE DEF IInv
<1>1. CASE Cancel
  BY <1>1 DEF Cancel, ControlType, IsRow, IsJob, IsPump, StartInv, IntentInv, CopyInv, PumpInv,
              CollectInv, VerdictInv, Absent
<1>2. CASE CancelKill
  BY <1>2 DEF CancelKill, Signalled, ControlType, IsRow, IsJob, IsPump, StartInv, IntentInv,
              CopyInv, PumpInv, CollectInv, VerdictInv, Absent
<1> QED BY <1>1, <1>2

-----------------------------------------------------------------------------
(* The job, the clock, the sandbox and the process.                        *)

LEMMA OutsideIInv ==
  IInv /\ (JobStep \/ DeadlinePasses \/ DeleteSandbox \/ CrashAndBoot) => IInv'
<1> SUFFICES ASSUME IInv, JobStep \/ DeadlinePasses \/ DeleteSandbox \/ CrashAndBoot PROVE IInv'
  OBVIOUS
<1> USE DEF IInv
<1>1. CASE JobPrints
  BY <1>1 DEF JobPrints, ControlType, IsRow, IsJob, IsPump, StartInv, IntentInv, CopyInv, PumpInv,
              CollectInv, VerdictInv, Absent
<1>2. CASE JobExits
  <2>1. /\ IsJob(job') /\ job'.st = "exited" /\ job'.out = job.out /\ job'.signals = job.signals
        /\ job.st = "running"
    BY <1>2 DEF JobExits, ControlType, IsJob
  <2>2. UNCHANGED <<row, deleted, start, cancel, pump>> BY <1>2 DEF JobExits
  <2> QED BY <2>1, <2>2 DEF ControlType, StartInv, IntentInv, CopyInv, PumpInv, CollectInv,
                            VerdictInv, Absent
<1>3. CASE JobDies
  <2>1. /\ IsJob(job') /\ job'.st = "exited" /\ job'.out = job.out /\ job'.signals = job.signals
        /\ job.st = "running"
    BY <1>3 DEF JobDies, ControlType, IsJob
  <2>2. UNCHANGED <<row, deleted, start, cancel, pump>> BY <1>3 DEF JobDies
  <2> QED BY <2>1, <2>2 DEF ControlType, StartInv, IntentInv, CopyInv, PumpInv, CollectInv,
                            VerdictInv, Absent
<1>4. CASE JobLost
  BY <1>4 DEF JobLost, Readable, ControlType, IsRow, IsJob, IsPump, StartInv, IntentInv, CopyInv,
              PumpInv, CollectInv, VerdictInv, Absent
<1>5. CASE DeadlinePasses
  BY <1>5 DEF DeadlinePasses, ControlType, IsRow, IsJob, IsPump, StartInv, IntentInv, CopyInv,
              PumpInv, CollectInv, VerdictInv, Absent
<1>6. CASE DeleteSandbox
  BY <1>6 DEF DeleteSandbox, NoRow, ControlType, IsRow, IsJob, IsPump, StartInv, IntentInv,
              CopyInv, PumpInv, CollectInv, VerdictInv, Absent
<1>7. CASE CrashAndBoot
  <2>1. /\ UNCHANGED <<row, deleted, job>> /\ cancel' = "idle"
        /\ start' = IF start \in {"starting", "clearing", "dropping"} THEN "lost" ELSE start
        /\ pump' = ResumeRunning
    BY <1>7 DEF CrashAndBoot
  <2>2. \/ pump' = Idle
        \/ row.status = "running" /\ pump' = PumpFrom(row)
    BY <2>1 DEF ResumeRunning
  <2>3. CASE pump' = Idle
    BY <2>1, <2>3, IdleType
    DEF ControlType, StartInv, IntentInv, CopyInv, PumpInv, CollectInv, VerdictInv, Absent
  <2>4. CASE row.status = "running" /\ pump' = PumpFrom(row)
    <3>1. /\ IsPump(pump') /\ pump'.at = "truncating" /\ pump'.task = row /\ ~pump'.exited
      BY <2>4, PumpFromType DEF ControlType
    <3> QED BY <2>1, <2>4, <3>1
            DEF ControlType, StartInv, IntentInv, CopyInv, PumpInv, CollectInv, VerdictInv, Absent
  <2> QED BY <2>2, <2>3, <2>4
<1> QED BY <1>1, <1>2, <1>3, <1>4, <1>5, <1>6, <1>7 DEF JobStep

-----------------------------------------------------------------------------
(* The pump.                                                               *)

LEMMA FailWithIInv ==
  ASSUME IInv, FailWith, pump.at \in {"reading", "truncating", "appending", "killing"}
  PROVE  IInv'
<1> USE DEF IInv
<1>0. UNCHANGED <<deleted, job, start, cancel>> BY DEF FailWith
<1>1. CASE deleted
  <2>1. pump' = Idle /\ row' = row BY <1>1 DEF FailWith
  <2> QED BY <1>0, <2>1, IdleType
          DEF ControlType, StartInv, IntentInv, CopyInv, PumpInv, CollectInv, VerdictInv, Absent
<1>2. CASE ~deleted
  <2> DEFINE t == Finished(pump.task, "failed", "error")
  <2>1. /\ row' = Saved(t)
        /\ pump' = [pump EXCEPT !.at = "releasing", !.task = t]
    BY <1>2 DEF FailWith
  <2>2. start = "answered" /\ ~Absent BY <1>2 DEF StartInv
  <2>3. /\ IsRow(t) /\ t.status = "failed" /\ t.how = "error" /\ t.cursor = pump.task.cursor
        /\ t.cancel = pump.task.cancel
    BY FinishedType DEF ControlType, IsPump
  <2>4. /\ IsRow(row') /\ row'.status = "failed" /\ row'.how = "error"
        /\ row'.cursor = pump.task.cursor
        /\ row'.cancel <=> t.cancel \/ row.cancel
    BY <2>1, <2>3, SavedType DEF ControlType
  <2> HIDE DEF t
  <2>5. /\ IsPump(pump') /\ pump'.at = "releasing" /\ pump'.task = t /\ pump'.exited = pump.exited
        /\ pump'.upto = pump.upto
    BY <2>1, <2>3 DEF ControlType, IsPump
  <2>6. ControlType' BY <1>0, <2>4, <2>5 DEF ControlType
  <2>7. StartInv' /\ IntentInv' /\ VerdictInv'
    BY <1>0, <1>2, <2>2, <2>4 DEF StartInv, IntentInv, VerdictInv, Absent
  <2>8. CopyInv' BY <2>2, <2>3, <2>4, <2>5 DEF CopyInv, Absent, ControlType, IsPump, IsRow
  <2>9. PumpInv' /\ CollectInv' BY <1>0, <2>5 DEF PumpInv, CollectInv
  <2> QED BY <2>6, <2>7, <2>8, <2>9
<1> QED BY <1>1, <1>2 DEF ControlType

LEMMA ReadIInv ==
  IInv /\ (TruncateLog \/ ReadAnswers \/ ReadRetries \/ AppendStdout \/ KillOverdue) => IInv'
<1> SUFFICES ASSUME IInv,
                    TruncateLog \/ ReadAnswers \/ ReadRetries \/ AppendStdout \/ KillOverdue
             PROVE  IInv'
  OBVIOUS
<1> USE DEF IInv
<1>1. CASE TruncateLog
  BY <1>1 DEF TruncateLog, ControlType, IsRow, IsJob, IsPump, StartInv, IntentInv, CopyInv,
              PumpInv, CollectInv, VerdictInv, Absent
<1>2. CASE ReadAnswers
  BY <1>2 DEF ReadAnswers, Readable, ControlType, IsRow, IsJob, IsPump, StartInv, IntentInv,
              CopyInv, PumpInv, CollectInv, VerdictInv, Absent
<1>3. CASE ReadRetries
  BY <1>3 DEF ReadRetries, ControlType, IsRow, IsJob, IsPump, StartInv, IntentInv, CopyInv,
              PumpInv, CollectInv, VerdictInv, Absent
<1>4. CASE AppendStdout
  BY <1>4 DEF AppendStdout, ControlType, IsRow, IsJob, IsPump, StartInv, IntentInv, CopyInv,
              PumpInv, CollectInv, VerdictInv, Absent
<1>5. CASE KillOverdue
  BY <1>5 DEF KillOverdue, Signalled, ControlType, IsRow, IsJob, IsPump, StartInv, IntentInv,
              CopyInv, PumpInv, CollectInv, VerdictInv, Absent
<1> QED BY <1>1, <1>2, <1>3, <1>4, <1>5

\* What the pump does after it has persisted what it read, or found nothing new.
LEMMA OnwardsIInv ==
  ASSUME IInv, pump.at = "delivering", UNCHANGED <<deleted, job, start, cancel>>,
         NEW task, IsRow(task), task.cursor = pump.upto, task.cancel = pump.task.cancel,
         task.status = pump.task.status, task.how = pump.task.how, pump' = Onwards(task),
         IsRow(row'), row'.status = row.status, row'.how = row.how, row'.cancel <=> row.cancel,
         ~Absent => row'.cursor = task.cursor
  PROVE  IInv'
<1> USE DEF IInv
<1>0. task.status = "running" /\ task.how = "none" /\ IsPump(pump) BY DEF PumpInv, ControlType
<1>1. CASE pump.exited
  <2>1. /\ IsPump(pump') /\ pump'.at = "collecting" /\ pump'.exited /\ pump'.upto = pump.upto
        /\ pump'.task.cursor = task.cursor /\ pump'.task.status = "running" /\ pump'.task.how = "none"
        /\ pump'.task.cancel <=> task.cancel \/ row.cancel
    BY <1>0, <1>1 DEF Onwards, IsPump, IsRow, ControlType
  <2>2. ControlType' /\ StartInv' /\ IntentInv' /\ VerdictInv'
    BY <2>1 DEF ControlType, StartInv, IntentInv, VerdictInv, CopyInv, PumpInv, Absent
  <2>3. CopyInv' BY <2>1 DEF CopyInv, Absent
  <2>4. PumpInv' BY <1>1, <2>1 DEF PumpInv
  <2>5. CollectInv' BY <1>1, <2>1 DEF CollectInv, PumpInv, IntentInv, Absent
  <2> QED BY <2>2, <2>3, <2>4, <2>5
<1>2. CASE ~pump.exited
  <2>1. /\ IsPump(pump') /\ pump'.at \in {"killing", "reading"} /\ ~pump'.exited
        /\ pump'.task = task
    BY <1>0, <1>2 DEF Onwards, IsPump
  <2>2. ControlType' /\ StartInv' /\ IntentInv' /\ VerdictInv'
    BY <2>1 DEF ControlType, StartInv, IntentInv, VerdictInv, CopyInv, PumpInv, Absent
  <2>3. CopyInv' BY <2>1 DEF CopyInv, Absent
  <2>4. PumpInv' /\ CollectInv' BY <1>0, <2>1 DEF PumpInv, CollectInv
  <2> QED BY <2>2, <2>3, <2>4
<1> QED BY <1>1, <1>2 DEF ControlType, IsPump

LEMMA EndIInv == IInv /\ (AdvanceAndPersist \/ Finish \/ AnnounceExit \/ ReleaseAndForget) => IInv'
<1> SUFFICES ASSUME IInv, AdvanceAndPersist \/ Finish \/ AnnounceExit \/ ReleaseAndForget
             PROVE  IInv'
  OBVIOUS
<1> USE DEF IInv
<1>1. CASE AdvanceAndPersist
  <2>0. UNCHANGED <<deleted, job, start, cancel>> /\ pump.at = "delivering"
    BY <1>1 DEF AdvanceAndPersist
  <2>1. PICK task : /\ IsRow(task) /\ task.cursor = pump.upto /\ task.cancel = pump.task.cancel
                    /\ task.status = pump.task.status /\ task.how = pump.task.how
                    /\ \/ pump.upto = pump.task.cursor /\ pump' = Onwards(pump.task) /\ UNCHANGED row
                       \/ deleted /\ pump' = Idle /\ UNCHANGED row
                       \/ ~deleted /\ pump' = Onwards(task) /\ row' = Saved(task)
    <3> DEFINE task == [pump.task EXCEPT !.cursor = pump.upto, !.bytes = pump.upto,
                                         !.seq = @ + Len(Parse(Lines(pump.task.cursor, pump.upto)))]
    <3>1. /\ IsRow(task) /\ task.cursor = pump.upto /\ task.cancel = pump.task.cancel
          /\ task.status = pump.task.status /\ task.how = pump.task.how
      BY DEF ControlType, IsPump, IsRow
    <3>2. \/ pump.upto = pump.task.cursor /\ pump' = Onwards(pump.task) /\ UNCHANGED row
          \/ deleted /\ pump' = Idle /\ UNCHANGED row
          \/ ~deleted /\ pump' = Onwards(task) /\ row' = Saved(task)
      BY <1>1 DEF AdvanceAndPersist
    <3> HIDE DEF task
    <3> QED BY <3>1, <3>2
  <2>2. CASE deleted /\ pump' = Idle /\ UNCHANGED row
    BY <2>0, <2>2, IdleType
    DEF ControlType, StartInv, IntentInv, CopyInv, PumpInv, CollectInv, VerdictInv, Absent
  <2>3. CASE pump.upto = pump.task.cursor /\ pump' = Onwards(pump.task) /\ UNCHANGED row
    BY <2>0, <2>3, OnwardsIInv DEF ControlType, IsPump, CopyInv, PumpInv, StartInv, Absent
  <2>4. CASE ~deleted /\ pump' = Onwards(task) /\ row' = Saved(task)
    <3>1. IsRow(row) /\ IsRow(pump.task) /\ start = "answered" BY <2>0 DEF ControlType, IsPump, StartInv
    <3>2. /\ ~Absent /\ row.status = "running" /\ row.how = "none" /\ (pump.task.cancel => row.cancel)
          /\ pump.task.status = "running" /\ pump.task.how = "none"
      BY <2>0, <2>4, <3>1 DEF StartInv, CopyInv, PumpInv, VerdictInv
    <3>3. /\ IsRow(row') /\ row'.status = row.status /\ row'.how = row.how
          /\ row'.cursor = task.cursor
          /\ row'.cancel <=> task.cancel \/ row.cancel
      BY <2>1, <2>4, <3>1, <3>2, SavedType
    <3>4. row'.cancel <=> row.cancel BY <2>1, <3>2, <3>3
    <3> QED BY <2>0, <2>1, <2>4, <3>3, <3>4, OnwardsIInv
  <2> QED BY <2>1, <2>2, <2>3, <2>4
<1>2. CASE Finish
  <2> DEFINE t == Finished(pump.task, Verdict, "exit")
  <2>0. UNCHANGED <<deleted, job, start, cancel>> /\ pump.at = "collecting" BY <1>2 DEF Finish
  <2>1. IsPump(pump) /\ IsRow(row) /\ IsRow(pump.task) BY DEF ControlType, IsPump
  <2>2. Verdict \in Terminal /\ (Verdict = "killed" <=> pump.task.cancel)
    BY <2>1 DEF Verdict, VerdictFromExitCode, IsRow
  <2>3. /\ IsRow(t) /\ t.status = Verdict /\ t.how = "exit" /\ t.cursor = job.out
        /\ t.cancel = pump.task.cancel
    BY <2>0, <2>1, <2>2, FinishedType DEF CollectInv
  <2>4. \/ deleted /\ pump' = [pump EXCEPT !.at = "releasing", !.task = t] /\ row' = row
        \/ ~deleted /\ pump' = [pump EXCEPT !.at = "announcing", !.task = t] /\ row' = Saved(t)
    BY <1>2 DEF Finish
  <2> HIDE DEF t
  <2>5. /\ IsPump(pump') /\ pump'.at \in {"announcing", "releasing"} /\ pump'.exited = pump.exited
        /\ pump'.upto = pump.upto /\ pump'.task = t
    BY <2>1, <2>3, <2>4 DEF IsPump
  <2>6. pump.exited /\ job.st \in {"exited", "lost"} /\ start = "answered"
    BY <2>0 DEF PumpInv, StartInv
  <2>7. PumpInv' /\ CollectInv' BY <2>0, <2>5, <2>6 DEF PumpInv, CollectInv
  <2>8. CASE deleted /\ row' = row
    BY <2>0, <2>1, <2>5, <2>7, <2>8
    DEF ControlType, StartInv, IntentInv, CopyInv, VerdictInv, Absent
  <2>9. CASE ~deleted /\ row' = Saved(t)
    <3>1. /\ IsRow(row') /\ row'.status = Verdict /\ row'.how = "exit" /\ row'.cursor = job.out
          /\ row'.cancel <=> pump.task.cancel \/ row.cancel
      BY <2>1, <2>3, <2>9, SavedType
    <3>2. ~Absent BY <2>6, <2>9 DEF StartInv
    <3>3. ControlType' /\ StartInv' /\ IntentInv'
      BY <2>0, <2>2, <2>5, <2>6, <2>9, <3>1, <3>2 DEF ControlType, StartInv, IntentInv, Absent
    <3>4. CopyInv' BY <2>2, <2>3, <2>5, <3>1 DEF CopyInv, Absent
    <3>5. VerdictInv'
      BY <2>0, <2>2, <2>6, <3>1, <3>2 DEF VerdictInv, CollectInv
    <3> QED BY <2>7, <3>3, <3>4, <3>5
  <2> QED BY <2>4, <2>8, <2>9
<1>3. CASE AnnounceExit
  BY <1>3 DEF AnnounceExit, ControlType, IsPump, StartInv, IntentInv, CopyInv, PumpInv,
              CollectInv, VerdictInv, Absent
<1>4. CASE ReleaseAndForget
  <2>1. /\ UNCHANGED <<row, deleted, start, cancel>> /\ pump' = Idle /\ pump.at = "releasing"
        /\ job' \in {job, Released}
    BY <1>4 DEF ReleaseAndForget
  <2>2. /\ IsJob(job') /\ job'.signals = job.signals /\ job'.out = job.out
        /\ job'.st = job.st \/ job'.st = "released"
    BY <2>1 DEF ControlType, IsJob, Released
  <2>3. start = "answered" /\ (Absent \/ row.status \in Terminal)
    BY <2>1 DEF StartInv, CopyInv, Absent
  <2> QED BY <2>1, <2>2, <2>3, IdleType
          DEF ControlType, StartInv, IntentInv, CopyInv, PumpInv, CollectInv, VerdictInv, Absent
<1> QED BY <1>1, <1>2, <1>3, <1>4

-----------------------------------------------------------------------------
(* The theorems.                                                           *)

\* The subscriptions neither read nor write what the invariant speaks of.
LEMMA ChannelIInv ==
  ASSUME IInv, UNCHANGED <<row, deleted, job, start, pump, cancel>>
  PROVE  IInv'
BY DEF IInv, ControlType, StartInv, IntentInv, CopyInv, PumpInv, CollectInv, VerdictInv, Absent

LEMMA ChannelFrame ==
  ASSUME ReplayStep \/ (\E fresh \in BOOLEAN : Subscribe(fresh)) \/ Unsubscribe
  PROVE  UNCHANGED <<row, deleted, job, log, start, pump, cancel>>
BY DEF ReplayStep, ReplayReads, ReplayDelivers, Subscribe, Unsubscribe

LEMMA IInvInductive == IInv /\ [Next]_vars => IInv'
<1> SUFFICES ASSUME IInv, [Next]_vars PROVE IInv' OBVIOUS
<1>1. CASE StartStep BY <1>1, StartIInv
<1>2. CASE PumpProgress BY <1>2, ReadIInv, EndIInv DEF PumpProgress
<1>3. CASE PumpFailure
  BY <1>3, ReadIInv, FailWithIInv DEF PumpFailure, ReadThrows, LogThrows, KillThrows
<1>4. CASE JobStep \/ DeadlinePasses \/ DeleteSandbox \/ CrashAndBoot BY <1>4, OutsideIInv
<1>5. CASE ReplayStep \/ (\E fresh \in BOOLEAN : Subscribe(fresh)) \/ Unsubscribe
  BY <1>5, ChannelFrame, ChannelIInv
<1>6. CASE Cancel \/ CancelKill BY <1>6, CancelIInv
<1>7. CASE UNCHANGED vars BY <1>7, ChannelIInv DEF vars
<1> QED BY <1>1, <1>2, <1>3, <1>4, <1>5, <1>6, <1>7 DEF Next

(* The inductive invariant: the request that starts the task comes before   *)
(* everything else, an intent to cancel before its signal, the copy of the  *)
(* pump agrees with the row in all that only the pump writes, and an exit   *)
(* that was read is one that has happened.                                  *)
THEOREM TaskInvariant == Spec => []IInv
BY InitIInv, IInvInductive, PTL DEF Spec

(* A job that a cancel has signalled, and whose exit was read, is recorded  *)
(* as killed, and nothing else is: cancel saves its intent before it        *)
(* signals, and the pump reads it after it has seen the exit.               *)
THEOREM CancelIsKilled == Spec => []CancelledIsKilled
<1>1. IInv => CancelledIsKilled BY DEF IInv, VerdictInv, CancelledIsKilled
<1> QED BY <1>1, TaskInvariant, PTL

(* releaseAgentJob is called only when the verdict is in the row, or the    *)
(* row is gone, and after all the output of a job that came to its end.     *)
THEOREM ReleaseIsLast == Spec => []ReleasedAfterVerdict
<1>1. IInv => ReleasedAfterVerdict BY DEF IInv, VerdictInv, ReleasedAfterVerdict, Absent
<1> QED BY <1>1, TaskInvariant, PTL

\* Who writes the row of a task: the request that makes it, the one that cancels it, the pump.
LEMMA FinishedIsKept ==
  ASSUME IInv, [Next]_vars, row.status \in Terminal
  PROVE  row' = row \/ row'.status = "absent"
<1> USE DEF IInv
<1>1. CASE StartStep
  <2>1. start # "starting" BY DEF StartInv, Absent
  <2> QED BY <1>1, <2>1
          DEF StartStep, RunTask, JobAccepted, StartThrows, PersistStart, ClearKill, ClearRelease
<1>2. CASE PumpProgress
  <2>1. pump.at \in {"off", "announcing", "releasing"} BY DEF CopyInv, Absent, ControlType, IsPump
  <2> QED BY <1>2, <2>1
          DEF PumpProgress, TruncateLog, ReadAnswers, AppendStdout, AdvanceAndPersist, KillOverdue,
              Finish, AnnounceExit, ReleaseAndForget
<1>3. CASE PumpFailure
  <2>1. pump.at \in {"off", "announcing", "releasing"} BY DEF CopyInv, Absent, ControlType, IsPump
  <2> QED BY <1>3, <2>1 DEF PumpFailure, ReadRetries, ReadThrows, LogThrows, KillThrows
<1>4. CASE JobStep \/ DeadlinePasses \/ DeleteSandbox \/ CrashAndBoot
  <2>1. row' = row \/ row' = NoRow
    BY <1>4 DEF JobStep, JobPrints, JobExits, JobDies, JobLost, DeadlinePasses, DeleteSandbox,
                CrashAndBoot
  <2> QED BY <2>1, NoRowType
<1>5. CASE ReplayStep \/ (\E fresh \in BOOLEAN : Subscribe(fresh)) \/ Unsubscribe
  BY <1>5, ChannelFrame
<1>6. CASE Cancel \/ CancelKill BY <1>6 DEF Cancel, CancelKill
<1>7. CASE UNCHANGED vars BY <1>7 DEF vars
<1> QED BY <1>1, <1>2, <1>3, <1>4, <1>5, <1>6, <1>7 DEF Next

(* A finished row is never written again, by whichever of its writers: not  *)
(* by a pump that comes late, nor by a cancel, nor after a restart.         *)
THEOREM VerdictStays == Spec => VerdictIsFinal
<1>1. IInv /\ [Next]_vars => (row.status \in Terminal => row' = row \/ row'.status = "absent")
  BY FinishedIsKept
<1>2. Spec => [][row.status \in Terminal => row' = row \/ row'.status = "absent"]_vars
  BY <1>1, TaskInvariant, PTL DEF Spec
<1> QED BY <1>2 DEF VerdictIsFinal

(* The verdict of a task is its last word, whatever cancels, failures and   *)
(* restarts come between: the session is dropped after it, the row stays.   *)
THEOREM VerdictLast == Spec => VerdictIsLast
<1>1. Spec => [][row.status \in Terminal => row' = row \/ row'.status = "absent"]_vars
  BY VerdictStays DEF VerdictIsFinal
<1> QED BY <1>1, ReleaseIsLast, PTL DEF VerdictIsLast

-----------------------------------------------------------------------------
(* The log.  Each lemma is about lines, the unit of cursor and length.      *)

LEMMA LinesType ==
  ASSUME NEW n \in Nat
  PROVE  Lines(0, n) \in Seq(Nat) /\ Len(Lines(0, n)) = n /\ \A i \in 1..n : Lines(0, n)[i] = i
BY DEF Lines

LEMMA LinesCut ==
  ASSUME NEW m \in Nat, NEW n \in Nat, n <= m
  PROVE  SubSeq(Lines(0, m), 1, n) = Lines(0, n)
BY DEF Lines

LEMMA LinesAppended ==
  ASSUME NEW c \in Nat, NEW u \in Nat, c <= u
  PROVE  Lines(0, c) \o Lines(c, u) = Lines(0, u)
BY DEF Lines

LogInv ==
  /\ Len(log) \in Nat
  /\ LogCoversRow
  /\ Absent => row.cursor = 0
  /\ pump.at # "off" =>
       /\ pump.task.cursor = pump.task.bytes
       /\ pump.task.cursor <= job.out /\ pump.task.cursor <= Len(log)
  /\ pump.at \in {"reading", "appending", "killing", "collecting"} => Len(log) = pump.task.cursor
  /\ pump.at \in {"appending", "delivering"} => pump.task.cursor <= pump.upto /\ pump.upto <= job.out
  /\ pump.at = "delivering" => Len(log) = pump.upto

LEMMA TruncateLogInv == IInv /\ LogInv /\ TruncateLog => LogInv'
<1> SUFFICES ASSUME IInv, LogInv, TruncateLog PROVE LogInv' OBVIOUS
<1>1. /\ pump' = [pump EXCEPT !.at = "reading"] /\ UNCHANGED <<row, job>> /\ IsPump(pump)
      /\ pump.at = "truncating"
  BY DEF TruncateLog, IInv, ControlType
<1>2. pump'.at = "reading" /\ pump'.task = pump.task BY <1>1 DEF IsPump
<1> DEFINE c == pump.task.cursor
<1>3. c \in Nat /\ c = pump.task.bytes /\ c <= Len(log) /\ Len(log) \in Nat
  BY <1>1 DEF LogInv, IsPump, IsRow
<1>4. log' = Lines(0, c) /\ Len(log') = c
  <2>1. CASE Len(log) <= c BY <1>3, <2>1 DEF TruncateLog, LogInv, LogCoversRow
  <2>2. CASE ~(Len(log) <= c) BY <1>3, <2>2, LinesCut, LinesType DEF TruncateLog, LogInv, LogCoversRow
  <2> QED BY <2>1, <2>2
<1>5. row.cursor <= c
  BY <1>1, <1>3 DEF IInv, CopyInv, LogInv, Absent
<1> QED BY <1>1, <1>2, <1>3, <1>4, <1>5 DEF LogInv, LogCoversRow, Absent

\* Steps that leave the log alone and the pump where it is.
LEMMA LogFrame ==
  ASSUME IInv, LogInv, UNCHANGED <<log, pump>>,
         row' = row \/ row' = NoRow \/ row' = [row EXCEPT !.cancel = TRUE],
         job'.out = job.out \/ job'.out = job.out + 1
  PROVE  LogInv'
<1>1. IsRow(row) /\ IsJob(job) BY DEF IInv, ControlType
<1>2. \/ row'.cursor = row.cursor /\ row'.bytes = row.bytes /\ Absent' = Absent
      \/ row'.cursor = 0 /\ row'.bytes = 0
  BY <1>1 DEF NoRow, IsRow, Absent
<1>3. job.out \in Nat /\ job.out <= job'.out /\ job'.out \in Nat BY <1>1 DEF IsJob
<1>4. row.cursor \in Nat /\ row.bytes \in Nat /\ IsPump(pump) BY <1>1 DEF IsRow, IInv, ControlType
<1>5. LogCoversRow' BY <1>2, <1>3, <1>4 DEF LogInv, LogCoversRow
<1>6. pump.task.cursor \in Nat /\ pump.upto \in Nat BY <1>4 DEF IsPump, IsRow
<1> QED BY <1>2, <1>3, <1>5, <1>6 DEF LogInv

LEMMA FailWithLogInv ==
  ASSUME IInv, LogInv, FailWith, pump.at \in {"reading", "truncating", "appending", "killing"}
  PROVE  LogInv'
<1> DEFINE t == Finished(pump.task, "failed", "error")
<1>0. UNCHANGED <<job, log, deleted>> /\ IsPump(pump) /\ IsRow(row) /\ IsRow(pump.task)
  BY DEF FailWith, IInv, ControlType, IsPump
<1>1. CASE deleted
  <2>1. pump' = Idle /\ row' = row BY <1>1 DEF FailWith
  <2> QED BY <1>0, <2>1, IdleType DEF LogInv, LogCoversRow, Absent
<1>2. CASE ~deleted
  <2>1. row' = Saved(t) /\ pump' = [pump EXCEPT !.at = "releasing", !.task = t]
    BY <1>2 DEF FailWith
  <2>2. t.cursor = pump.task.cursor /\ t.bytes = pump.task.bytes /\ IsRow(t) /\ t.status = "failed"
    BY <1>0 DEF Finished, IsRow
  <2> HIDE DEF t
  <2>3. row'.cursor = t.cursor /\ row'.bytes = t.bytes /\ row'.status = "failed"
    BY <1>0, <2>1, <2>2 DEF Saved, IsRow
  <2>4. pump'.at = "releasing" /\ pump'.task = t BY <1>0, <2>1 DEF IsPump
  <2> QED BY <1>0, <2>2, <2>3, <2>4 DEF LogInv, LogCoversRow, Absent
<1> QED BY <1>1, <1>2 DEF IInv, ControlType

LEMMA OnwardsLogInv ==
  ASSUME IInv, LogInv, UNCHANGED <<job, log>>, pump.at = "delivering", NEW task, IsRow(task),
         task.cursor = pump.upto, task.bytes = pump.upto, pump' = Onwards(task),
         \/ row' = row
         \/ row'.cursor = task.cursor /\ row'.bytes = task.bytes /\ ~Absent'
  PROVE  LogInv'
<1>0. IsPump(pump) BY DEF IInv, ControlType
<1>1. pump'.at \in {"collecting", "killing", "reading"} /\ pump'.task.cursor = pump.upto
      /\ pump'.task.bytes = pump.upto
  <2>1. CASE pump.exited BY <1>0, <2>1 DEF Onwards, IsPump, IsRow
  <2>2. CASE ~pump.exited BY <1>0, <2>2 DEF Onwards, IsPump, IsRow
  <2> QED BY <2>1, <2>2
<1>2. Len(log) = pump.upto /\ pump.upto \in Nat /\ pump.upto <= job.out BY <1>0 DEF LogInv, IsPump
<1> QED BY <1>1, <1>2 DEF LogInv, LogCoversRow, Absent

LEMMA AdvanceLogInv == IInv /\ LogInv /\ AdvanceAndPersist => LogInv'
<1> SUFFICES ASSUME IInv, LogInv, AdvanceAndPersist PROVE LogInv' OBVIOUS
<1>0. /\ UNCHANGED <<deleted, job, log, start>> /\ pump.at = "delivering"
      /\ IsPump(pump) /\ IsRow(pump.task) /\ IsRow(row)
  BY DEF AdvanceAndPersist, IInv, ControlType, IsPump
<1> DEFINE task == [pump.task EXCEPT !.cursor = pump.upto, !.bytes = pump.upto,
                                     !.seq = @ + Len(Parse(Lines(pump.task.cursor, pump.upto)))]
<1>1. IsRow(task) /\ task.cursor = pump.upto /\ task.bytes = pump.upto /\ task.status = pump.task.status
  BY <1>0 DEF IsPump, IsRow
<1>2. \/ pump.upto = pump.task.cursor /\ pump' = Onwards(pump.task) /\ UNCHANGED row
      \/ pump' = Idle /\ UNCHANGED row
      \/ pump' = Onwards(task) /\ row' = Saved(task)
  BY DEF AdvanceAndPersist
<1> HIDE DEF task
<1>3. CASE pump.upto = pump.task.cursor /\ pump' = Onwards(pump.task) /\ UNCHANGED row
  <2>1. pump.task.bytes = pump.upto BY <1>0, <1>3 DEF LogInv
  <2> QED BY <1>0, <1>3, <2>1, OnwardsLogInv DEF Absent
<1>4. CASE pump' = Idle /\ UNCHANGED row
  BY <1>0, <1>4, IdleType DEF LogInv, LogCoversRow, Absent
<1>5. CASE pump' = Onwards(task) /\ row' = Saved(task)
  <2>1. row'.cursor = task.cursor /\ row'.bytes = task.bytes /\ row'.status = task.status
    BY <1>1, <1>5, <1>0 DEF Saved, IsRow
  <2>2. task.status = "running" BY <1>0, <1>1 DEF IInv, PumpInv
  <2> QED BY <1>0, <1>1, <1>5, <2>1, <2>2, OnwardsLogInv DEF Absent
<1> QED BY <1>2, <1>3, <1>4, <1>5

LEMMA ReadLogInv ==
  IInv /\ LogInv /\ (ReadAnswers \/ ReadRetries \/ AppendStdout \/ KillOverdue) => LogInv'
<1> SUFFICES ASSUME IInv, LogInv, ReadAnswers \/ ReadRetries \/ AppendStdout \/ KillOverdue
             PROVE  LogInv'
  OBVIOUS
<1>0. IsPump(pump) /\ IsRow(pump.task) /\ IsRow(row) /\ IsJob(job) BY DEF IInv, ControlType, IsPump
<1> USE DEF LogInv, LogCoversRow, Absent, IsPump
<1>1. CASE ReadAnswers BY <1>0, <1>1 DEF ReadAnswers, IsRow, IsJob
<1>2. CASE ReadRetries BY <1>0, <1>2 DEF ReadRetries
<1>3. CASE AppendStdout
  <2> DEFINE c == pump.task.cursor
             u == pump.upto
  <2>1. c \in Nat /\ u \in Nat /\ c <= u /\ log = Lines(0, c) BY <1>0, <1>3 DEF AppendStdout, IsRow
  <2>2. log' = Lines(0, u) /\ Len(log') = u
    BY <1>3, <2>1, LinesAppended, LinesType DEF AppendStdout
  <2>3. UNCHANGED <<row, job>> /\ pump'.at = "delivering" /\ pump'.task = pump.task /\ pump'.upto = u
    BY <1>0, <1>3 DEF AppendStdout
  <2>4. row.bytes <= u /\ row.bytes = row.cursor /\ row.bytes \in Nat
    <3>1. row.bytes <= Len(log) /\ Len(log) = c BY <1>3 DEF AppendStdout
    <3> QED BY <1>0, <2>1, <3>1 DEF IsRow
  <2>5. LogCoversRow' BY <2>2, <2>3, <2>4
  <2>6. u <= job.out /\ pump.task.cursor = pump.task.bytes /\ pump.task.cursor <= job.out
    BY <1>3 DEF AppendStdout
  <2> HIDE DEF LogCoversRow
  <2> QED BY <1>3, <2>1, <2>2, <2>3, <2>5, <2>6 DEF AppendStdout
<1>4. CASE KillOverdue
  <2>1. job'.out = job.out BY <1>0, <1>4 DEF KillOverdue, Signalled, IsJob
  <2> QED BY <1>0, <1>4, <2>1 DEF KillOverdue
<1> QED BY <1>1, <1>2, <1>3, <1>4

LEMMA LogInductive == IInv /\ LogInv /\ [Next]_vars => LogInv'
<1> SUFFICES ASSUME IInv, LogInv, [Next]_vars PROVE LogInv' OBVIOUS
<1>0. IsPump(pump) /\ IsRow(row) /\ IsJob(job) BY DEF IInv, ControlType
<1>1. CASE RunTask \/ StartThrows \/ JobAccepted \/ ClearKill \/ ClearRelease \/ CancelKill
  <2>1. UNCHANGED <<log, pump, row>>
    BY <1>1 DEF RunTask, StartThrows, JobAccepted, ClearKill, ClearRelease, CancelKill
  <2>2. job'.out = job.out
    BY <1>0, <1>1
    DEF RunTask, StartThrows, JobAccepted, ClearKill, ClearRelease, CancelKill, Signalled, Released, IsJob
  <2> QED BY <2>1, <2>2, LogFrame
<1>2. CASE PersistStart
  <2>1. CASE deleted
    BY <1>2, <2>1, LogFrame DEF PersistStart
  <2>2. CASE ~deleted
    <3>1. row' = NewTask /\ pump' = PumpFrom(NewTask) /\ UNCHANGED <<log, job>>
      BY <1>2, <2>2 DEF PersistStart
    <3>2. NewTask.bytes = 0 BY DEF NewTask, NoRow
    <3>3. pump'.at = "truncating" /\ pump'.task = NewTask BY <3>1, PumpFromType, NewTaskType
    <3>4. job.out \in Nat BY <1>0 DEF IsJob
    <3> QED BY <3>1, <3>2, <3>3, <3>4, NewTaskType DEF LogInv, LogCoversRow, Absent
  <2> QED BY <2>1, <2>2 DEF IInv, ControlType
<1>3. CASE Cancel BY <1>3, LogFrame DEF Cancel
<1>4. CASE TruncateLog BY <1>4, TruncateLogInv
<1>5. CASE AdvanceAndPersist BY <1>5, AdvanceLogInv
<1>6. CASE ReadAnswers \/ ReadRetries \/ AppendStdout \/ KillOverdue BY <1>6, ReadLogInv
<1>7. CASE ReadThrows \/ LogThrows \/ KillThrows
  BY <1>7, FailWithLogInv DEF ReadThrows, LogThrows, KillThrows
<1>8. CASE Finish
  <2> DEFINE t == Finished(pump.task, Verdict, "exit")
  <2>1. /\ UNCHANGED <<job, log>> /\ pump.at = "collecting"
        /\ row' = row \/ row' = Saved(t)
        /\ \/ pump' = [pump EXCEPT !.at = "releasing", !.task = t]
           \/ pump' = [pump EXCEPT !.at = "announcing", !.task = t]
    BY <1>8 DEF Finish
  <2>2. IsRow(t) /\ t.cursor = pump.task.cursor /\ t.bytes = pump.task.bytes /\ t.status # "absent"
    BY <1>0 DEF Finished, IsRow, IsPump, Verdict, VerdictFromExitCode
  <2> HIDE DEF t
  <2>3. \/ row' = row
        \/ row'.cursor = t.cursor /\ row'.bytes = t.bytes /\ row'.status # "absent"
    BY <1>0, <2>1, <2>2 DEF Saved, IsRow
  <2>4. pump'.at \in {"announcing", "releasing"} /\ pump'.task = t BY <1>0, <2>1 DEF IsPump
  <2> QED BY <2>1, <2>2, <2>3, <2>4 DEF LogInv, LogCoversRow, Absent
<1>9. CASE AnnounceExit
  <2>1. pump'.at = "releasing" /\ pump'.task = pump.task /\ UNCHANGED <<row, job, log>>
    BY <1>0, <1>9 DEF AnnounceExit, IsPump
  <2> QED BY <1>9, <2>1 DEF AnnounceExit, LogInv, LogCoversRow, Absent
<1>10. CASE ReleaseAndForget
  <2>1. pump'.at = "off" /\ UNCHANGED <<row, log>> /\ job'.out = job.out
    BY <1>0, <1>10, IdleType DEF ReleaseAndForget, IsJob, Released
  <2> QED BY <2>1 DEF LogInv, LogCoversRow, Absent
<1>11. CASE JobStep \/ DeadlinePasses \/ DeleteSandbox
  <2>1. UNCHANGED <<log, pump>> /\ (row' = row \/ row' = NoRow)
    BY <1>11 DEF JobStep, JobPrints, JobExits, JobDies, JobLost, DeadlinePasses, DeleteSandbox
  <2>2. job'.out = job.out \/ job'.out = job.out + 1
    BY <1>0, <1>11 DEF JobStep, JobPrints, JobExits, JobDies, JobLost, DeadlinePasses,
                       DeleteSandbox, IsJob
  <2> QED BY <2>1, <2>2, LogFrame
<1>12. CASE CrashAndBoot
  <2>1. UNCHANGED <<row, job, log>> /\ (pump' = Idle \/ pump' = PumpFrom(row))
    BY <1>12 DEF CrashAndBoot, ResumeRunning
  <2>2. \/ pump'.at = "off"
        \/ pump'.at = "truncating" /\ pump'.task = row
    BY <1>0, <2>1, IdleType, PumpFromType
  <2> QED BY <2>1, <2>2 DEF LogInv, LogCoversRow, Absent
<1>13. CASE ReplayStep \/ (\E fresh \in BOOLEAN : Subscribe(fresh)) \/ Unsubscribe
  BY <1>13, ChannelFrame, LogFrame
<1>14. CASE UNCHANGED vars BY <1>14, LogFrame DEF vars
<1> QED
  BY <1>1, <1>2, <1>3, <1>4, <1>5, <1>6, <1>7, <1>8, <1>9, <1>10, <1>11, <1>12, <1>13, <1>14
  DEF Next, StartStep, PumpProgress, PumpFailure

LEMMA LogInitial == Init => LogInv
<1> SUFFICES ASSUME Init PROVE LogInv OBVIOUS
<1>1. log = <<>> /\ row = NoRow /\ pump = Idle /\ job = NoJob BY DEF Init
<1>2. log = Lines(0, 0) /\ Len(log) = 0 BY <1>1 DEF Lines
<1>3. NoRow.bytes = 0 /\ NoJob.out = 0 BY DEF NoRow, NoJob
<1> QED BY <1>1, <1>2, <1>3, NoRowType, IdleType DEF LogInv, LogCoversRow

(* The log is a beginning of the job's output without gap or repetition,    *)
(* and holds at least what the row admits, whenever the process stops and   *)
(* however often it has resumed: a line is appended before the row counts   *)
(* it, and a resumed pump first cuts off what the row does not count.       *)
THEOREM LogIsOutput == Spec => []LogCoversRow
<1>1. LogInv => LogCoversRow BY DEF LogInv
<1> QED BY <1>1, LogInitial, LogInductive, TaskInvariant, PTL DEF Spec

-----------------------------------------------------------------------------
(* Induction over the natural numbers, with a set in place of a predicate. *)

Below == {x \in Nat \X Nat : x[1] < x[2]}

LEMMA BelowWellFounded == IsWellFoundedOn(Below, Nat)
<1>1. OpToRel(<, Nat) = Below
  BY DEF OpToRel, Below
<1> QED BY <1>1, NatLessThanWellFounded

LEMMA BelowIsLess ==
  ASSUME NEW m \in Nat, NEW n \in Nat, m < n
  PROVE  <<m, n>> \in Below
BY DEF Below

LEMMA LeastNatural ==
  ASSUME NEW S, S \subseteq Nat, S # {}
  PROVE  \E m \in S : \A n \in S : m <= n
<1>1. PICK m \in S : \A n \in S : <<n, m>> \notin Below
  BY BelowWellFounded, WFMin
<1>2. ASSUME NEW n \in S PROVE m <= n
  <2>1. ~(n < m)
    BY <1>1, BelowIsLess
  <2> QED BY <2>1
<1> QED BY <1>2

LEMMA Induction ==
  ASSUME NEW S, 0 \in S, \A n \in Nat : n \in S => n + 1 \in S
  PROVE  Nat \subseteq S
<1> SUFFICES ASSUME Nat \ S # {} PROVE FALSE
  OBVIOUS
<1>1. PICK m \in Nat \ S : \A n \in Nat \ S : m <= n
  <2> DEFINE U == Nat \ S
  <2>1. U \subseteq Nat /\ U # {}
    OBVIOUS
  <2> HIDE DEF U
  <2>2. \E m \in U : \A n \in U : m <= n
    BY <2>1, LeastNatural
  <2> QED BY <2>2 DEF U
<1>2. m # 0 /\ m - 1 \in Nat
  BY <1>1
<1>3. m - 1 \in S
  BY <1>1, <1>2
<1>4. (m - 1) + 1 \in S
  BY <1>2, <1>3
<1> QED BY <1>1, <1>4

-----------------------------------------------------------------------------
(* What FlattenSeq computes.                                               *)

\* f[i] is the concatenation of the first i members of s.
Joins(f, s, n, T) ==
  /\ f \in [1..n -> Seq(T)]
  /\ \A i \in 1..n : f[i] = IF i = 1 THEN s[i] ELSE f[i-1] \o s[i]

LEMMA JoinsExist ==
  ASSUME NEW T, NEW s \in Seq(Seq(T)), NEW n \in 0..Len(s)
  PROVE  \E f : Joins(f, s, n, T)
<1> DEFINE S == {k \in Nat : k <= Len(s) => \E f : Joins(f, s, k, T)}
<1>0. Len(s) \in Nat /\ \A i \in 1..Len(s) : s[i] \in Seq(T)
  OBVIOUS
<1>1. 0 \in S
  <2> DEFINE f == [i \in 1..0 |-> <<>>]
  <2>1. Joins(f, s, 0, T)
    BY DEF Joins
  <2> HIDE DEF f
  <2> QED BY <2>1
<1>2. ASSUME NEW k \in Nat, k \in S PROVE k + 1 \in S
  <2> SUFFICES ASSUME k + 1 <= Len(s) PROVE \E f : Joins(f, s, k + 1, T)
    OBVIOUS
  <2>1. PICK f : Joins(f, s, k, T)
    BY <1>0, <1>2
  <2> DEFINE e == IF k = 0 THEN s[1] ELSE f[k] \o s[k+1]
             g == [i \in 1..(k + 1) |-> IF i <= k THEN f[i] ELSE e]
  <2>2. s[k+1] \in Seq(T) /\ s[1] \in Seq(T)
    BY <1>0
  <2>3. e \in Seq(T)
    <3>1. CASE k = 0
      BY <2>2, <3>1
    <3>2. CASE k # 0
      <4>1. f[k] \in Seq(T)
        BY <2>1, <3>2 DEF Joins
      <4> QED BY <2>2, <3>2, <4>1, ConcatProperties
    <3> QED BY <3>1, <3>2
  <2>4. g \in [1..(k + 1) -> Seq(T)]
    BY <2>1, <2>3 DEF Joins
  <2>5. ASSUME NEW i \in 1..(k + 1)
        PROVE  g[i] = IF i = 1 THEN s[i] ELSE g[i-1] \o s[i]
    <3>1. CASE i <= k
      <4>1. i \in 1..k /\ (i # 1 => i - 1 \in 1..k) /\ g[i] = f[i] /\ (i # 1 => g[i-1] = f[i-1])
        BY <3>1
      <4>2. f[i] = IF i = 1 THEN s[i] ELSE f[i-1] \o s[i]
        BY <2>1, <4>1 DEF Joins
      <4> HIDE DEF g
      <4> QED BY <4>1, <4>2
    <3>2. CASE i = k + 1
      <4>1. g[i] = e /\ (i # 1 => g[i-1] = f[k])
        BY <3>2
      <4> HIDE DEF g
      <4> QED BY <3>2, <4>1
    <3> QED BY <3>1, <3>2
  <2> HIDE DEF g
  <2> QED BY <2>4, <2>5 DEF Joins
<1> HIDE DEF S
<1>3. Nat \subseteq S
  BY <1>1, <1>2, Induction
<1> QED BY <1>0, <1>3 DEF S

\* Two sequences with the same beginning are joined alike as far as it goes.
LEMMA JoinsAgree ==
  ASSUME NEW T, NEW s, NEW t, NEW f, NEW g, NEW m \in Nat, NEW n \in Nat, m <= n,
         Joins(f, s, m, T), Joins(g, t, n, T), \A i \in 1..m : s[i] = t[i]
  PROVE  \A i \in 1..m : f[i] = g[i]
<1> DEFINE S == {k \in Nat : k \in 1..m => f[k] = g[k]}
<1>1. 0 \in S
  OBVIOUS
<1>2. ASSUME NEW k \in Nat, k \in S PROVE k + 1 \in S
  <2> SUFFICES ASSUME k + 1 \in 1..m PROVE f[k+1] = g[k+1]
    OBVIOUS
  <2>1. /\ f[k+1] = IF k + 1 = 1 THEN s[k+1] ELSE f[(k+1)-1] \o s[k+1]
        /\ g[k+1] = IF k + 1 = 1 THEN t[k+1] ELSE g[(k+1)-1] \o t[k+1]
    <3>1. k + 1 \in 1..m /\ k + 1 \in 1..n
      OBVIOUS
    <3> QED BY <3>1 DEF Joins
  <2>2. s[k+1] = t[k+1] /\ (k + 1) - 1 = k
    OBVIOUS
  <2>3. k # 0 => f[k] = g[k]
    BY <1>2
  <2> QED BY <2>1, <2>2, <2>3
<1> HIDE DEF S
<1>3. Nat \subseteq S
  BY <1>1, <1>2, Induction
<1> QED BY <1>3 DEF S

LEMMA FlattenJoins ==
  ASSUME NEW T, NEW s \in Seq(Seq(T)), Len(s) # 0
  PROVE  \E f : Joins(f, s, Len(s), T) /\ FlattenSeq(s) = f[Len(s)]
<1> DEFINE F(f) == [i \in 1..Len(s) |-> IF i = 1 THEN s[i] ELSE f[i-1] \o s[i]]
           g == CHOOSE f : f = F(f)
<1>0. Len(s) \in Nat
  OBVIOUS
<1>1. FlattenSeq(s) = g[Len(s)]
  BY DEF FlattenSeq
<1>2. PICK f : Joins(f, s, Len(s), T)
  BY <1>0, JoinsExist
<1>3. f = F(f)
  BY <1>2 DEF Joins
<1>4. g = F(g)
  <2> HIDE DEF F
  <2> QED BY <1>3
<1>5. DOMAIN g = 1..Len(s) /\ \A i \in 1..Len(s) : g[i] = IF i = 1 THEN s[i] ELSE g[i-1] \o s[i]
  <2> HIDE DEF g
  <2> QED BY <1>4
<1> HIDE DEF g
<1>6. \A k \in 1..Len(s) : f[k] = g[k]
  <2> DEFINE S == {k \in Nat : k \in 1..Len(s) => f[k] = g[k]}
  <2>1. 0 \in S
    OBVIOUS
  <2>2. ASSUME NEW k \in Nat, k \in S PROVE k + 1 \in S
    <3> SUFFICES ASSUME k + 1 \in 1..Len(s) PROVE f[k+1] = g[k+1]
      OBVIOUS
    <3>1. /\ f[k+1] = IF k + 1 = 1 THEN s[k+1] ELSE f[(k+1)-1] \o s[k+1]
          /\ g[k+1] = IF k + 1 = 1 THEN s[k+1] ELSE g[(k+1)-1] \o s[k+1]
      BY <1>2, <1>5 DEF Joins
    <3>2. (k + 1) - 1 = k /\ (k # 0 => f[k] = g[k])
      BY <1>0, <2>2
    <3> QED BY <3>1, <3>2
  <2> HIDE DEF S
  <2>3. Nat \subseteq S
    BY <2>1, <2>2, Induction
  <2> QED BY <1>0, <2>3 DEF S
<1>7. f[Len(s)] = g[Len(s)]
  BY <1>0, <1>6
<1> QED BY <1>1, <1>2, <1>7

LEMMA FlattenEmpty == FlattenSeq(<<>>) = <<>>
BY DEF FlattenSeq

LEMMA FlattenType ==
  ASSUME NEW T, NEW s \in Seq(Seq(T))
  PROVE  FlattenSeq(s) \in Seq(T)
<1>1. CASE s = <<>>
  BY <1>1, FlattenEmpty, EmptySeq
<1>2. CASE s # <<>>
  <2>1. Len(s) \in Nat \ {0}
    BY <1>2, EmptySeq
  <2>2. PICK f : Joins(f, s, Len(s), T) /\ FlattenSeq(s) = f[Len(s)]
    BY <2>1, FlattenJoins
  <2>3. f \in [1..Len(s) -> Seq(T)]
    BY <2>2 DEF Joins
  <2>4. Len(s) \in 1..Len(s)
    BY <2>1
  <2> QED BY <2>2, <2>3, <2>4
<1> QED BY <1>1, <1>2

LEMMA FlattenAppend ==
  ASSUME NEW T, NEW s \in Seq(Seq(T)), NEW e \in Seq(T)
  PROVE  FlattenSeq(Append(s, e)) = FlattenSeq(s) \o e
<1> DEFINE t == Append(s, e)
<1>1. /\ t \in Seq(Seq(T)) /\ Len(t) = Len(s) + 1 /\ Len(s) \in Nat
      /\ \A i \in 1..Len(s) : t[i] = s[i]
      /\ t[Len(s) + 1] = e
  BY AppendProperties, LenProperties
<1> HIDE DEF t
<1>2. PICK g : Joins(g, t, Len(t), T) /\ FlattenSeq(t) = g[Len(t)]
  BY <1>1, FlattenJoins
<1>3. g[Len(t)] = IF Len(t) = 1 THEN t[Len(t)] ELSE g[Len(t)-1] \o t[Len(t)]
  <2>1. Len(t) \in 1..Len(t)
    BY <1>1
  <2> QED BY <1>2, <2>1 DEF Joins
<1>4. CASE Len(s) = 0
  <2>1. s = <<>>
    BY <1>4, EmptySeq
  <2>2. FlattenSeq(s) = <<>> /\ FlattenSeq(t) = e
    BY <1>1, <1>2, <1>3, <1>4, <2>1, FlattenEmpty
  <2> QED BY <2>2, ConcatEmptySeq DEF t
<1>5. CASE Len(s) # 0
  <2>1. PICK f : Joins(f, s, Len(s), T) /\ FlattenSeq(s) = f[Len(s)]
    BY <1>5, FlattenJoins
  <2>2. \A i \in 1..Len(s) : f[i] = g[i]
    <3> DEFINE m == Len(s)
               n == Len(t)
    <3>1. m \in Nat /\ n \in Nat /\ m <= n
      BY <1>1
    <3>2. \A i \in 1..m : s[i] = t[i]
      BY <1>1
    <3>3. Joins(f, s, m, T) /\ Joins(g, t, n, T)
      BY <1>2, <2>1
    <3> HIDE DEF m, n
    <3>4. \A i \in 1..m : f[i] = g[i]
      BY <3>1, <3>2, <3>3, JoinsAgree
    <3> QED BY <3>4 DEF m
  <2>3. f[Len(s)] = g[Len(s)] /\ Len(t) - 1 = Len(s) /\ Len(t) # 1
    BY <1>1, <1>5, <2>2
  <2> QED BY <1>1, <1>2, <1>3, <2>1, <2>3 DEF t
<1> QED BY <1>4, <1>5

-----------------------------------------------------------------------------
(* The events of the output.                                               *)

EventsOf(i) == [k \in 1..Weight[i] |-> <<i, k>>]
Event == Nat \X Nat

LEMMA EventsOfType ==
  ASSUME NEW i \in 1..Len(Weight)
  PROVE  EventsOf(i) \in Seq(Event) /\ Len(EventsOf(i)) = Weight[i]
<1>1. Weight[i] \in Nat
  BY TaskConstants, ElementOfSeq
<1>2. i \in Nat
  BY TaskConstants, LenProperties
<1>3. \A k \in 1..Weight[i] : <<i, k>> \in Event
  BY <1>1, <1>2 DEF Event
<1> QED BY <1>1, <1>3 DEF EventsOf

\* The lines of an interval, each parsed by itself.
Parsed(a, b) == [i \in 1..Len(Lines(a, b)) |-> EventsOf(Lines(a, b)[i])]

LEMMA ParseLines == ASSUME NEW a, NEW b PROVE Parse(Lines(a, b)) = FlattenSeq(Parsed(a, b))
BY DEF Parse, Parsed, EventsOf

LEMMA ParsedType ==
  ASSUME NEW a \in Nat, NEW b \in Nat, a <= b, b <= Len(Weight)
  PROVE  /\ Parsed(a, b) \in Seq(Seq(Event)) /\ Len(Parsed(a, b)) = b - a
         /\ \A i \in 1..(b - a) : Parsed(a, b)[i] = EventsOf(a + i)
<1>1. Len(Lines(a, b)) = b - a /\ \A i \in 1..(b - a) : Lines(a, b)[i] = a + i
  BY DEF Lines
<1>2. Len(Weight) \in Nat
  BY TaskConstants, LenProperties
<1>3. \A i \in 1..(b - a) : EventsOf(a + i) \in Seq(Event)
  BY <1>2, EventsOfType
<1>4. Parsed(a, b) = [i \in 1..(b - a) |-> EventsOf(a + i)]
  BY <1>1 DEF Parsed
<1>5. b - a \in Nat
  OBVIOUS
<1> QED BY <1>3, <1>4, <1>5

LEMMA ParseType ==
  ASSUME NEW a \in Nat, NEW b \in Nat, a <= b, b <= Len(Weight)
  PROVE  Parse(Lines(a, b)) \in Seq(Event)
BY ParseLines, ParsedType, FlattenType

LEMMA ParseNothing ==
  ASSUME NEW a \in Nat
  PROVE  Parse(Lines(a, a)) = <<>>
<1>1. Lines(a, a) = <<>>
  BY DEF Lines
<1>2. Parsed(a, a) = <<>>
  BY <1>1 DEF Parsed
<1> QED BY <1>2, ParseLines, FlattenEmpty

LEMMA ParseNext ==
  ASSUME NEW a \in Nat, NEW b \in Nat, a <= b, b + 1 <= Len(Weight)
  PROVE  Parse(Lines(a, b + 1)) = Parse(Lines(a, b)) \o EventsOf(b + 1)
<1>1. Len(Weight) \in Nat
  BY TaskConstants, LenProperties
<1>2. /\ Parsed(a, b) \in Seq(Seq(Event)) /\ Len(Parsed(a, b)) = b - a
      /\ \A i \in 1..(b - a) : Parsed(a, b)[i] = EventsOf(a + i)
  <2>1. b <= Len(Weight)
    BY <1>1
  <2> QED BY <2>1, ParsedType
<1>3. /\ Parsed(a, b + 1) \in Seq(Seq(Event)) /\ Len(Parsed(a, b + 1)) = (b + 1) - a
      /\ \A i \in 1..((b + 1) - a) : Parsed(a, b + 1)[i] = EventsOf(a + i)
  <2> DEFINE n == b + 1
  <2>1. n \in Nat /\ a <= n /\ n <= Len(Weight)
    BY <1>1
  <2> HIDE DEF n
  <2>2. /\ Parsed(a, n) \in Seq(Seq(Event)) /\ Len(Parsed(a, n)) = n - a
        /\ \A i \in 1..(n - a) : Parsed(a, n)[i] = EventsOf(a + i)
    BY <2>1, ParsedType
  <2> QED BY <2>2 DEF n
<1>4. EventsOf(b + 1) \in Seq(Event)
  BY <1>1, EventsOfType
<1>5. Parsed(a, b + 1) = Append(Parsed(a, b), EventsOf(b + 1))
  <2> DEFINE s == Parsed(a, b)
             t == Parsed(a, b + 1)
             e == EventsOf(b + 1)
  <2>1. /\ Append(s, e) \in Seq(Seq(Event)) /\ Len(Append(s, e)) = Len(s) + 1
        /\ \A i \in 1..Len(s) : Append(s, e)[i] = s[i]
        /\ Append(s, e)[Len(s) + 1] = e
    BY <1>2, <1>4, AppendProperties
  <2>2. Len(s) = b - a /\ Len(t) = Len(Append(s, e)) /\ t \in Seq(Seq(Event))
    BY <1>2, <1>3, <2>1
  <2>3. ASSUME NEW i \in 1..Len(t) PROVE t[i] = Append(s, e)[i]
    <3>1. t[i] = EventsOf(a + i)
      BY <1>3
    <3>2. CASE i \in 1..(b - a)
      BY <1>2, <2>1, <3>1, <3>2
    <3>3. CASE i = (b - a) + 1
      <4>1. a + i = b + 1
        BY <3>3
      <4> QED BY <2>1, <2>2, <3>1, <3>3, <4>1
    <3>4. i \in 1..((b - a) + 1)
      BY <1>3
    <3>5. i \in 1..(b - a) \/ i = (b - a) + 1
      BY <3>4
    <3> QED BY <3>2, <3>3, <3>5
  <2> HIDE DEF s, t, e
  <2>4. t = Append(s, e)
    BY <2>1, <2>2, <2>3, SeqEqual
  <2> QED BY <2>4 DEF s, t, e
<1>6. FlattenSeq(Append(Parsed(a, b), EventsOf(b + 1))) = FlattenSeq(Parsed(a, b)) \o EventsOf(b + 1)
  BY <1>2, <1>4, FlattenAppend
<1> QED BY <1>5, <1>6, ParseLines

\* Parsed in pieces, the output gives the same events.
LEMMA ParseSplit ==
  ASSUME NEW a \in Nat, NEW b \in Nat, NEW c \in Nat, a <= b, b <= c, c <= Len(Weight)
  PROVE  Parse(Lines(a, c)) = Parse(Lines(a, b)) \o Parse(Lines(b, c))
<1>0. Len(Weight) \in Nat
  BY TaskConstants, LenProperties
<1> DEFINE S == {n \in Nat : b + n <= Len(Weight) =>
                   Parse(Lines(a, b + n)) = Parse(Lines(a, b)) \o Parse(Lines(b, b + n))}
<1>1. 0 \in S
  <2>1. b + 0 = b /\ b <= Len(Weight)
    BY <1>0
  <2>2. Parse(Lines(a, b)) = Parse(Lines(a, b)) \o <<>>
    BY <2>1, ParseType, ConcatEmptySeq
  <2> QED BY <2>1, <2>2, ParseNothing
<1>2. ASSUME NEW n \in Nat, n \in S PROVE n + 1 \in S
  <2> SUFFICES ASSUME b + (n + 1) <= Len(Weight)
               PROVE  Parse(Lines(a, b + (n + 1))) = Parse(Lines(a, b)) \o Parse(Lines(b, b + (n + 1)))
    OBVIOUS
  <2> DEFINE m == b + n
  <2>1. m \in Nat /\ a <= m /\ b <= m /\ m + 1 <= Len(Weight) /\ b + (n + 1) = m + 1 /\ m <= Len(Weight)
    BY <1>0
  <2>2. Parse(Lines(a, m)) = Parse(Lines(a, b)) \o Parse(Lines(b, m))
    BY <1>2, <2>1
  <2> HIDE DEF m, S
  <2>3. /\ Parse(Lines(a, m + 1)) = Parse(Lines(a, m)) \o EventsOf(m + 1)
        /\ Parse(Lines(b, m + 1)) = Parse(Lines(b, m)) \o EventsOf(m + 1)
    BY <2>1, ParseNext
  <2>4. /\ Parse(Lines(a, b)) \in Seq(Event) /\ Parse(Lines(b, m)) \in Seq(Event)
        /\ EventsOf(m + 1) \in Seq(Event)
    <3>1. b <= Len(Weight) /\ m + 1 \in 1..Len(Weight)
      BY <1>0, <2>1
    <3> QED BY <2>1, <3>1, ParseType, EventsOfType
  <2>5. Parse(Lines(a, m + 1)) = Parse(Lines(a, b)) \o Parse(Lines(b, m + 1))
    <3> DEFINE x == Parse(Lines(a, b))
               y == Parse(Lines(b, m))
               z == EventsOf(m + 1)
    <3>1. x \in Seq(Event) /\ y \in Seq(Event) /\ z \in Seq(Event)
      BY <2>4
    <3>2. Parse(Lines(a, m + 1)) = (x \o y) \o z /\ Parse(Lines(b, m + 1)) = y \o z
      BY <2>2, <2>3
    <3> HIDE DEF x, y, z
    <3>3. (x \o y) \o z = x \o (y \o z)
      BY <3>1, ConcatAssociative
    <3>4. Parse(Lines(a, m + 1)) = x \o Parse(Lines(b, m + 1))
      BY <3>2, <3>3
    <3> QED BY <3>4 DEF x
  <2> QED BY <2>1, <2>5
<1> HIDE DEF S
<1>3. c - b \in S
  <2>1. Nat \subseteq S
    BY <1>1, <1>2, Induction
  <2> QED BY <2>1
<1>4. b + (c - b) = c
  OBVIOUS
<1> QED BY <1>3, <1>4 DEF S

LEMMA ParseLength ==
  ASSUME NEW b \in Nat, NEW c \in Nat, b <= c, c <= Len(Weight)
  PROVE  Len(Parse(Lines(0, c))) = Len(Parse(Lines(0, b))) + Len(Parse(Lines(b, c)))
<1>1. Len(Weight) \in Nat
  BY TaskConstants, LenProperties
<1>2. Parse(Lines(0, b)) \in Seq(Event) /\ Parse(Lines(b, c)) \in Seq(Event)
  BY <1>1, ParseType
<1>3. Parse(Lines(0, c)) = Parse(Lines(0, b)) \o Parse(Lines(b, c))
  <2>1. 0 \in Nat /\ 0 <= b
    OBVIOUS
  <2> QED BY <2>1, ParseSplit
<1> QED BY <1>2, <1>3, ConcatProperties

-----------------------------------------------------------------------------
(* The point to resume from.                                               *)

Exact(r) == r.seq = Len(Parse(Lines(0, r.cursor)))

SeqInv ==
  /\ job.out <= Len(Weight)
  /\ Exact(row)
  /\ pump.at # "off" => Exact(pump.task)

Like(r, t) == r.cursor = t.cursor /\ r.seq = t.seq

LEMMA NothingExact == Exact(NoRow) /\ Exact(NewTask)
<1>1. NoRow.seq = 0 /\ NoRow.cursor = 0 /\ NewTask.seq = 0 /\ NewTask.cursor = 0
  BY DEF NoRow, NewTask
<1>2. Len(Parse(Lines(0, 0))) = 0
  BY ParseNothing
<1> QED BY <1>1, <1>2 DEF Exact

LEMMA LikeExact ==
  ASSUME NEW r, NEW t, Exact(t), Like(r, t)
  PROVE  Exact(r)
BY DEF Exact, Like

\* Steps that pass on what the row or the pump holds.
LEMMA PassedOn ==
  ASSUME SeqInv, job'.out <= Len(Weight),
         Like(row', row) \/ Like(row', NoRow) \/ (pump.at # "off" /\ Like(row', pump.task)),
         \/ pump'.at = "off" \/ Like(pump'.task, row) \/ Like(pump'.task, NoRow)
         \/ pump.at # "off" /\ Like(pump'.task, pump.task)
  PROVE  SeqInv'
<1>1. Exact(row')
  BY NothingExact, LikeExact DEF SeqInv
<1>2. pump'.at # "off" => Exact(pump'.task)
  BY NothingExact, LikeExact DEF SeqInv
<1>3. Exact(row)' = Exact(row') /\ Exact(pump.task)' = Exact(pump'.task)
  BY DEF Exact, Parse, Lines
<1> QED BY <1>1, <1>2, <1>3 DEF SeqInv

LEMMA SavedLike ==
  ASSUME NEW t, IsRow(t), row' = Saved(t)
  PROVE  Like(row', t)
BY DEF Like, Saved, IsRow

LEMMA AdvanceSeqInv == IInv /\ LogInv /\ SeqInv /\ AdvanceAndPersist => SeqInv'
<1> SUFFICES ASSUME IInv, LogInv, SeqInv, AdvanceAndPersist PROVE SeqInv'
  OBVIOUS
<1> DEFINE c == pump.task.cursor
           u == pump.upto
           n == Len(Parse(Lines(c, u)))
           task == [pump.task EXCEPT !.cursor = u, !.bytes = u, !.seq = @ + n]
<1>0. /\ job' = job /\ pump.at = "delivering" /\ job.out <= Len(Weight) /\ job.out \in Nat
      /\ IsPump(pump) /\ IsRow(pump.task) /\ IsRow(row)
  BY DEF AdvanceAndPersist, IInv, ControlType, IsPump, IsJob, SeqInv
<1>1. c \in Nat /\ u \in Nat /\ c <= u /\ u <= Len(Weight)
  <2>1. c <= u /\ u <= job.out /\ c \in Nat /\ u \in Nat
    BY <1>0 DEF LogInv, IsPump, IsRow
  <2> QED BY <1>0, <2>1, TaskConstants
<1>2. \/ pump' = Onwards(pump.task) /\ row' = row
      \/ pump' = Idle /\ row' = row
      \/ pump' = Onwards(task) /\ row' = Saved(task)
  BY DEF AdvanceAndPersist
<1>3. IsRow(task) /\ task.cursor = u /\ task.seq = pump.task.seq + n
  BY <1>0, <1>1 DEF IsRow
<1> HIDE DEF task
<1>4. Exact(task)
  <2>1. pump.task.seq = Len(Parse(Lines(0, c)))
    BY <1>0 DEF SeqInv, Exact
  <2>2. Len(Parse(Lines(0, u))) = Len(Parse(Lines(0, c))) + n
    BY <1>1, ParseLength
  <2> QED BY <1>3, <2>1, <2>2 DEF Exact
<1>5. ASSUME NEW t, IsRow(t), pump' = Onwards(t) PROVE Like(pump'.task, t)
  BY <1>0, <1>5 DEF Onwards, IsPump, IsRow, Like
<1>6. CASE pump' = Onwards(pump.task) /\ row' = row
  <2>1. Like(pump'.task, pump.task) /\ Like(row', row)
    BY <1>0, <1>5, <1>6 DEF Like
  <2> QED BY <1>0, <2>1, PassedOn
<1>7. CASE pump' = Idle /\ row' = row
  <2>1. pump'.at = "off" /\ Like(row', row)
    BY <1>7, IdleType DEF Like
  <2> QED BY <1>0, <2>1, PassedOn
<1>8. CASE pump' = Onwards(task) /\ row' = Saved(task)
  <2>1. Like(pump'.task, task) /\ Like(row', task)
    BY <1>3, <1>5, <1>8, SavedLike
  <2>2. Exact(pump'.task) /\ Exact(row')
    BY <1>4, <2>1, LikeExact
  <2>3. Exact(row)' = Exact(row') /\ Exact(pump.task)' = Exact(pump'.task)
    BY DEF Exact, Parse, Lines
  <2> QED BY <1>0, <2>2, <2>3 DEF SeqInv
<1> QED BY <1>2, <1>6, <1>7, <1>8

LEMMA SeqInductive == IInv /\ LogInv /\ SeqInv /\ [Next]_vars => SeqInv'
<1> SUFFICES ASSUME IInv, LogInv, SeqInv, [Next]_vars PROVE SeqInv'
  OBVIOUS
<1>0. /\ IsPump(pump) /\ IsRow(row) /\ IsJob(job) /\ IsRow(pump.task)
      /\ job.out <= Len(Weight) /\ Len(Weight) \in Nat /\ job.out \in Nat
  BY TaskConstants, LenProperties DEF IInv, ControlType, SeqInv, IsPump, IsJob
<1>1. ASSUME UNCHANGED <<pump, row>>, job'.out <= Len(Weight) PROVE SeqInv'
  <2>1. Like(row', row) /\ Like(pump'.task, pump.task) /\ pump'.at = pump.at
    BY <1>1 DEF Like
  <2> QED BY <1>1, <2>1, PassedOn
<1>2. CASE RunTask \/ StartThrows \/ JobAccepted \/ ClearKill \/ ClearRelease \/ CancelKill
  <2>1. UNCHANGED <<pump, row>>
    BY <1>2 DEF RunTask, StartThrows, JobAccepted, ClearKill, ClearRelease, CancelKill
  <2>2. job'.out = job.out
    BY <1>0, <1>2
    DEF RunTask, StartThrows, JobAccepted, ClearKill, ClearRelease, CancelKill, Signalled, Released, IsJob
  <2> QED BY <1>0, <1>1, <2>1, <2>2
<1>3. CASE PersistStart
  <2>1. CASE deleted
    BY <1>0, <1>1, <1>3, <2>1 DEF PersistStart
  <2>2. CASE ~deleted
    <3>1. row' = NewTask /\ pump' = PumpFrom(NewTask) /\ job' = job
      BY <1>3, <2>2 DEF PersistStart
    <3>2. Like(row', NoRow) /\ Like(pump'.task, NoRow)
      <4>1. Like(NewTask, NoRow)
        BY DEF NewTask, NoRow, Like
      <4>2. pump'.task = NewTask
        BY <3>1, PumpFromType, NewTaskType
      <4> QED BY <3>1, <4>1, <4>2
    <3> QED BY <1>0, <3>1, <3>2, PassedOn
  <2> QED BY <2>1, <2>2 DEF IInv, ControlType
<1>4. CASE Cancel
  <2>1. Like(row', row) /\ pump' = pump /\ job' = job
    BY <1>0, <1>4 DEF Cancel, Like, IsRow
  <2>2. Like(pump'.task, pump.task) /\ pump'.at = pump.at
    BY <2>1 DEF Like
  <2> QED BY <1>0, <2>1, <2>2, PassedOn
<1>5. CASE AdvanceAndPersist
  BY <1>5, AdvanceSeqInv
<1>6. CASE TruncateLog \/ ReadAnswers \/ ReadRetries \/ AppendStdout \/ KillOverdue \/ AnnounceExit
  <2>1. row' = row /\ pump.at # "off"
    BY <1>6 DEF TruncateLog, ReadAnswers, ReadRetries, AppendStdout, KillOverdue, AnnounceExit
  <2>2. pump'.task = pump.task
    BY <1>0, <1>6 DEF TruncateLog, ReadAnswers, ReadRetries, AppendStdout, KillOverdue, AnnounceExit, IsPump
  <2>3. job'.out = job.out
    BY <1>0, <1>6 DEF TruncateLog, ReadAnswers, ReadRetries, AppendStdout, KillOverdue, AnnounceExit,
                      Signalled, IsJob
  <2>4. Like(row', row) /\ Like(pump'.task, pump.task)
    BY <2>1, <2>2 DEF Like
  <2> QED BY <1>0, <2>1, <2>3, <2>4, PassedOn
<1>7. CASE ReadThrows \/ LogThrows \/ KillThrows
  <2> DEFINE t == Finished(pump.task, "failed", "error")
  <2>1. FailWith /\ pump.at # "off"
    BY <1>7 DEF ReadThrows, LogThrows, KillThrows
  <2>2. /\ job' = job
        /\ \/ pump' = Idle /\ row' = row
           \/ pump' = [pump EXCEPT !.at = "releasing", !.task = t] /\ row' = Saved(t)
    BY <2>1 DEF FailWith
  <2>3. IsRow(t) /\ Like(t, pump.task)
    BY <1>0 DEF Finished, IsRow, Like
  <2> HIDE DEF t
  <2>4. CASE pump' = Idle /\ row' = row
    <3>1. pump'.at = "off" /\ Like(row', row)
      BY <2>4, IdleType DEF Like
    <3> QED BY <1>0, <2>2, <3>1, PassedOn
  <2>5. CASE pump' = [pump EXCEPT !.at = "releasing", !.task = t] /\ row' = Saved(t)
    <3>1. pump'.task = t /\ Like(row', t)
      BY <1>0, <2>3, <2>5, SavedLike DEF IsPump
    <3>2. Like(pump'.task, pump.task) /\ Like(row', pump.task)
      BY <2>3, <3>1 DEF Like
    <3> QED BY <1>0, <2>1, <2>2, <3>2, PassedOn
  <2> QED BY <2>2, <2>4, <2>5
<1>8. CASE Finish
  <2> DEFINE t == Finished(pump.task, Verdict, "exit")
  <2>1. /\ job' = job /\ pump.at # "off"
        /\ row' = row \/ row' = Saved(t)
        /\ \/ pump' = [pump EXCEPT !.at = "releasing", !.task = t]
           \/ pump' = [pump EXCEPT !.at = "announcing", !.task = t]
    BY <1>8 DEF Finish
  <2>2. IsRow(t) /\ Like(t, pump.task)
    BY <1>0 DEF Finished, IsRow, Like, Verdict, VerdictFromExitCode
  <2> HIDE DEF t
  <2>3. pump'.task = t
    BY <1>0, <2>1 DEF IsPump
  <2>4. Like(row', row) \/ Like(row', t)
    BY <2>1, <2>2, SavedLike DEF Like
  <2>5. Like(pump'.task, pump.task) /\ (Like(row', row) \/ Like(row', pump.task))
    BY <2>2, <2>3, <2>4 DEF Like
  <2> QED BY <1>0, <2>1, <2>5, PassedOn
<1>9. CASE ReleaseAndForget
  <2>1. pump'.at = "off" /\ row' = row /\ job'.out = job.out
    BY <1>0, <1>9, IdleType DEF ReleaseAndForget, IsJob, Released
  <2>2. Like(row', row)
    BY <2>1 DEF Like
  <2> QED BY <1>0, <2>1, <2>2, PassedOn
<1>10. CASE JobStep \/ DeadlinePasses \/ DeleteSandbox
  <2>1. pump' = pump /\ (row' = row \/ row' = NoRow)
    BY <1>10 DEF JobStep, JobPrints, JobExits, JobDies, JobLost, DeadlinePasses, DeleteSandbox
  <2>2. job'.out <= Len(Weight)
    <3>1. job'.out = job.out \/ (job.out < Len(Weight) /\ job'.out = job.out + 1)
      BY <1>0, <1>10 DEF JobStep, JobPrints, JobExits, JobDies, JobLost, DeadlinePasses, DeleteSandbox, IsJob
    <3> QED BY <1>0, <3>1
  <2>3. (Like(row', row) \/ Like(row', NoRow)) /\ Like(pump'.task, pump.task) /\ pump'.at = pump.at
    BY <2>1 DEF Like
  <2> QED BY <2>2, <2>3, PassedOn
<1>11. CASE CrashAndBoot
  <2>1. row' = row /\ job' = job /\ (pump' = Idle \/ pump' = PumpFrom(row))
    BY <1>11 DEF CrashAndBoot, ResumeRunning
  <2>2. pump'.at = "off" \/ pump'.task = row
    BY <1>0, <2>1, IdleType, PumpFromType
  <2>3. Like(row', row) /\ (pump'.at = "off" \/ Like(pump'.task, row))
    BY <2>1, <2>2 DEF Like
  <2> QED BY <1>0, <2>1, <2>3, PassedOn
<1>12. CASE ReplayStep \/ (\E fresh \in BOOLEAN : Subscribe(fresh)) \/ Unsubscribe
  <2>1. UNCHANGED <<pump, row, job>>
    BY <1>12, ChannelFrame
  <2> QED BY <1>0, <1>1, <2>1
<1>13. CASE UNCHANGED vars
  BY <1>0, <1>1, <1>13 DEF vars
<1> QED
  BY <1>2, <1>3, <1>4, <1>5, <1>6, <1>7, <1>8, <1>9, <1>10, <1>11, <1>12, <1>13
  DEF Next, StartStep, PumpProgress, PumpFailure

LEMMA SeqInitial == Init => SeqInv
<1> SUFFICES ASSUME Init PROVE SeqInv
  OBVIOUS
<1>1. row = NoRow /\ pump.at = "off" /\ job.out = 0
  BY IdleType DEF Init, NoJob
<1>2. Len(Weight) \in Nat
  BY TaskConstants, LenProperties
<1> QED BY <1>1, <1>2, NothingExact DEF SeqInv

(* A pump that takes up the row after a restart, or another one after it,  *)
(* continues exactly where the row's events end: cursor, seq and length    *)
(* are saved together, and seq counts the events of exactly those lines,   *)
(* whatever the lines are parsed into and however the reads divide them    *)
(* (advanceAndPersist, AgentTaskLogStore).                                 *)
THEOREM ResumePointExact == Spec => []ResumePointIsExact
<1>1. LogInv /\ SeqInv => ResumePointIsExact
  BY DEF LogInv, SeqInv, Exact, ResumePointIsExact
<1> QED BY <1>1, SeqInitial, LogInitial, LogInductive, SeqInductive, TaskInvariant, PTL DEF Spec

-----------------------------------------------------------------------------
(* The channel.  A flow is what a stretch of the run sends: the events after *)
(* the a-th to the b-th, and then the exit that tells x, if x is a verdict.  *)

\* The members after the k-th to the m-th.
Part(f, k, m) == [n \in 1..(m - k) |-> f[k + n]]

LEMMA PickedInterval ==
  ASSUME NEW f, NEW k \in Nat, NEW m \in Nat, k <= m
  PROVE  Picked(f, (k + 1)..m) = Part(f, k, m)
<1> DEFINE S == (k + 1)..m
<1>1. Cardinality(S) = m - k
  <2>1. k + 1 \in Int /\ m \in Int
    OBVIOUS
  <2>2. Cardinality((k + 1)..m) = IF k + 1 > m THEN 0 ELSE m - (k + 1) + 1
    BY <2>1, FS_Interval
  <2> QED BY <2>2
<1>2. ASSUME NEW i \in S PROVE Cardinality({j \in S : j <= i}) = i - k
  <2>1. i \in Int /\ k + 1 \in Int /\ k + 1 <= i /\ ~(k + 1 > i)
    OBVIOUS
  <2>3. {j \in S : j <= i} = (k + 1)..i
    <3>1. i \in Int /\ i <= m /\ k + 1 <= i
      OBVIOUS
    <3>2. ASSUME NEW j \in S, j <= i PROVE j \in (k + 1)..i
      BY <3>1, <3>2
    <3>3. ASSUME NEW j \in (k + 1)..i PROVE j \in S /\ j <= i
      BY <3>1
    <3> HIDE DEF S
    <3> QED BY <3>2, <3>3
  <2>2. Cardinality((k + 1)..i) = IF k + 1 > i THEN 0 ELSE i - (k + 1) + 1
    BY <2>1, FS_Interval
  <2>4. Cardinality({j \in S : j <= i}) = IF k + 1 > i THEN 0 ELSE i - (k + 1) + 1
    BY <2>2, <2>3
  <2> QED BY <2>1, <2>4
<1>3. ASSUME NEW n \in 1..(m - k)
      PROVE  (CHOOSE i \in S : Cardinality({j \in S : j <= i}) = n) = k + n
  <2>1. k + n \in S /\ (k + n) - k = n
    OBVIOUS
  <2>2. Cardinality({j \in S : j <= k + n}) = n
    BY <1>2, <2>1
  <2>3. \A i \in S : Cardinality({j \in S : j <= i}) = n => i = k + n
    BY <1>2
  <2> QED BY <2>1, <2>2, <2>3
<1> DEFINE At(n) == CHOOSE i \in S : Cardinality({j \in S : j <= i}) = n
<1>4. Picked(f, S) = [n \in 1..Cardinality(S) |-> f[At(n)]]
  BY DEF Picked
<1>5. \A n \in 1..(m - k) : At(n) = k + n
  BY <1>3
<1> HIDE DEF At
<1> QED BY <1>1, <1>4, <1>5 DEF Part

RunEvents == Parse(Lines(0, Len(Weight)))
Count(n) == Len(Parse(Lines(0, n)))
EventFrame(n) == [type |-> "event", seq |-> n, event |-> RunEvents[n]]
Ends(x) == IF x = "none" THEN 0 ELSE 1
Verdicts == {"none"} \cup Terminal

\* The events after the a-th to the b-th, and then the exit that tells x.
Flow(a, b, x) ==
  [i \in 1..((b - a) + Ends(x)) |-> IF i <= b - a THEN EventFrame(a + i) ELSE ExitFrame(x)]

IsFlow(f, a, b, x) ==
  /\ DOMAIN f = 1..((b - a) + Ends(x)) /\ Len(f) = (b - a) + Ends(x)
  /\ \A i \in 1..(b - a) : f[i] = EventFrame(a + i) /\ f[i].type = "event" /\ f[i].seq = a + i
  /\ \A i \in ((b - a) + 1)..((b - a) + Ends(x)) : f[i] = ExitFrame(x) /\ f[i].type = "exit"

LEMMA FlowMembers ==
  ASSUME NEW a \in Nat, NEW b \in Nat, a <= b, NEW x
  PROVE  IsFlow(Flow(a, b, x), a, b, x)
<1>1. Ends(x) \in {0, 1} /\ (Ends(x) = 0 <=> x = "none")
  BY DEF Ends
<1>2. (b - a) + Ends(x) \in Nat
  BY <1>1
<1>3. /\ DOMAIN Flow(a, b, x) = 1..((b - a) + Ends(x))
      /\ \A i \in 1..((b - a) + Ends(x)) :
           Flow(a, b, x)[i] = IF i <= b - a THEN EventFrame(a + i) ELSE ExitFrame(x)
  BY DEF Flow
<1>4. Len(Flow(a, b, x)) = (b - a) + Ends(x)
  BY <1>2 DEF Flow
<1>5. \A i \in 1..(b - a) : Flow(a, b, x)[i] = EventFrame(a + i)
  BY <1>1, <1>3
<1>6. \A i \in ((b - a) + 1)..((b - a) + Ends(x)) : Flow(a, b, x)[i] = ExitFrame(x)
  BY <1>1, <1>3
<1>7. \A n : EventFrame(n).type = "event" /\ EventFrame(n).seq = n /\ ExitFrame(x).type = "exit"
  BY DEF EventFrame, ExitFrame
<1> QED BY <1>1, <1>3, <1>4, <1>5, <1>6, <1>7 DEF IsFlow

\* A part of a flow from some event on, with the exit or without.
LEMMA FlowFrom ==
  ASSUME NEW a \in Nat, NEW b \in Nat, NEW c \in Nat, a <= c, c <= b, NEW x
  PROVE  Picked(Flow(a, b, x), ((c - a) + 1)..((b - a) + Ends(x))) = Flow(c, b, x)
<1> DEFINE k == c - a
           m == (b - a) + Ends(x)
           f == Flow(a, b, x)
<1>0. a <= b
  OBVIOUS
<1>1. k \in Nat /\ m \in Nat /\ k <= m /\ m - k = (b - c) + Ends(x)
  BY DEF Ends
<1>2. Picked(f, (k + 1)..m) = Part(f, k, m)
  <2> HIDE DEF f, k, m
  <2> QED BY <1>1, PickedInterval
<1>3. /\ \A i \in 1..(b - a) : f[i] = EventFrame(a + i)
      /\ \A i \in ((b - a) + 1)..((b - a) + Ends(x)) : f[i] = ExitFrame(x)
  <2>1. IsFlow(f, a, b, x)
    BY <1>0, FlowMembers
  <2> HIDE DEF f
  <2> QED BY <2>1 DEF IsFlow
<1> HIDE DEF f
<1>4. ASSUME NEW n \in 1..(m - k)
      PROVE  f[k + n] = IF n <= b - c THEN EventFrame(c + n) ELSE ExitFrame(x)
  <2>1. CASE n <= b - c
    <3>1. k + n \in 1..(b - a) /\ a + (k + n) = c + n
      BY <2>1
    <3> QED BY <1>3, <2>1, <3>1
  <2>2. CASE ~(n <= b - c)
    <3>1. k + n \in ((b - a) + 1)..((b - a) + Ends(x))
      BY <1>1, <2>2
    <3> QED BY <1>3, <2>2, <3>1
  <2> QED BY <2>1, <2>2
<1>6. Flow(c, b, x) = [n \in 1..(m - k) |-> IF n <= b - c THEN EventFrame(c + n) ELSE ExitFrame(x)]
  BY <1>1 DEF Flow
<1> HIDE DEF k, m
<1>7. Picked(f, (k + 1)..m) = Flow(c, b, x)
  BY <1>2, <1>4, <1>6 DEF Part
<1> QED BY <1>7 DEF f, k, m

LEMMA FlowEvents ==
  ASSUME NEW a \in Nat, NEW b \in Nat, NEW c \in Nat, a <= c, c <= b, NEW x
  PROVE  Picked(Flow(a, b, x), ((c - a) + 1)..(b - a)) = Flow(c, b, "none")
<1> DEFINE k == c - a
           m == b - a
           f == Flow(a, b, x)
<1>0. a <= b
  OBVIOUS
<1>1. k \in Nat /\ m \in Nat /\ k <= m /\ m - k = (b - c) + Ends("none") /\ m - k = b - c
  BY DEF Ends
<1>2. Picked(f, (k + 1)..m) = Part(f, k, m)
  <2> HIDE DEF f, k, m
  <2> QED BY <1>1, PickedInterval
<1>3. \A i \in 1..(b - a) : f[i] = EventFrame(a + i)
  <2>1. IsFlow(f, a, b, x)
    BY <1>0, FlowMembers
  <2> HIDE DEF f
  <2> QED BY <2>1 DEF IsFlow
<1> HIDE DEF f
<1>4. ASSUME NEW n \in 1..(m - k)
      PROVE  f[k + n] = EventFrame(c + n) /\ n <= b - c
  <2>1. k + n \in 1..(b - a) /\ a + (k + n) = c + n /\ n <= b - c
    OBVIOUS
  <2> QED BY <1>3, <2>1
<1>6. Flow(c, b, "none")
        = [n \in 1..(m - k) |-> IF n <= b - c THEN EventFrame(c + n) ELSE ExitFrame("none")]
  BY <1>1 DEF Flow
<1> HIDE DEF k, m
<1>7. Picked(f, (k + 1)..m) = Flow(c, b, "none")
  BY <1>2, <1>4, <1>6 DEF Part
<1> QED BY <1>7 DEF f, k, m

Later(b, d) == IF b < d THEN d ELSE b

LEMMA FlowOver ==
  ASSUME NEW a \in Nat, NEW b \in Nat, NEW x
  PROVE  Flow(a, a, x) = Flow(b, b, x)
<1>1. \A c \in Nat : Flow(c, c, x) = [i \in 1..Ends(x) |-> ExitFrame(x)]
  <2> TAKE c \in Nat
  <2>1. (c - c) + Ends(x) = Ends(x) /\ \A i \in 1..Ends(x) : ~(i <= c - c)
    BY DEF Ends
  <2> QED BY <2>1 DEF Flow
<1> QED BY <1>1

\* The places of a flow that come after d, the exit with them or not.
LEMMA PlacesAfter ==
  ASSUME NEW a \in Nat, NEW b \in Nat, NEW d \in Nat, a <= b, a <= d, NEW x, NEW f, IsFlow(f, a, b, x),
         NEW exit \in BOOLEAN
  PROVE  {i \in DOMAIN f : IF f[i].type = "exit" THEN exit ELSE f[i].seq > d}
           = (((IF d <= b THEN d ELSE b) - a) + 1)..((b - a) + (IF exit THEN Ends(x) ELSE 0))
<1> DEFINE n == b - a
           c == IF d <= b THEN d ELSE b
           S == {i \in DOMAIN f : IF f[i].type = "exit" THEN exit ELSE f[i].seq > d}
           e == IF exit THEN Ends(x) ELSE 0
<1>1. Ends(x) \in {0, 1} /\ n \in Nat /\ c \in Nat /\ a <= c /\ c <= b /\ e \in {0, 1} /\ e <= Ends(x)
  BY DEF Ends
<1>2. DOMAIN f = 1..(n + Ends(x))
      /\ (\A i \in 1..n : f[i].type # "exit" /\ f[i].seq = a + i)
      /\ \A i \in (n + 1)..(n + Ends(x)) : f[i].type = "exit"
  BY DEF IsFlow
<1>3. ASSUME NEW i \in S PROVE i \in ((c - a) + 1)..(n + e)
  <2>1. i \in 1..(n + Ends(x))
    BY <1>2
  <2>2. CASE i \in 1..n
    <3>1. a + i > d
      BY <1>2, <2>2
    <3>2. i >= (c - a) + 1 /\ i <= n + e /\ i \in Int
      BY <1>1, <2>2, <3>1
    <3> QED BY <1>1, <3>2
  <2>3. CASE i \in (n + 1)..(n + Ends(x))
    <3>1. exit
      BY <1>2, <2>3
    <3>2. e = Ends(x)
      BY <3>1
    <3>3. i >= (c - a) + 1
      BY <1>1, <2>3
    <3> QED BY <1>1, <2>3, <3>2, <3>3
  <2> QED BY <1>1, <2>1, <2>2, <2>3
<1>4. ASSUME NEW i \in ((c - a) + 1)..(n + e) PROVE i \in S
  <2>1. i \in 1..(n + Ends(x))
    BY <1>1
  <2>2. CASE i \in 1..n
    <3>1. a + i > d
      BY <1>1, <2>2
    <3> QED BY <1>2, <2>1, <2>2, <3>1
  <2>3. CASE i \in (n + 1)..(n + Ends(x))
    <3>1. exit
      BY <1>1, <2>3
    <3> QED BY <1>2, <2>1, <2>3, <3>1
  <2> QED BY <1>1, <2>1, <2>2, <2>3
<1>5. S = ((c - a) + 1)..(n + e)
  <2> HIDE DEF S, c, n, e
  <2> QED BY <1>3, <1>4
<1> QED BY <1>5

LEMMA FlowPlacesAfter ==
  ASSUME NEW a \in Nat, NEW b \in Nat, NEW d \in Nat, a <= b, a <= d, NEW x, NEW exit \in BOOLEAN
  PROVE  Picked(Flow(a, b, x), {i \in DOMAIN Flow(a, b, x) :
                IF Flow(a, b, x)[i].type = "exit" THEN exit ELSE Flow(a, b, x)[i].seq > d})
           = Flow(d, Later(b, d), IF exit THEN x ELSE "none")
<1> DEFINE f == Flow(a, b, x)
           c == IF d <= b THEN d ELSE b
           S == {i \in DOMAIN f : IF f[i].type = "exit" THEN exit ELSE f[i].seq > d}
           y == IF exit THEN x ELSE "none"
<1>1. c \in Nat /\ a <= c /\ c <= b
  OBVIOUS
<1>2. IsFlow(f, a, b, x)
  BY FlowMembers
<1>3. S = ((c - a) + 1)..((b - a) + (IF exit THEN Ends(x) ELSE 0))
  <2> HIDE DEF f
  <2> QED BY <1>2, PlacesAfter
<1>4. Picked(f, S) = Flow(c, b, y)
  <2>1. CASE exit
    <3>1. S = ((c - a) + 1)..((b - a) + Ends(x)) /\ y = x
      BY <1>3, <2>1
    <3>2. Picked(f, ((c - a) + 1)..((b - a) + Ends(x))) = Flow(c, b, x)
      <4> HIDE DEF c
      <4> QED BY <1>1, FlowFrom
    <3> HIDE DEF S, f, y, c
    <3> QED BY <3>1, <3>2
  <2>2. CASE ~exit
    <3>1. S = ((c - a) + 1)..(b - a) /\ y = "none"
      <4>1. (b - a) + 0 = b - a
        OBVIOUS
      <4> HIDE DEF S, c
      <4> QED BY <1>3, <2>2, <4>1
    <3>2. Picked(f, ((c - a) + 1)..(b - a)) = Flow(c, b, "none")
      <4> HIDE DEF c
      <4> QED BY <1>1, FlowEvents
    <3> HIDE DEF S, f, y, c
    <3> QED BY <3>1, <3>2
  <2> QED BY <2>1, <2>2
<1>5. Flow(c, b, y) = Flow(d, Later(b, d), y)
  <2>1. CASE d <= b
    <3>1. c = d /\ Later(b, d) = b
      BY <2>1 DEF Later
    <3> HIDE DEF c, y
    <3> QED BY <3>1
  <2>2. CASE ~(d <= b)
    <3>1. c = b /\ Later(b, d) = d
      BY <2>2 DEF Later
    <3>2. Flow(b, b, y) = Flow(d, d, y)
      <4> HIDE DEF y
      <4> QED BY FlowOver
    <3> HIDE DEF c, y
    <3> QED BY <3>1, <3>2
  <2> QED BY <2>1, <2>2
<1> HIDE DEF f, S, c, y
<1>6. Picked(f, S) = Flow(d, Later(b, d), y)
  BY <1>4, <1>5
<1> QED BY <1>6 DEF f, S, y

LEMMA AfterFlow ==
  ASSUME NEW a \in Nat, NEW b \in Nat, NEW d \in Nat, a <= b, a <= d, NEW x
  PROVE  After(Flow(a, b, x), d) = Flow(d, Later(b, d), x)
<1> DEFINE f == Flow(a, b, x)
<1>1. Picked(f, {i \in DOMAIN f : IF f[i].type = "exit" THEN TRUE ELSE f[i].seq > d})
        = Flow(d, Later(b, d), x)
  <2> DEFINE exit == TRUE
  <2>1. exit \in BOOLEAN
    OBVIOUS
  <2> HIDE DEF exit
  <2>2. Picked(f, {i \in DOMAIN f : IF f[i].type = "exit" THEN exit ELSE f[i].seq > d})
          = Flow(d, Later(b, d), IF exit THEN x ELSE "none")
    BY <2>1, FlowPlacesAfter
  <2> HIDE DEF f
  <2> QED BY <2>2 DEF exit
<1> HIDE DEF f
<1>2. {i \in DOMAIN f : f[i].type = "exit" \/ f[i].seq > d}
        = {i \in DOMAIN f : IF f[i].type = "exit" THEN TRUE ELSE f[i].seq > d}
  OBVIOUS
<1>3. After(f, d) = Flow(d, Later(b, d), x)
  BY <1>1, <1>2 DEF After
<1> QED BY <1>3 DEF f

LEMMA FreshFlow ==
  ASSUME NEW a \in Nat, NEW b \in Nat, a <= b, NEW x,
         NEW sub, sub.live, sub.deliveredSeq \in Nat, a <= sub.deliveredSeq, sub.exitSent \in BOOLEAN
  PROVE  Fresh(sub, Flow(a, b, x))
           = Flow(sub.deliveredSeq, Later(b, sub.deliveredSeq), IF ~sub.exitSent THEN x ELSE "none")
<1> DEFINE f == Flow(a, b, x)
           d == sub.deliveredSeq
           exit == ~sub.exitSent
<1>0. d \in Nat /\ a <= d /\ exit \in BOOLEAN
  OBVIOUS
<1> HIDE DEF d, exit
<1>1. Picked(f, {i \in DOMAIN f : IF f[i].type = "exit" THEN exit ELSE f[i].seq > d})
        = Flow(d, Later(b, d), IF exit THEN x ELSE "none")
  BY <1>0, FlowPlacesAfter
<1> HIDE DEF f
<1> QED BY <1>1 DEF Fresh, f, d, exit

LEMMA EventsFlow ==
  ASSUME NEW a \in Nat, NEW b \in Nat, a <= b, NEW x
  PROVE  Events(Flow(a, b, x)) = Flow(a, b, "none")
<1> DEFINE f == Flow(a, b, x)
           S == {i \in DOMAIN f : f[i].type = "event"}
<1>1. IsFlow(f, a, b, x) /\ Picked(f, ((a - a) + 1)..(b - a)) = Flow(a, b, "none")
  BY FlowMembers, FlowEvents
<1> HIDE DEF f
<1>2. S = ((a - a) + 1)..(b - a)
  <2>1. Ends(x) \in {0, 1} /\ b - a \in Nat /\ a - a = 0
    BY DEF Ends
  <2>2. ASSUME NEW i \in S PROVE i \in 1..(b - a)
    BY <1>1, <2>1 DEF IsFlow
  <2>3. ASSUME NEW i \in 1..(b - a) PROVE i \in S
    BY <1>1, <2>1 DEF IsFlow
  <2>4. ((a - a) + 1)..(b - a) = 1..(b - a)
    OBVIOUS
  <2> HIDE DEF S
  <2> QED BY <2>2, <2>3, <2>4
<1>3. Events(f) = Flow(a, b, "none")
  BY <1>1, <1>2 DEF Events
<1> QED BY <1>3 DEF f

LEMMA ExitsFlow ==
  ASSUME NEW a \in Nat, NEW b \in Nat, a <= b, NEW x
  PROVE  Exits(Flow(a, b, x)) = Flow(b, b, x)
<1> DEFINE f == Flow(a, b, x)
           S == {i \in DOMAIN f : f[i].type = "exit"}
<1>1. IsFlow(f, a, b, x) /\ Picked(f, ((b - a) + 1)..((b - a) + Ends(x))) = Flow(b, b, x)
  BY FlowMembers, FlowFrom
<1> HIDE DEF f
<1>2. S = ((b - a) + 1)..((b - a) + Ends(x))
  <2>1. Ends(x) \in {0, 1} /\ b - a \in Nat
    BY DEF Ends
  <2>2. ASSUME NEW i \in S PROVE i \in ((b - a) + 1)..((b - a) + Ends(x))
    <3>1. i \in 1..((b - a) + Ends(x)) /\ i \notin 1..(b - a)
      BY <1>1, <2>1 DEF IsFlow
    <3> QED BY <2>1, <3>1
  <2>3. ASSUME NEW i \in ((b - a) + 1)..((b - a) + Ends(x)) PROVE i \in S
    <3>1. i \in 1..((b - a) + Ends(x))
      BY <2>1
    <3> QED BY <1>1, <3>1 DEF IsFlow
  <2> HIDE DEF S
  <2> QED BY <2>1, <2>2, <2>3
<1>3. Exits(f) = Flow(b, b, x)
  BY <1>1, <1>2 DEF Exits
<1> QED BY <1>3 DEF f

\* When a flow holds nothing, and what it ends with otherwise.
LEMMA FlowEnd ==
  ASSUME NEW a \in Nat, NEW b \in Nat, a <= b
  PROVE  /\ Flow(a, b, "none") = <<>> <=> a = b
         /\ a # b => Last(Flow(a, b, "none")).seq = b
<1> DEFINE f == Flow(a, b, "none")
<1>1. IsFlow(f, a, b, "none") /\ Ends("none") = 0
  BY FlowMembers DEF Ends
<1>2. f = [i \in 1..(b - a) |-> IF i <= b - a THEN EventFrame(a + i) ELSE ExitFrame("none")]
  BY <1>1 DEF Flow
<1>3. a = b => f = <<>>
  BY <1>2
<1> HIDE DEF f
<1>4. Len(f) = b - a /\ \A i \in 1..(b - a) : f[i].seq = a + i
  BY <1>1 DEF IsFlow
<1>5. a # b => f # <<>> /\ Last(f).seq = b
  <2> SUFFICES ASSUME a # b PROVE f # <<>> /\ Last(f).seq = b
    OBVIOUS
  <2>1. b - a \in 1..(b - a) /\ a + (b - a) = b /\ b - a # 0
    OBVIOUS
  <2>2. f[b - a].seq = b
    BY <1>4, <2>1
  <2> QED BY <1>4, <2>1, <2>2 DEF Last
<1> QED BY <1>3, <1>5 DEF f

LEMMA ExitFlow ==
  ASSUME NEW a \in Nat, NEW x
  PROVE  /\ Flow(a, a, x) = <<>> <=> x = "none"
         /\ x # "none" => Flow(a, a, x) = <<ExitFrame(x)>>
         /\ Len(Flow(a, a, x)) = Ends(x)
         /\ x # "none" => Last(Flow(a, a, x)).status = x
<1> DEFINE f == Flow(a, a, x)
<1>1. f = [i \in 1..Ends(x) |-> ExitFrame(x)]
  <2>1. (a - a) + Ends(x) = Ends(x) /\ \A i \in 1..Ends(x) : ~(i <= a - a)
    BY DEF Ends
  <2> QED BY <2>1 DEF Flow
<1>2. CASE x = "none"
  <2>1. Ends(x) = 0
    BY <1>2 DEF Ends
  <2>2. f = <<>>
    BY <1>1, <2>1
  <2> HIDE DEF f
  <2>3. Len(f) = 0
    BY <2>2
  <2> QED BY <1>2, <2>1, <2>2, <2>3 DEF f
<1>3. CASE x # "none"
  <2>1. Ends(x) = 1
    BY <1>3 DEF Ends
  <2>2. f = <<ExitFrame(x)>>
    BY <1>1, <2>1
  <2> HIDE DEF f
  <2>3. Len(f) = 1 /\ f # <<>> /\ f[1] = ExitFrame(x)
    BY <2>2
  <2>4. Last(f).status = x
    BY <2>3 DEF Last, ExitFrame
  <2> QED BY <1>3, <2>1, <2>2, <2>3, <2>4 DEF f
<1> QED BY <1>2, <1>3

Joined(f, g) == f \o g

LEMMA FlowJoin ==
  ASSUME NEW a \in Nat, NEW b \in Nat, NEW c \in Nat, a <= b, b <= c, NEW x
  PROVE  Joined(Flow(a, b, "none"), Flow(b, c, x)) = Flow(a, c, x)
<1> DEFINE f == Flow(a, b, "none")
           g == Flow(b, c, x)
           m == b - a
           n == (c - b) + Ends(x)
<1>1. Ends("none") = 0 /\ Ends(x) \in {0, 1} /\ m \in Nat /\ n \in Nat /\ m + n = (c - a) + Ends(x)
  BY DEF Ends
<1>2. IsFlow(f, a, b, "none") /\ IsFlow(g, b, c, x)
  BY FlowMembers
<1>8. f = [i \in 1..m |-> f[i]] /\ g = [i \in 1..n |-> g[i]]
  BY <1>1 DEF Flow
<1> HIDE DEF f, g
<1>3. Len(f) = m /\ Len(g) = n
  BY <1>1, <1>2 DEF IsFlow
<1>4. ASSUME NEW i \in 1..(m + n)
      PROVE  (IF i <= m THEN f[i] ELSE g[i - m]) = IF i <= c - a THEN EventFrame(a + i) ELSE ExitFrame(x)
  <2>1. CASE i <= m
    <3>1. i \in 1..(b - a) /\ i <= c - a
      BY <2>1
    <3> QED BY <1>2, <2>1, <3>1 DEF IsFlow
  <2>2. CASE ~(i <= m) /\ i <= c - a
    <3>1. i - m \in 1..(c - b) /\ b + (i - m) = a + i
      BY <2>2
    <3> QED BY <1>2, <2>2, <3>1 DEF IsFlow
  <2>3. CASE ~(i <= c - a)
    <3>1. i - m \in ((c - b) + 1)..((c - b) + Ends(x)) /\ ~(i <= m)
      BY <1>1, <2>3
    <3> QED BY <1>2, <2>3, <3>1 DEF IsFlow
  <2> QED BY <2>1, <2>2, <2>3
<1>5. f \o g = [i \in 1..(m + n) |-> IF i <= m THEN f[i] ELSE g[i - m]]
  <2> DEFINE T == {f[i] : i \in 1..m} \cup {g[i] : i \in 1..n}
  <2>1. f \in Seq(T) /\ g \in Seq(T)
    <3>1. (\A i \in 1..m : f[i] \in T) /\ \A i \in 1..n : g[i] \in T
      OBVIOUS
    <3> HIDE DEF T, m, n
    <3>2. f \in [1..m -> T] /\ g \in [1..n -> T]
      BY <1>8, <3>1
    <3> QED BY <1>1, <3>2
  <2> HIDE DEF T, m, n
  <2> DEFINE h == f \o g
  <2>2. h \in Seq(T) /\ Len(h) = m + n
        /\ \A i \in 1..(m + n) : h[i] = IF i <= m THEN f[i] ELSE g[i - m]
    BY <1>3, <2>1, ConcatProperties
  <2> HIDE DEF h
  <2>3. h = [i \in 1..(m + n) |-> h[i]]
    BY <2>2
  <2> QED BY <2>2, <2>3 DEF h
<1>6. Flow(a, c, x) = [i \in 1..(m + n) |-> IF i <= c - a THEN EventFrame(a + i) ELSE ExitFrame(x)]
  BY <1>1 DEF Flow
<1> HIDE DEF m, n
<1>7. f \o g = Flow(a, c, x)
  BY <1>4, <1>5, <1>6
<1> QED BY <1>7 DEF f, g, Joined

-----------------------------------------------------------------------------
(* How many events the lines are parsed into, and their frames.              *)

LEMMA CountType ==
  ASSUME NEW n \in Nat, n <= Len(Weight)
  PROVE  Count(n) \in Nat /\ Parse(Lines(0, n)) \in Seq(Event)
<1>1. Parse(Lines(0, n)) \in Seq(Event)
  <2>1. 0 \in Nat /\ 0 <= n
    OBVIOUS
  <2> QED BY <2>1, ParseType
<1> QED BY <1>1, LenProperties DEF Count

LEMMA CountGrows ==
  ASSUME NEW m \in Nat, NEW n \in Nat, m <= n, n <= Len(Weight)
  PROVE  Count(m) <= Count(n) /\ Count(m) \in Nat /\ Count(n) \in Nat
<1>0. Len(Weight) \in Nat
  BY TaskConstants, LenProperties
<1>1. Count(n) = Count(m) + Len(Parse(Lines(m, n))) /\ Parse(Lines(m, n)) \in Seq(Event)
  BY ParseLength, ParseType DEF Count
<1>2. Len(Parse(Lines(m, n))) \in Nat
  BY <1>1, LenProperties
<1>3. Count(m) \in Nat /\ Count(n) \in Nat
  <2>1. m <= Len(Weight)
    BY <1>0
  <2> QED BY <2>1, CountType
<1> QED BY <1>1, <1>2, <1>3

LEMMA CountNothing == Count(0) = 0
BY ParseNothing DEF Count

\* The events of some lines stand in the output after those of the lines before.
LEMMA OutputOfLines ==
  ASSUME NEW c \in Nat, NEW u \in Nat, c <= u, u <= Len(Weight)
  PROVE  /\ Len(Parse(Lines(c, u))) = Count(u) - Count(c)
         /\ \A i \in 1..Len(Parse(Lines(c, u))) : Parse(Lines(c, u))[i] = RunEvents[Count(c) + i]
<1> DEFINE N == Len(Weight)
           x == Parse(Lines(0, c))
           y == Parse(Lines(c, u))
           z == Parse(Lines(u, N))
<1>0. N \in Nat /\ 0 \in Nat /\ 0 <= c /\ c <= N /\ 0 <= u /\ N <= Len(Weight) /\ u <= N
  BY TaskConstants, LenProperties
<1>1. x \in Seq(Event) /\ y \in Seq(Event) /\ z \in Seq(Event)
  <2> HIDE DEF N
  <2> QED BY <1>0, ParseType
<1>2. RunEvents = Parse(Lines(0, u)) \o z /\ Parse(Lines(0, u)) = x \o y
  <2>1. RunEvents = Parse(Lines(0, N))
    BY DEF RunEvents
  <2> HIDE DEF N
  <2> QED BY <1>0, <2>1, ParseSplit
<1>3. Len(y) = Count(u) - Count(c) /\ Count(c) = Len(x) /\ Len(x) \in Nat /\ Len(y) \in Nat
  <2>1. Count(u) = Count(c) + Len(y)
    BY ParseLength DEF Count
  <2>2. Count(c) = Len(x) /\ Len(x) \in Nat /\ Len(y) \in Nat
    <3>1. Count(c) = Len(x)
      BY DEF Count
    <3> HIDE DEF x, y
    <3> QED BY <1>1, <3>1, LenProperties
  <2> HIDE DEF x, y
  <2> QED BY <2>1, <2>2
<1> HIDE DEF x, y, z
<1>4. RunEvents = (x \o y) \o z
  BY <1>2
<1>5. ASSUME NEW i \in 1..Len(y) PROVE ((x \o y) \o z)[Len(x) + i] = y[i]
  <2>1. x \o y \in Seq(Event) /\ Len(x \o y) = Len(x) + Len(y) /\ (x \o y)[Len(x) + i] = y[i]
    <3>1. Len(x) + i \in 1..(Len(x) + Len(y)) /\ ~(Len(x) + i <= Len(x)) /\ (Len(x) + i) - Len(x) = i
      BY <1>3
    <3> QED BY <1>1, <3>1, ConcatProperties
  <2>2. Len(x) + i \in 1..(Len(x \o y) + Len(z)) /\ Len(x) + i <= Len(x \o y) /\ Len(z) \in Nat
    BY <1>1, <1>3, <2>1, LenProperties
  <2> QED BY <1>1, <2>1, <2>2, ConcatProperties
<1> QED BY <1>3, <1>4, <1>5 DEF y

LEMMA FramesFlow ==
  ASSUME NEW c \in Nat, NEW u \in Nat, c <= u, u <= Len(Weight)
  PROVE  Frames(Parse(Lines(c, u)), Count(c)) = Flow(Count(c), Count(u), "none")
<1> DEFINE e == Parse(Lines(c, u))
           s == Count(c)
           n == Count(u) - s
<1>1. Len(e) = n /\ n \in Nat /\ \A i \in 1..n : e[i] = RunEvents[s + i]
  <2>1. Len(e) = n /\ \A i \in 1..n : e[i] = RunEvents[s + i]
    BY OutputOfLines
  <2>2. n \in Nat
    BY CountGrows
  <2> QED BY <2>1, <2>2
<1>2. Frames(e, s) = [i \in 1..n |-> EventFrame(s + i)]
  <2> HIDE DEF e, s, n
  <2> QED BY <1>1 DEF Frames, EventFrame
<1>3. Flow(s, Count(u), "none") = [i \in 1..n |-> EventFrame(s + i)]
  <2>1. n + Ends("none") = n
    BY <1>1 DEF Ends
  <2> HIDE DEF n
  <2>2. Flow(s, Count(u), "none")
          = [i \in 1..(n + Ends("none")) |-> IF i <= n THEN EventFrame(s + i) ELSE ExitFrame("none")]
    BY DEF Flow, n
  <2> QED BY <1>1, <2>1, <2>2
<1> QED BY <1>2, <1>3

LEMMA OutputPrefix ==
  ASSUME NEW n \in Nat, n <= Len(Weight), NEW i \in 1..Count(n)
  PROVE  Parse(Lines(0, n))[i] = RunEvents[i]
<1>1. Parse(Lines(0, n))[i] = RunEvents[Count(0) + i]
  <2>1. 0 \in Nat /\ 0 <= n /\ i \in 1..Len(Parse(Lines(0, n)))
    BY DEF Count
  <2> QED BY <2>1, OutputOfLines
<1>2. Count(0) + i = i
  BY CountNothing, CountType
<1> QED BY <1>1, <1>2

\* What a replay parses: the lines of the log after the k-th, as far as the n-th.
LEMMA LinesPart ==
  ASSUME NEW L \in Nat, NEW k \in Nat, NEW n \in Nat, n <= L
  PROVE  /\ k <= n => SubSeq(Lines(0, L), k + 1, n) = Lines(k, n)
         /\ n <= k => SubSeq(Lines(0, L), k + 1, n) = Lines(k, k)
BY DEF Lines

-----------------------------------------------------------------------------
(* What deliver does to the client, and to its subscription.                 *)

\* The view of a client that has seen the first n events and has been told e.
Seen(n) == [i \in 1..n |-> <<i, RunEvents[i]>>]
Held(n, e) == [events |-> Seen(n), exit |-> e, exits |-> Ends(e)]
Told(e, x) == IF e # "none" THEN e ELSE x

LEMMA SeenOn ==
  ASSUME NEW d \in Nat, NEW b \in Nat, d <= b
  PROVE  LET f == Flow(d, b, "none")
         IN  Seen(d) \o [i \in 1..Len(f) |-> <<f[i].seq, f[i].event>>] = Seen(b)
<1> DEFINE f == Flow(d, b, "none")
           n == b - d
           g == [i \in 1..n |-> <<d + i, RunEvents[d + i]>>]
           T == {<<i, RunEvents[i]>> : i \in 1..b}
<1>1. IsFlow(f, d, b, "none") /\ Ends("none") = 0 /\ n \in Nat /\ b = d + n
  BY FlowMembers DEF Ends
<1> HIDE DEF f
<1>2. Len(f) = n /\ \A i \in 1..n : f[i].seq = d + i /\ f[i].event = RunEvents[d + i]
  <2>1. \A m : EventFrame(m).seq = m /\ EventFrame(m).event = RunEvents[m]
    BY DEF EventFrame
  <2>2. Len(f) = n /\ \A i \in 1..n : f[i] = EventFrame(d + i)
    BY <1>1 DEF IsFlow
  <2> QED BY <2>1, <2>2
<1>3. [i \in 1..Len(f) |-> <<f[i].seq, f[i].event>>] = g
  <2> HIDE DEF n
  <2> QED BY <1>2
<1>4. Seen(d) \in Seq(T) /\ Len(Seen(d)) = d /\ g \in Seq(T) /\ Len(g) = n
  <2>1. (\A i \in 1..d : <<i, RunEvents[i]>> \in T) /\ (\A i \in 1..n : <<d + i, RunEvents[d + i]>> \in T)
    <3>1. (\A i \in 1..d : i \in 1..b) /\ (\A i \in 1..n : d + i \in 1..b)
      BY <1>1
    <3> HIDE DEF n
    <3> QED BY <3>1
  <2> HIDE DEF T, n
  <2> QED BY <1>1, <2>1 DEF Seen
<1> DEFINE h == Seen(d) \o g
<1>5. h \in Seq(T) /\ Len(h) = d + n
      /\ \A i \in 1..(d + n) : h[i] = IF i <= d THEN Seen(d)[i] ELSE g[i - d]
  <2> DEFINE s == Seen(d)
  <2>1. s \in Seq(T) /\ Len(s) = d /\ g \in Seq(T) /\ Len(g) = n
    BY <1>4
  <2> HIDE DEF T, g, n, s
  <2>2. s \o g \in Seq(T) /\ Len(s \o g) = d + n
        /\ \A i \in 1..(d + n) : (s \o g)[i] = IF i <= d THEN s[i] ELSE g[i - d]
    BY <2>1, ConcatProperties
  <2> QED BY <2>2 DEF s
<1>6. ASSUME NEW i \in 1..(d + n) PROVE h[i] = <<i, RunEvents[i]>>
  <2>1. CASE i <= d
    <3>1. i \in 1..d
      BY <2>1
    <3>2. Seen(d)[i] = <<i, RunEvents[i]>>
      BY <3>1 DEF Seen
    <3> HIDE DEF h
    <3> QED BY <1>5, <2>1, <3>2
  <2>2. CASE ~(i <= d)
    <3>1. i - d \in 1..n /\ d + (i - d) = i
      BY <2>2
    <3>2. g[i - d] = <<i, RunEvents[i]>>
      BY <3>1
    <3> HIDE DEF h, g
    <3> QED BY <1>5, <2>2, <3>2
  <2> QED BY <2>1, <2>2
<1> HIDE DEF h
<1>7. h = [i \in 1..(d + n) |-> h[i]]
  BY <1>5
<1>8. h = Seen(b)
  BY <1>1, <1>6, <1>7 DEF Seen
<1> QED BY <1>3, <1>8 DEF h, f

LEMMA ShownFlow ==
  ASSUME NEW d \in Nat, NEW b \in Nat, d <= b, NEW e, NEW x, view = Held(d, e), e = "none" \/ x = "none"
  PROVE  Shown(Flow(d, b, x)) = Held(b, Told(e, x))
<1> DEFINE fresh == Flow(d, b, x)
           f == Flow(d, b, "none")
           g == Flow(b, b, x)
<1>1. Events(fresh) = f /\ Exits(fresh) = g
  BY EventsFlow, ExitsFlow
<1>2. (g = <<>> <=> x = "none") /\ Len(g) = Ends(x) /\ (x # "none" => Last(g).status = x)
  BY ExitFlow
<1>3. Seen(d) \o [i \in 1..Len(f) |-> <<f[i].seq, f[i].event>>] = Seen(b)
  BY SeenOn
<1> HIDE DEF fresh, f, g
<1>4. view.events = Seen(d) /\ view.exit = e /\ view.exits = Ends(e)
  BY DEF Held
<1>5. (IF g = <<>> THEN e ELSE Last(g).status) = Told(e, x)
  BY <1>2 DEF Told
<1>6. Ends(e) + Len(g) = Ends(Told(e, x))
  BY <1>2 DEF Ends, Told
<1>7. Shown(fresh) = [events |-> Seen(d) \o [i \in 1..Len(f) |-> <<f[i].seq, f[i].event>>],
                      exit |-> IF g = <<>> THEN e ELSE Last(g).status, exits |-> Ends(e) + Len(g)]
  BY <1>1, <1>4 DEF Shown
<1>8. Shown(fresh) = Held(b, Told(e, x))
  BY <1>3, <1>5, <1>6, <1>7 DEF Held
<1> QED BY <1>8 DEF fresh

SentTo(sub, b, told) == [sub EXCEPT !.deliveredSeq = b, !.exitSent = told]

LEMMA SentFlow ==
  ASSUME NEW d \in Nat, NEW b \in Nat, d <= b, NEW x, NEW sub, sub.deliveredSeq = d, sub.exitSent \in BOOLEAN
  PROVE  Sent(sub, Flow(d, b, x)) = SentTo(sub, b, sub.exitSent \/ x # "none")
<1> DEFINE fresh == Flow(d, b, x)
           f == Flow(d, b, "none")
           g == Flow(b, b, x)
<1>1. Events(fresh) = f /\ Exits(fresh) = g
  BY EventsFlow, ExitsFlow
<1>2. g # <<>> <=> x # "none"
  BY ExitFlow
<1>3. (IF f = <<>> THEN sub.deliveredSeq ELSE Last(f).seq) = b
  BY FlowEnd
<1> HIDE DEF fresh, f, g
<1>4. Sent(sub, fresh) = [sub EXCEPT !.deliveredSeq = IF f = <<>> THEN sub.deliveredSeq ELSE Last(f).seq,
                                     !.exitSent = sub.exitSent \/ g # <<>>]
  BY <1>1 DEF Sent
<1>5. (sub.exitSent \/ g # <<>>) = (sub.exitSent \/ x # "none")
  BY <1>2
<1>6. Sent(sub, fresh) = SentTo(sub, b, sub.exitSent \/ x # "none")
  BY <1>3, <1>4, <1>5 DEF SentTo
<1> QED BY <1>6 DEF fresh

\* deliver, for the subscription of a client that has seen d events and been told e.
LEMMA DeliverFlow ==
  ASSUME NEW a \in Nat, NEW b \in Nat, NEW d \in Nat, a <= b, a <= d, NEW e, NEW x, NEW i, NEW sub,
         sub.live, sub.deliveredSeq = d, sub.exitSent \in BOOLEAN, sub.exitSent <=> e # "none",
         view = Held(d, e), Deliver(i, sub, Flow(a, b, x))
  PROVE  /\ view' = Held(Later(b, d), Told(e, x))
         /\ subs' = [subs EXCEPT ![i] = SentTo(sub, Later(b, d), Told(e, x) # "none")]
<1> DEFINE y == IF ~sub.exitSent THEN x ELSE "none"
           c == Later(b, d)
<1>1. subs' = [subs EXCEPT ![i] = Sent(sub, Fresh(sub, Flow(a, b, x)))] /\ view' = Shown(Fresh(sub, Flow(a, b, x)))
  BY DEF Deliver
<1>2. Fresh(sub, Flow(a, b, x)) = Flow(d, c, y)
  <2>1. Fresh(sub, Flow(a, b, x))
          = Flow(sub.deliveredSeq, Later(b, sub.deliveredSeq), IF ~sub.exitSent THEN x ELSE "none")
    BY FreshFlow
  <2> QED BY <2>1
<1>3. c \in Nat /\ d <= c
  BY DEF Later
<1>4. (e = "none" \/ y = "none") /\ Told(e, y) = Told(e, x)
  BY DEF Told
<1>5. (sub.exitSent \/ y # "none") = (Told(e, x) # "none")
  BY DEF Told
<1> HIDE DEF c, y
<1>6. Shown(Flow(d, c, y)) = Held(c, Told(e, y))
  BY <1>3, <1>4, ShownFlow
<1>7. Sent(sub, Flow(d, c, y)) = SentTo(sub, c, sub.exitSent \/ y # "none")
  BY <1>3, SentFlow
<1>8. Sent(sub, Flow(d, c, y)) = SentTo(sub, c, Told(e, x) # "none")
  BY <1>5, <1>7
<1>9. subs' = [subs EXCEPT ![i] = SentTo(sub, c, Told(e, x) # "none")]
  BY <1>1, <1>2, <1>8
<1>10. view' = Held(c, Told(e, x))
  BY <1>1, <1>2, <1>4, <1>6
<1> QED BY <1>9, <1>10 DEF c

-----------------------------------------------------------------------------
(* The invariant of the channel.                                             *)

\* The fields of a subscription.
IsSub(s) ==
  /\ DOMAIN s = {"replaying", "live", "deliveredSeq", "exitSent", "pending", "shares", "read", "out",
                 "skip", "base"}
  /\ s.replaying \in BOOLEAN /\ s.live \in BOOLEAN /\ s.exitSent \in BOOLEAN /\ s.shares \in BOOLEAN
  /\ s.read \in BOOLEAN /\ s.deliveredSeq \in Nat /\ s.skip \in Nat /\ s.base \in Nat

LogBound == Len(log) <= job.out

\* What a replay skips, and the index it may extend.
Indexed(s) == s.skip <= job.out /\ s.base = Count(s.skip) /\ (s.shares => s.skip <= Len(index))

IndexInv == index \in Seq(Nat) /\ Len(index) <= job.out /\ \A i \in 1..Len(index) : index[i] = Count(i)

ListInv ==
  \E N \in Nat :
    /\ subs = [i \in 1..N |-> subs[i]] /\ current \in 0..N
    /\ \A i \in 1..N : IsSub(subs[i]) /\ Indexed(subs[i]) /\ (subs[i].live <=> i = current)

\* Neither the pump nor the row is ahead of the n-th event.
Reached(n) == (pump.at # "off" => pump.task.seq <= n) /\ (~Absent => row.seq <= n)

\* What was published while a replay ran: the events after the p-th to the q-th, and the exit.
Buffered(s, p, q, x) ==
  /\ s.pending = Flow(p, q, x) /\ p <= q /\ q <= Count(job.out)
  /\ Reached(q) /\ (pump.at # "off" => pump.task.seq = q)
  /\ x # "none" => pump.at \in {"off", "releasing"} /\ (~Absent => row.status = x)

\* No event is missing between what the replay has read, or will read, and what follows.
Covered(s, n, p, q) ==
  IF s.read THEN \E e \in Nat : n <= e /\ p <= e /\ e <= Count(job.out) /\ s.out = Flow(n, e, "none")
  ELSE q <= Count(Len(log))

CatchesUp(s, n) ==
  /\ ~s.exitSent /\ s.base <= n
  /\ \E p \in Nat, q \in Nat, x \in Verdicts : Buffered(s, p, q, x) /\ Covered(s, n, p, q)

\* The client has seen the first n events and has been told e.
ClientHolds(n, e) ==
  /\ view = Held(n, e) /\ n <= Count(job.out)
  /\ e # "none" /\ ~Absent => row.status = e /\ row.seq <= n
  /\ current # 0 =>
       /\ subs[current].deliveredSeq = n
       /\ IF subs[current].replaying THEN e = "none" /\ CatchesUp(subs[current], n)
          ELSE (subs[current].exitSent <=> e # "none") /\ Reached(n)

ClientInv == \E n \in Nat, e \in Verdicts : ClientHolds(n, e)

\* Nobody subscribes to a task that has no row yet.
QuietInv == start # "answered" => current = 0 /\ view = NewView

\* The exit that is announced tells the verdict of the row.
AnnounceInv ==
  pump.at = "announcing" => pump.task.status \in Terminal /\ (~Absent => row.status = pump.task.status)

ViewInv == LogBound /\ IndexInv /\ ListInv /\ ClientInv /\ QuietInv /\ AnnounceInv

Core == IInv /\ LogInv /\ SeqInv

\* What both subscriptions hold for their client.
SameFor(s, t) ==
  /\ t.deliveredSeq = s.deliveredSeq /\ t.replaying = s.replaying /\ t.exitSent = s.exitSent /\ t.base = s.base
  /\ t.pending = s.pending /\ t.read = s.read /\ t.out = s.out

LEMMA CoreTypes ==
  ASSUME Core
  PROVE  /\ IsRow(row) /\ IsPump(pump) /\ IsJob(job) /\ IsRow(pump.task)
         /\ job.out \in Nat /\ job.out <= Len(Weight) /\ Count(job.out) \in Nat
         /\ Len(log) \in Nat /\ log = Lines(0, Len(log))
         /\ (pump.at # "off" => pump.task.seq = Count(pump.task.cursor) /\ pump.task.cursor <= Len(Weight))
         /\ row.seq = Count(row.cursor) /\ row.cursor <= Len(log) /\ row.cursor <= job.out
         /\ (pump.at # "off" /\ ~Absent => row.seq = pump.task.seq)
<1>1. IsRow(row) /\ IsPump(pump) /\ IsJob(job) /\ IsRow(pump.task) /\ job.out \in Nat /\ job.out <= Len(Weight)
  BY DEF Core, IInv, ControlType, IsPump, IsJob, SeqInv
<1>2. Count(job.out) \in Nat
  BY <1>1, CountType
<1>3. Len(log) \in Nat /\ log = Lines(0, Len(log)) /\ row.cursor <= job.out /\ row.cursor <= Len(log)
      /\ (pump.at # "off" => pump.task.cursor <= job.out)
  BY DEF Core, LogInv, LogCoversRow
<1>4. row.seq = Count(row.cursor) /\ (pump.at # "off" => pump.task.seq = Count(pump.task.cursor))
  BY DEF Core, SeqInv, Exact, Count
<1>5. pump.at # "off" => pump.task.cursor <= Len(Weight)
  <2>1. Len(Weight) \in Nat /\ pump.task.cursor \in Nat
    BY <1>1, TaskConstants, LenProperties DEF IsRow
  <2> QED BY <1>1, <1>3, <2>1
<1>6. pump.at # "off" /\ ~Absent => row.seq = pump.task.seq
  BY <1>4 DEF Core, IInv, CopyInv
<1> QED BY <1>1, <1>2, <1>3, <1>4, <1>5, <1>6

LEMMA ListFrame ==
  ASSUME ListInv, Len(index) \in Nat, Len(index') \in Nat, current' = current,
         job.out \in Nat, job'.out \in Nat, job.out <= job'.out,
         UNCHANGED <<subs, index>> \/ subs' = DropIndex(subs)
  PROVE  /\ ListInv'
         /\ current # 0 => SameFor(subs[current], subs'[current])
<1>1. PICK N \in Nat : /\ subs = [i \in 1..N |-> subs[i]] /\ current \in 0..N
                       /\ \A i \in 1..N : IsSub(subs[i]) /\ Indexed(subs[i]) /\ (subs[i].live <=> i = current)
  BY DEF ListInv
<1>2. CASE UNCHANGED <<subs, index>>
  <2>1. ASSUME NEW i \in 1..N PROVE Indexed(subs[i])'
    <3>1. Indexed(subs[i]) /\ subs[i].skip \in Nat
      BY <1>1 DEF IsSub
    <3>2. subs'[i] = subs[i] /\ index' = index
      BY <1>2
    <3>3. subs'[i].skip <= job'.out
      BY <3>1, <3>2 DEF Indexed
    <3>4. subs'[i].base = Count(subs'[i].skip) /\ (subs'[i].shares => subs'[i].skip <= Len(index'))
      BY <3>1, <3>2 DEF Indexed
    <3> QED BY <3>3, <3>4 DEF Indexed, Count, Parse, Lines
  <2>2. \A i \in 1..N : IsSub(subs'[i]) /\ Indexed(subs[i])' /\ (subs'[i].live <=> i = current')
    BY <1>1, <1>2, <2>1
  <2>3. subs' = [i \in 1..N |-> subs'[i]] /\ current' \in 0..N
    BY <1>1, <1>2
  <2>4. ListInv'
    BY <2>2, <2>3 DEF ListInv, IsSub
  <2>5. SameFor(subs[current], subs'[current])
    BY <1>2 DEF SameFor
  <2> QED BY <2>4, <2>5
<1>3. CASE subs' = DropIndex(subs)
  <2>1. subs' = [i \in 1..N |-> [subs[i] EXCEPT !.shares = FALSE]]
    <3>1. DOMAIN subs = 1..N
      BY <1>1
    <3> QED BY <1>3, <3>1 DEF DropIndex
  <2>2. ASSUME NEW i \in 1..N
        PROVE  IsSub(subs'[i]) /\ Indexed(subs[i])' /\ (subs'[i].live <=> i = current') /\ SameFor(subs[i], subs'[i])
    <3>1. subs'[i] = [subs[i] EXCEPT !.shares = FALSE] /\ IsSub(subs[i]) /\ Indexed(subs[i])
          /\ (subs[i].live <=> i = current)
      BY <1>1, <2>1
    <3>2. /\ DOMAIN subs'[i] = DOMAIN subs[i]
          /\ subs'[i].shares = FALSE
          /\ subs'[i].replaying = subs[i].replaying /\ subs'[i].live = subs[i].live
          /\ subs'[i].deliveredSeq = subs[i].deliveredSeq /\ subs'[i].exitSent = subs[i].exitSent
          /\ subs'[i].pending = subs[i].pending /\ subs'[i].read = subs[i].read
          /\ subs'[i].out = subs[i].out /\ subs'[i].skip = subs[i].skip /\ subs'[i].base = subs[i].base
      BY <3>1 DEF IsSub
    <3>3. IsSub(subs'[i])
      BY <3>1, <3>2 DEF IsSub
    <3>4. Indexed(subs[i])'
      <4>1. subs[i].skip \in Nat /\ subs[i].skip <= job.out /\ subs[i].base = Count(subs[i].skip)
        BY <3>1 DEF IsSub, Indexed
      <4>2. subs'[i].skip <= job'.out
        BY <3>2, <4>1
      <4>3. subs'[i].base = Count(subs'[i].skip)
        BY <3>2, <4>1
      <4> QED BY <3>2, <4>2, <4>3 DEF Indexed, Count, Parse, Lines
    <3> QED BY <3>1, <3>2, <3>3, <3>4 DEF SameFor
  <2>3. subs' = [i \in 1..N |-> subs'[i]] /\ current' \in 0..N
    BY <1>1, <2>1
  <2>4. ListInv'
    BY <2>2, <2>3 DEF ListInv, IsSub
  <2>5. current # 0 => SameFor(subs[current], subs'[current])
    BY <1>1, <2>2
  <2> QED BY <2>4, <2>5
<1> QED BY <1>2, <1>3

-----------------------------------------------------------------------------
(* Steps that publish nothing.                                               *)

\* Steps that publish nothing and go back on nothing.
Onward ==
  /\ job.out <= job'.out
  /\ pump'.at # "off" => pump.at # "off" /\ pump'.task.seq = pump.task.seq
  /\ pump.at \in {"off", "releasing"} => pump'.at \in {"off", "releasing"}
  /\ ~Absent' => ~Absent /\ row'.seq = row.seq /\ (row.status \in Terminal => row'.status = row.status)
  /\ \/ Len(log) <= Len(log')
     \/ pump.at # "off" /\ pump.task.seq <= Count(Len(log'))

LEMMA ReachedFrame ==
  ASSUME Onward, NEW n, Reached(n)
  PROVE  Reached(n)'
BY DEF Onward, Reached

LEMMA BufferedFrame ==
  ASSUME Core, Core', Onward, NEW s, NEW p \in Nat, NEW q \in Nat, NEW x \in Verdicts, Buffered(s, p, q, x)
  PROVE  Buffered(s, p, q, x)'
<1>1. s.pending = Flow(p, q, x) /\ p <= q /\ Reached(q)'
  BY ReachedFrame DEF Buffered
<1>2. q <= Count(job'.out)
  <2>1. q <= Count(job.out) /\ job.out \in Nat /\ job'.out \in Nat /\ job.out <= job'.out /\ job'.out <= Len(Weight)
    <3>1. job.out \in Nat
      BY CoreTypes
    <3>2. job'.out \in Nat /\ job'.out <= Len(Weight)
      BY DEF Core, IInv, ControlType, IsJob, SeqInv
    <3> QED BY <3>1, <3>2 DEF Buffered, Onward
  <2>2. Count(job.out) <= Count(job'.out) /\ Count(job.out) \in Nat /\ Count(job'.out) \in Nat
    BY <2>1, CountGrows
  <2> QED BY <2>1, <2>2
<1>3. pump'.at # "off" => pump'.task.seq = q
  BY DEF Onward, Buffered
<1>4. x # "none" => pump'.at \in {"off", "releasing"} /\ (~Absent' => row'.status = x)
  BY DEF Onward, Buffered, Verdicts
<1>5. Flow(p, q, x)' = Flow(p, q, x) /\ Count(job.out)' = Count(job'.out)
  BY DEF Flow, Count, EventFrame, ExitFrame, RunEvents, Parse, Lines, Ends
<1> QED BY <1>1, <1>2, <1>3, <1>4, <1>5 DEF Buffered

LEMMA JobGrows ==
  ASSUME Core, Core', job.out <= job'.out
  PROVE  /\ job.out \in Nat /\ job'.out \in Nat /\ job'.out <= Len(Weight)
         /\ Count(job.out) <= Count(job'.out) /\ Count(job.out) \in Nat /\ Count(job'.out) \in Nat
<1>1. job.out \in Nat /\ job'.out \in Nat /\ job'.out <= Len(Weight)
  BY DEF Core, IInv, ControlType, IsJob, SeqInv
<1> QED BY <1>1, CountGrows

LEMMA CoveredFrame ==
  ASSUME Core, Core', Onward, LogBound', NEW s, NEW n \in Nat, NEW p \in Nat, NEW q \in Nat, NEW x,
         Covered(s, n, p, q), Buffered(s, p, q, x)
  PROVE  Covered(s, n, p, q)'
<1>1. CASE s.read
  <2>1. PICK e \in Nat : n <= e /\ p <= e /\ e <= Count(job.out) /\ s.out = Flow(n, e, "none")
    BY <1>1 DEF Covered
  <2>2. e <= Count(job'.out)
    <3>1. job.out <= job'.out
      BY DEF Onward
    <3> QED BY <2>1, <3>1, JobGrows
  <2>3. Flow(n, e, "none")' = Flow(n, e, "none") /\ Count(job.out)' = Count(job'.out)
    BY DEF Flow, Count, EventFrame, ExitFrame, RunEvents, Parse, Lines, Ends
  <2> QED BY <1>1, <2>1, <2>2, <2>3 DEF Covered
<1>2. CASE ~s.read
  <2>1. q <= Count(Len(log))
    BY <1>2 DEF Covered
  <2>2. q <= Count(Len(log'))
    <3>1. CASE Len(log) <= Len(log')
      <4>1. Len(log) \in Nat /\ Len(log') \in Nat /\ Len(log') <= Len(Weight)
        <5>1. Len(log) \in Nat /\ Len(log') \in Nat /\ Len(log') <= job'.out
          BY DEF Core, LogInv, LogBound
        <5>2. job'.out \in Nat /\ job'.out <= Len(Weight) /\ Len(Weight) \in Nat
          BY TaskConstants, LenProperties DEF Core, IInv, ControlType, IsJob, SeqInv
        <5> QED BY <5>1, <5>2
      <4>2. Count(Len(log)) <= Count(Len(log')) /\ Count(Len(log)) \in Nat /\ Count(Len(log')) \in Nat
        BY <3>1, <4>1, CountGrows
      <4> QED BY <2>1, <4>2
    <3>2. CASE pump.at # "off" /\ pump.task.seq <= Count(Len(log'))
      BY <3>2 DEF Buffered
    <3> QED BY <3>1, <3>2 DEF Onward
  <2>3. Count(Len(log))' = Count(Len(log'))
    BY DEF Count, Parse, Lines
  <2> QED BY <1>2, <2>2, <2>3 DEF Covered
<1> QED BY <1>1, <1>2

LEMMA CatchesUpFrame ==
  ASSUME Core, Core', Onward, LogBound', NEW s, NEW n \in Nat, CatchesUp(s, n)
  PROVE  CatchesUp(s, n)'
<1>1. PICK p \in Nat, q \in Nat, x \in Verdicts : Buffered(s, p, q, x) /\ Covered(s, n, p, q)
  BY DEF CatchesUp
<1>2. Buffered(s, p, q, x)' /\ Covered(s, n, p, q)'
  BY <1>1, BufferedFrame, CoveredFrame
<1>3. ~s.exitSent /\ s.base <= n
  BY DEF CatchesUp
<1> QED BY <1>2, <1>3 DEF CatchesUp, Verdicts

LEMMA ClientFrame ==
  ASSUME Core, Core', Onward, LogBound', UNCHANGED <<current, view>>, NEW n \in Nat, NEW e \in Verdicts,
         current # 0 => SameFor(subs[current], subs'[current]), ClientHolds(n, e)
  PROVE  ClientHolds(n, e)'
<1>1. view' = Held(n, e) /\ Held(n, e)' = Held(n, e)
  BY DEF ClientHolds, Held, Seen, RunEvents, Ends, Parse, Lines
<1>2. n <= Count(job'.out) /\ Count(job.out)' = Count(job'.out)
  <2>1. n <= Count(job.out) /\ job.out <= job'.out
    BY DEF ClientHolds, Onward
  <2>2. n <= Count(job'.out)
    BY <2>1, JobGrows
  <2> QED BY <2>2 DEF Count, Parse, Lines
<1>3. e # "none" /\ ~Absent' => row'.status = e /\ row'.seq <= n
  BY DEF ClientHolds, Onward, Verdicts
<1>4. ASSUME current # 0
      PROVE  /\ subs'[current].deliveredSeq = n
             /\ IF subs'[current].replaying THEN e = "none" /\ CatchesUp(subs[current], n)'
                ELSE (subs'[current].exitSent <=> e # "none") /\ Reached(n)'
  <2> DEFINE s == subs[current]
             t == subs'[current]
  <2>1. SameFor(s, t) /\ s.deliveredSeq = n
        /\ IF s.replaying THEN e = "none" /\ CatchesUp(s, n) ELSE (s.exitSent <=> e # "none") /\ Reached(n)
    BY <1>4 DEF ClientHolds
  <2>2. t.deliveredSeq = n /\ t.replaying = s.replaying /\ t.exitSent = s.exitSent
    BY <2>1 DEF SameFor
  <2>3. CASE s.replaying
    <3>1. PICK u : u = s
      OBVIOUS
    <3>2. CatchesUp(u, n)' /\ SameFor(u, t)
      <4>1. CatchesUp(u, n)
        BY <2>1, <2>3, <3>1
      <4> QED BY <2>1, <3>1, <4>1, CatchesUpFrame
    <3>3. CatchesUp(subs[current], n)'
      <4>1. t = (subs[current])'
        OBVIOUS
      <4> HIDE DEF s, t
      <4> QED BY <3>2, <4>1 DEF SameFor, CatchesUp, Buffered, Covered
    <3> QED BY <2>1, <2>2, <2>3, <3>3
  <2>4. CASE ~s.replaying
    <3>1. Reached(n)'
      BY <2>1, <2>4, ReachedFrame
    <3> QED BY <2>1, <2>2, <2>4, <3>1
  <2> QED BY <2>3, <2>4
<1> QED BY <1>1, <1>2, <1>3, <1>4 DEF ClientHolds

LEMMA ViewFrame ==
  ASSUME Core, Core', ViewInv, Onward, LogBound', AnnounceInv', UNCHANGED <<current, view>>,
         UNCHANGED <<subs, index>> \/ (subs' = DropIndex(subs) /\ index' = <<>>),
         start = "answered" => start' = "answered"
  PROVE  ViewInv'
<1>1. job.out \in Nat /\ job'.out \in Nat /\ job.out <= job'.out
  BY JobGrows DEF Onward
<1>2. index \in Seq(Nat) /\ Len(index) \in Nat /\ Len(index) <= job.out
      /\ \A i \in 1..Len(index) : index[i] = Count(i)
  BY LenProperties DEF ViewInv, IndexInv
<1>3. index' \in Seq(Nat) /\ Len(index') \in Nat /\ Len(index') <= job'.out
      /\ \A i \in 1..Len(index') : index'[i] = Count(i)
  <2>1. CASE index' = index
    BY <1>1, <1>2, <2>1
  <2>2. CASE index' = <<>>
    BY <1>1, <2>2
  <2> QED BY <2>1, <2>2
<1>4. IndexInv'
  BY <1>3 DEF IndexInv, Count, Parse, Lines
<1>5. ListInv' /\ (current # 0 => SameFor(subs[current], subs'[current]))
  <2>1. ListInv
    BY DEF ViewInv
  <2> QED BY <1>1, <1>2, <1>3, <2>1, ListFrame
<1>6. ClientInv'
  <2>1. PICK n \in Nat, e \in Verdicts : ClientHolds(n, e)
    BY DEF ViewInv, ClientInv
  <2>2. ClientHolds(n, e)'
    BY <1>5, <2>1, ClientFrame
  <2> QED BY <2>2 DEF ClientInv, Verdicts
<1>7. QuietInv'
  BY DEF ViewInv, QuietInv, NewView
<1> QED BY <1>4, <1>5, <1>6, <1>7 DEF ViewInv

\* Steps of the request, the job, the clock and the sandbox, and reads of the pump.
LEMMA QuietSteps ==
  ASSUME Core, Core', ViewInv,
         \/ RunTask \/ JobAccepted \/ StartThrows \/ ClearKill \/ ClearRelease \/ Cancel \/ CancelKill
         \/ JobStep \/ DeadlinePasses \/ DeleteSandbox \/ ReadAnswers \/ ReadRetries \/ KillOverdue
         \/ UNCHANGED vars
  PROVE  ViewInv'
<1>0. IsRow(row) /\ IsPump(pump) /\ IsJob(job) /\ IsRow(pump.task) /\ job.out \in Nat /\ Len(log) \in Nat
  BY CoreTypes
<1>1. UNCHANGED <<log, current, view, subs, index>>
  <2>1. CASE RunTask \/ JobAccepted \/ StartThrows \/ ClearKill \/ ClearRelease
    BY <2>1 DEF RunTask, JobAccepted, StartThrows, ClearKill, ClearRelease
  <2>2. CASE Cancel \/ CancelKill \/ ReadAnswers \/ ReadRetries \/ KillOverdue
    BY <2>2 DEF Cancel, CancelKill, ReadAnswers, ReadRetries, KillOverdue
  <2>3. CASE JobStep \/ DeadlinePasses \/ DeleteSandbox \/ UNCHANGED vars
    BY <2>3 DEF JobStep, JobPrints, JobExits, JobDies, JobLost, DeadlinePasses, DeleteSandbox, vars
  <2> QED BY <2>1, <2>2, <2>3
<1>2. job'.out = job.out \/ job'.out = job.out + 1
  BY <1>0
  DEF RunTask, JobAccepted, StartThrows, ClearKill, ClearRelease, Cancel, CancelKill, JobStep, JobPrints,
      JobExits, JobDies, JobLost, DeadlinePasses, DeleteSandbox, ReadAnswers, ReadRetries, KillOverdue, vars,
      Signalled, Released, IsJob
<1>3. \/ pump' = pump
      \/ pump.at = "reading" /\ pump'.at \in {"appending", "reading"} /\ pump'.task = pump.task
      \/ pump.at = "killing" /\ pump'.at = "reading" /\ pump'.task = pump.task
  BY <1>0
  DEF RunTask, JobAccepted, StartThrows, ClearKill, ClearRelease, Cancel, CancelKill, JobStep, JobPrints,
      JobExits, JobDies, JobLost, DeadlinePasses, DeleteSandbox, ReadAnswers, ReadRetries, KillOverdue, vars,
      IsPump
<1>4. \/ row' = row \/ Absent' \/ row' = [row EXCEPT !.cancel = TRUE]
  BY NoRowType
  DEF RunTask, JobAccepted, StartThrows, ClearKill, ClearRelease, Cancel, CancelKill, JobStep, JobPrints,
      JobExits, JobDies, JobLost, DeadlinePasses, DeleteSandbox, ReadAnswers, ReadRetries, KillOverdue, vars,
      Absent
<1>5. start = "answered" => start' = "answered"
  <2>1. CASE RunTask \/ JobAccepted \/ StartThrows \/ ClearKill \/ ClearRelease
    BY <2>1 DEF RunTask, JobAccepted, StartThrows, ClearKill, ClearRelease
  <2>2. CASE Cancel \/ CancelKill \/ ReadAnswers \/ ReadRetries \/ KillOverdue
    BY <2>2 DEF Cancel, CancelKill, ReadAnswers, ReadRetries, KillOverdue
  <2>3. CASE JobStep \/ DeadlinePasses \/ DeleteSandbox \/ UNCHANGED vars
    BY <2>3 DEF JobStep, JobPrints, JobExits, JobDies, JobLost, DeadlinePasses, DeleteSandbox, vars
  <2> QED BY <2>1, <2>2, <2>3
<1>6. ~Absent' => ~Absent /\ row'.seq = row.seq /\ row'.status = row.status
  BY <1>0, <1>4 DEF Absent, IsRow
<1>7. Onward
  BY <1>0, <1>1, <1>2, <1>3, <1>6 DEF Onward
<1>8. LogBound'
  <2>1. Len(log) <= job.out
    BY DEF ViewInv, LogBound
  <2> QED BY <1>0, <1>1, <1>2, <2>1 DEF LogBound
<1>9. AnnounceInv'
  <2>1. AnnounceInv
    BY DEF ViewInv
  <2> QED BY <1>3, <1>6, <2>1 DEF AnnounceInv, Absent
<1> QED BY <1>1, <1>5, <1>7, <1>8, <1>9, ViewFrame

LEMMA TruncateView ==
  ASSUME Core, Core', ViewInv, TruncateLog
  PROVE  ViewInv'
<1>0. IsRow(row) /\ IsPump(pump) /\ IsRow(pump.task) /\ job.out \in Nat /\ Len(log) \in Nat
      /\ log = Lines(0, Len(log))
      /\ (pump.at # "off" => pump.task.seq = Count(pump.task.cursor))
  BY CoreTypes
<1>1. /\ pump.at = "truncating" /\ UNCHANGED <<row, job, start, current, view>>
      /\ pump' = [pump EXCEPT !.at = "reading"] /\ subs' = DropIndex(subs) /\ index' = <<>>
  BY DEF TruncateLog
<1>2. pump'.at = "reading" /\ pump'.task = pump.task
  BY <1>0, <1>1 DEF IsPump
<1> DEFINE c == pump.task.cursor
<1>3. c \in Nat /\ c = pump.task.bytes /\ c <= Len(log) /\ c <= job.out
  BY <1>0, <1>1 DEF Core, LogInv, IsRow
<1>4. Len(log') = c
  <2>1. CASE Len(log) <= c
    BY <1>0, <1>3, <2>1 DEF TruncateLog
  <2>2. CASE ~(Len(log) <= c)
    BY <1>0, <1>3, <2>2, LinesCut, LinesType DEF TruncateLog
  <2> QED BY <2>1, <2>2
<1>5. Count(c) \in Nat
  BY <1>3, CoreTypes, CountType, TaskConstants, LenProperties
<1>6. Onward
  <2>1. pump.task.seq <= Count(Len(log'))
    BY <1>0, <1>1, <1>4, <1>5
  <2> QED BY <1>0, <1>1, <1>2, <2>1 DEF Onward, Absent
<1>7. LogBound' /\ AnnounceInv'
  BY <1>1, <1>2, <1>3, <1>4 DEF LogBound, AnnounceInv
<1> QED BY <1>1, <1>6, <1>7, ViewFrame

LEMMA AppendView ==
  ASSUME Core, Core', ViewInv, AppendStdout
  PROVE  ViewInv'
<1>0. IsPump(pump) /\ IsRow(pump.task) /\ IsRow(row) /\ job.out \in Nat /\ Len(log) \in Nat
      /\ log = Lines(0, Len(log))
  BY CoreTypes
<1>1. /\ pump.at = "appending" /\ UNCHANGED <<row, job, start, current, view, subs, index>>
      /\ pump' = [pump EXCEPT !.at = "delivering"] /\ log' = log \o Lines(pump.task.cursor, pump.upto)
  BY DEF AppendStdout
<1>2. pump'.at = "delivering" /\ pump'.task = pump.task /\ pump.task.cursor \in Nat /\ pump.upto \in Nat
  BY <1>0, <1>1 DEF IsPump, IsRow
<1>3. Len(log) = pump.task.cursor /\ pump.task.cursor <= pump.upto /\ pump.upto <= job.out
  BY <1>1 DEF Core, LogInv
<1>4. Len(log') = pump.upto
  BY <1>0, <1>1, <1>2, <1>3, LinesAppended, LinesType
<1>5. Onward
  BY <1>0, <1>1, <1>2, <1>3, <1>4 DEF Onward, Absent
<1>6. LogBound' /\ AnnounceInv'
  BY <1>1, <1>2, <1>3, <1>4 DEF LogBound, AnnounceInv
<1> QED BY <1>1, <1>5, <1>6, ViewFrame

LEMMA FinishView ==
  ASSUME Core, Core', ViewInv, Finish
  PROVE  ViewInv'
<1> DEFINE t == Finished(pump.task, Verdict, "exit")
<1>0. IsPump(pump) /\ IsRow(pump.task) /\ IsRow(row) /\ job.out \in Nat /\ Len(log) \in Nat
      /\ (pump.at # "off" /\ ~Absent => row.seq = pump.task.seq)
  BY CoreTypes
<1>1. /\ pump.at = "collecting" /\ UNCHANGED <<deleted, job, log, start, current, view, subs, index>>
      /\ \/ deleted /\ pump' = [pump EXCEPT !.at = "releasing", !.task = t] /\ row' = row
         \/ ~deleted /\ pump' = [pump EXCEPT !.at = "announcing", !.task = t] /\ row' = Saved(t)
  BY DEF Finish
<1>2. Verdict \in Terminal
  BY DEF Verdict, VerdictFromExitCode
<1>3. IsRow(t) /\ t.seq = pump.task.seq /\ t.status \in Terminal
  BY <1>0, <1>2 DEF Finished, IsRow
<1> HIDE DEF t
<1>4. pump'.task = t /\ pump'.at \in {"releasing", "announcing"}
  BY <1>0, <1>1 DEF IsPump
<1>5. deleted => Absent
  BY DEF Core, IInv, StartInv
<1>6. ~Absent => row.status = "running"
  BY <1>1 DEF Core, IInv, CopyInv
<1>7. ~deleted => ~Absent
  BY <1>1 DEF Core, IInv, StartInv
<1>8. ~deleted => row'.status = t.status /\ row'.seq = t.seq
  BY <1>0, <1>1, <1>3 DEF Saved, IsRow
<1>9. Onward
  <2>1. ~Absent' => ~Absent /\ row'.seq = row.seq /\ row.status = "running"
    BY <1>0, <1>1, <1>3, <1>5, <1>6, <1>7, <1>8 DEF Absent
  <2> QED BY <1>0, <1>1, <1>3, <1>4, <2>1 DEF Onward
<1>10. AnnounceInv'
  BY <1>1, <1>3, <1>4, <1>5, <1>8 DEF AnnounceInv, Absent
<1>11. LogBound'
  BY <1>1 DEF ViewInv, LogBound
<1> QED BY <1>1, <1>9, <1>10, <1>11, ViewFrame

LEMMA ReleaseView ==
  ASSUME Core, Core', ViewInv, ReleaseAndForget
  PROVE  ViewInv'
<1>0. IsRow(row) /\ IsJob(job) /\ job.out \in Nat /\ Len(log) \in Nat
  BY CoreTypes
<1>1. /\ UNCHANGED <<row, log, start, current, view>> /\ pump'.at = "off"
      /\ subs' = DropIndex(subs) /\ index' = <<>> /\ job'.out = job.out
  BY <1>0, IdleType DEF ReleaseAndForget, IsJob, Released
<1>2. Onward
  BY <1>0, <1>1 DEF Onward, Absent
<1>3. LogBound' /\ AnnounceInv'
  BY <1>1 DEF ViewInv, LogBound, AnnounceInv
<1> QED BY <1>1, <1>2, <1>3, ViewFrame

\* The insert, or the verdict of a failed read, finds the sandbox deleted.
LEMMA DeletedView ==
  ASSUME Core, Core', ViewInv, deleted, PersistStart \/ FailWith
  PROVE  ViewInv'
<1>0. IsRow(row) /\ IsPump(pump) /\ job.out \in Nat /\ Len(log) \in Nat
  BY CoreTypes
<1>1. /\ UNCHANGED <<row, job, log, current, view, subs, index>>
      /\ pump' = pump \/ pump'.at = "off"
      /\ start = "answered" => start' = "answered"
  BY IdleType DEF PersistStart, FailWith
<1>2. Onward
  BY <1>0, <1>1 DEF Onward, Absent
<1>3. LogBound' /\ AnnounceInv'
  BY <1>1 DEF ViewInv, LogBound, AnnounceInv, Absent
<1> QED BY <1>1, <1>2, <1>3, ViewFrame

LEMMA NewHeld == NewView = Held(0, "none")
<1>1. Seen(0) = <<>>
  BY DEF Seen
<1> QED BY <1>1 DEF NewView, Held, Ends

\* A client that follows nothing holds what it has been sent before.
LEMMA StartView ==
  ASSUME Core, Core', ViewInv, PersistStart, ~deleted
  PROVE  ViewInv'
<1>0. job.out \in Nat /\ Len(log) \in Nat
  BY CoreTypes
<1>1. /\ start = "starting" /\ start' = "answered" /\ pump' = PumpFrom(NewTask)
      /\ UNCHANGED <<job, log, current, view, subs, index>>
  BY DEF PersistStart
<1>2. current = 0 /\ view = NewView
  BY <1>1 DEF ViewInv, QuietInv
<1>3. pump'.at = "truncating"
  BY <1>1, NewTaskType, PumpFromType
<1>4. LogBound' /\ IndexInv' /\ QuietInv' /\ AnnounceInv'
  <2>1. index' \in Seq(Nat) /\ Len(index') <= job'.out /\ \A i \in 1..Len(index') : index'[i] = Count(i)
    BY <1>1 DEF ViewInv, IndexInv
  <2>2. IndexInv'
    BY <2>1 DEF IndexInv, Count, Parse, Lines
  <2> QED BY <1>1, <1>3, <2>2 DEF ViewInv, LogBound, QuietInv, AnnounceInv
<1>5. ListInv'
  <2>1. ListInv /\ Len(index) \in Nat /\ Len(index') \in Nat
    BY <1>1, LenProperties DEF ViewInv, IndexInv
  <2> QED BY <1>0, <1>1, <2>1, ListFrame
<1>6. ClientInv'
  <2>1. view' = Held(0, "none") /\ Held(0, "none")' = Held(0, "none")
    BY <1>1, <1>2, NewHeld DEF Held, Seen, RunEvents, Ends, Parse, Lines
  <2>2. 0 <= Count(job'.out)
    BY <1>1, CoreTypes
  <2>3. Count(job.out)' = Count(job'.out)
    BY DEF Count, Parse, Lines
  <2>4. ClientHolds(0, "none")'
    BY <1>1, <1>2, <2>1, <2>2, <2>3 DEF ClientHolds
  <2>5. 0 \in Nat /\ "none" \in Verdicts
    BY DEF Verdicts
  <2> QED BY <2>4, <2>5 DEF ClientInv, Verdicts
<1> QED BY <1>4, <1>5, <1>6 DEF ViewInv

-----------------------------------------------------------------------------
(* What the pump publishes.                                                  *)

\* One subscription is replaced, and the index has grown at most.
LEMMA ListUpdate ==
  ASSUME ListInv, current' = current, job' = job, job.out \in Nat, Len(index) \in Nat, Len(index') \in Nat,
         Len(index) <= Len(index'), NEW i \in DOMAIN subs, NEW t, IsSub(t), t.live <=> i = current,
         t.skip <= job.out, t.base = Count(t.skip), t.shares => t.skip <= Len(index),
         subs' = [subs EXCEPT ![i] = t]
  PROVE  ListInv' /\ subs'[i] = t /\ \A j \in DOMAIN subs : j # i => subs'[j] = subs[j]
<1>1. PICK N \in Nat : /\ subs = [j \in 1..N |-> subs[j]] /\ current \in 0..N
                       /\ \A j \in 1..N : IsSub(subs[j]) /\ Indexed(subs[j]) /\ (subs[j].live <=> j = current)
  BY DEF ListInv
<1>2. DOMAIN subs = 1..N
  BY <1>1
<1>3. subs' = [j \in 1..N |-> IF j = i THEN t ELSE subs[j]]
  BY <1>1, <1>2
<1>4. subs'[i] = t /\ \A j \in 1..N : j # i => subs'[j] = subs[j]
  BY <1>2, <1>3
<1>5. ASSUME NEW j \in 1..N
      PROVE  IsSub(subs'[j]) /\ (subs'[j].live <=> j = current') /\ Indexed(subs[j])'
  <2>1. CASE j = i
    <3>1. Indexed(subs[j])'
      <4>1. t.skip <= job'.out /\ t.skip \in Nat
        BY DEF IsSub
      <4>2. t.shares => t.skip <= Len(index')
        BY <4>1
      <4>3. subs'[j] = t
        BY <1>4, <2>1
      <4>4. subs'[j].skip <= job'.out /\ subs'[j].base = Count(subs'[j].skip)
        BY <4>1, <4>3
      <4>5. subs'[j].shares => subs'[j].skip <= Len(index')
        BY <4>2, <4>3
      <4> QED BY <4>4, <4>5 DEF Indexed, Count, Parse, Lines
    <3> QED BY <1>4, <2>1, <3>1
  <2>2. CASE j # i
    <3>1. Indexed(subs[j]) /\ IsSub(subs[j]) /\ (subs[j].live <=> j = current) /\ subs'[j] = subs[j]
      BY <1>1, <1>4, <2>2
    <3>2. Indexed(subs[j])'
      <4>1. subs'[j].skip <= job'.out /\ subs'[j].base = Count(subs'[j].skip)
        BY <3>1 DEF Indexed
      <4>2. subs'[j].shares => subs'[j].skip <= Len(index')
        BY <3>1 DEF Indexed, IsSub
      <4> QED BY <4>1, <4>2 DEF Indexed, Count, Parse, Lines
    <3> QED BY <3>1, <3>2
  <2> QED BY <2>1, <2>2
<1>6. subs' = [j \in 1..N |-> subs'[j]] /\ current' \in 0..N
  BY <1>1, <1>3
<1>7. ListInv'
  BY <1>5, <1>6 DEF ListInv, IsSub
<1> QED BY <1>2, <1>4, <1>7

\* What the pump and the row hold after the events to the u-th, and the exit x, are published.
Published(u, x) ==
  /\ pump'.at # "off" => pump'.task.seq = u
  /\ ~Absent' =>
       ~Absent /\ row'.seq <= u /\ (row.status \in Terminal => row'.status = row.status /\ row'.seq = row.seq)
  /\ x # "none" => pump'.at \in {"off", "releasing"} /\ (~Absent' => row'.status = x)

LEMMA PublishedReached ==
  ASSUME Core', NEW u \in Nat, NEW x, Published(u, x), NEW m \in Nat, u <= m
  PROVE  Reached(m)'
<1>1. ~Absent' => row'.seq \in Nat
  <2>1. row'.seq = Count(row'.cursor) /\ row'.cursor \in Nat /\ row'.cursor <= Len(Weight)
    BY TaskConstants, LenProperties
       DEF Core, SeqInv, Exact, Count, IInv, ControlType, IsRow, LogInv, LogCoversRow, IsJob
  <2> QED BY <2>1, CountType
<1> QED BY <1>1 DEF Published, Reached

\* The counts of the log and of the output, before and after a step that leaves both alone.
LEMMA LogCounts ==
  ASSUME Core, LogBound
  PROVE  /\ Len(log) \in Nat /\ Len(log) <= Len(Weight) /\ Len(log) <= job.out /\ job.out \in Nat
         /\ Count(Len(log)) \in Nat /\ Count(Len(log)) <= Count(job.out) /\ Count(job.out) \in Nat
<1>1. Len(log) \in Nat /\ Len(log) <= job.out /\ job.out \in Nat /\ job.out <= Len(Weight)
  BY CoreTypes DEF LogBound
<1>2. Len(log) <= Len(Weight)
  <2>1. Len(Weight) \in Nat
    BY TaskConstants, LenProperties
  <2> QED BY <1>1, <2>1
<1> QED BY <1>1, <1>2, CountGrows

\* The subscription that follows the pump is sent what is published.
LEMMA FollowerHolds ==
  ASSUME Core, Core', ViewInv, LogBound', NEW P \in Nat, NEW u \in Nat, NEW x \in Verdicts, pump.at # "off",
         P = pump.task.seq, P <= u, u <= Count(job.out), Published(u, x), current # 0,
         ~subs[current].replaying, Deliver(current, subs[current], Flow(P, u, x)),
         UNCHANGED <<job, log, index, current>>
  PROVE  ClientInv' /\ ListInv'
<1>1. PICK n \in Nat, e \in Verdicts : ClientHolds(n, e)
  BY DEF ViewInv, ClientInv
<1>2. PICK s : s = subs[current]
  OBVIOUS
<1>3. current \in DOMAIN subs /\ IsSub(s) /\ Indexed(s) /\ s.live
  <2>1. PICK N \in Nat : /\ subs = [i \in 1..N |-> subs[i]] /\ current \in 0..N
                         /\ \A i \in 1..N : IsSub(subs[i]) /\ Indexed(subs[i]) /\ (subs[i].live <=> i = current)
    BY DEF ViewInv, ListInv
  <2>2. current \in 1..N
    BY <2>1
  <2> QED BY <1>2, <2>1, <2>2
<1>4. s.deliveredSeq = n /\ (s.exitSent <=> e # "none") /\ Reached(n) /\ view = Held(n, e) /\ n <= Count(job.out)
      /\ (e # "none" /\ ~Absent => row.status = e /\ row.seq <= n)
  BY <1>1, <1>2 DEF ClientHolds
<1>5. P <= n /\ s.exitSent \in BOOLEAN /\ Deliver(current, s, Flow(P, u, x))
  BY <1>2, <1>3, <1>4 DEF Reached, IsSub
<1> DEFINE m == Later(u, n)
           y == Told(e, x)
<1>6. /\ view' = Held(m, y)
      /\ subs' = [subs EXCEPT ![current] = SentTo(s, m, y # "none")]
  BY <1>3, <1>4, <1>5, DeliverFlow
<1>7. m \in Nat /\ u <= m /\ n <= m /\ m <= Count(job.out) /\ y \in Verdicts /\ (y # "none" => y \in Terminal)
  <2>1. m \in Nat /\ u <= m /\ n <= m
    BY DEF Later
  <2>2. m <= Count(job.out)
    BY <1>4 DEF Later
  <2>3. y \in Verdicts /\ (y # "none" => y \in Terminal)
    BY DEF Told, Verdicts
  <2> QED BY <2>1, <2>2, <2>3
<1>8. Reached(m)'
  BY <1>7, PublishedReached
<1>9. y # "none" /\ ~Absent' => row'.status = y /\ row'.seq <= m
  <2>1. ~Absent' => row'.seq <= m
    BY <1>8 DEF Reached
  <2>2. CASE e # "none"
    <3>1. y = e
      BY <2>2 DEF Told
    <3>2. ~Absent' => row.status = e /\ row.status \in Terminal
      BY <1>4, <2>2 DEF Published, Verdicts
    <3>3. ~Absent' => row'.status = e
      BY <3>2 DEF Published
    <3> QED BY <2>1, <3>1, <3>3
  <2>3. CASE e = "none"
    BY <2>1, <2>3 DEF Told, Published
  <2> QED BY <2>2, <2>3
<1> HIDE DEF m, y
<1>10. PICK t : t = SentTo(s, m, y # "none")
  OBVIOUS
<1>11. /\ IsSub(t) /\ t.live /\ t.skip = s.skip /\ t.base = s.base /\ t.shares = s.shares
       /\ t.deliveredSeq = m /\ (t.exitSent <=> y # "none") /\ t.replaying = s.replaying
  BY <1>3, <1>7, <1>10 DEF SentTo, IsSub
<1>12. ListInv' /\ subs'[current] = t
  <2>1. ListInv /\ Len(index) \in Nat /\ job.out \in Nat
    BY CoreTypes, LenProperties DEF ViewInv, IndexInv
  <2>2. t.skip <= job.out /\ t.base = Count(t.skip) /\ (t.shares => t.skip <= Len(index))
    BY <1>3, <1>11 DEF Indexed
  <2>3. PICK c \in DOMAIN subs : c = current
    BY <1>3
  <2>4. subs' = [subs EXCEPT ![c] = t] /\ (t.live <=> c = current) /\ IsSub(t)
    BY <1>6, <1>10, <1>11, <2>3
  <2>5. Len(index') \in Nat /\ Len(index) <= Len(index') /\ current' = current /\ job' = job
    BY <2>1
  <2>6. ListInv' /\ subs'[c] = t
    BY <2>1, <2>2, <2>4, <2>5, ListUpdate
  <2> QED BY <2>3, <2>6
<1>13. ClientHolds(m, y)'
  <2>1. view' = Held(m, y) /\ Held(m, y)' = Held(m, y)
    BY <1>6 DEF Held, Seen, RunEvents, Ends, Parse, Lines
  <2>2. m <= Count(job'.out) /\ Count(job.out)' = Count(job'.out)
    <3>1. m <= Count(job'.out)
      BY <1>7
    <3> QED BY <3>1 DEF Count, Parse, Lines
  <2>3. current' = current /\ subs'[current'] = t /\ ~t.replaying
    BY <1>2, <1>11, <1>12
  <2> QED BY <1>8, <1>9, <1>11, <2>1, <2>2, <2>3 DEF ClientHolds
<1> QED BY <1>7, <1>12, <1>13 DEF ClientInv, Verdicts

\* A subscription that still replays keeps for later what is published.
LEMMA ReplayerHolds ==
  ASSUME Core, Core', ViewInv, LogBound', NEW P \in Nat, NEW u \in Nat, NEW x \in Verdicts,
         pump.at \notin {"off", "releasing"},
         P = pump.task.seq, P <= u, u <= Count(Len(log)), Published(u, x), current # 0,
         subs[current].replaying, view' = view,
         subs' = [subs EXCEPT ![current].pending = @ \o Flow(P, u, x)],
         UNCHANGED <<job, log, index, current>>
  PROVE  ClientInv' /\ ListInv'
<1>1. PICK n \in Nat, e \in Verdicts : ClientHolds(n, e)
  BY DEF ViewInv, ClientInv
<1>2. PICK s : s = subs[current]
  OBVIOUS
<1>3. current \in DOMAIN subs /\ IsSub(s) /\ Indexed(s) /\ s.live
  <2>1. PICK N \in Nat : /\ subs = [i \in 1..N |-> subs[i]] /\ current \in 0..N
                         /\ \A i \in 1..N : IsSub(subs[i]) /\ Indexed(subs[i]) /\ (subs[i].live <=> i = current)
    BY DEF ViewInv, ListInv
  <2>2. current \in 1..N
    BY <2>1
  <2> QED BY <1>2, <2>1, <2>2
<1>4. /\ s.deliveredSeq = n /\ e = "none" /\ CatchesUp(s, n) /\ view = Held(n, e) /\ n <= Count(job.out)
      /\ s.replaying
  BY <1>1, <1>2 DEF ClientHolds
<1>5. PICK p \in Nat, q \in Nat, z \in Verdicts : Buffered(s, p, q, z) /\ Covered(s, n, p, q)
  BY <1>4 DEF CatchesUp
<1>6. s.pending = Flow(p, P, "none") /\ p <= P /\ z = "none" /\ q = P
  BY <1>5 DEF Buffered
<1>7. s.pending \o Flow(P, u, x) = Flow(p, u, x)
  <2>1. Joined(Flow(p, P, "none"), Flow(P, u, x)) = Flow(p, u, x)
    <3>1. p <= P
      BY <1>6
    <3> QED BY <3>1, FlowJoin
  <2> QED BY <1>6, <2>1 DEF Joined
<1>8. PICK t : t = [s EXCEPT !.pending = @ \o Flow(P, u, x)]
  OBVIOUS
<1>9. /\ IsSub(t) /\ t.live /\ t.skip = s.skip /\ t.base = s.base /\ t.shares = s.shares
      /\ t.deliveredSeq = n /\ t.exitSent = s.exitSent /\ t.replaying /\ t.read = s.read /\ t.out = s.out
      /\ t.pending = Flow(p, u, x)
  BY <1>3, <1>4, <1>7, <1>8 DEF IsSub
<1>10. ListInv' /\ subs'[current] = t
  <2>1. ListInv /\ Len(index) \in Nat /\ job.out \in Nat
    BY CoreTypes, LenProperties DEF ViewInv, IndexInv
  <2>2. t.skip <= job.out /\ t.base = Count(t.skip) /\ (t.shares => t.skip <= Len(index))
    BY <1>3, <1>9 DEF Indexed
  <2>3. PICK c \in DOMAIN subs : c = current
    BY <1>3
  <2>4. subs' = [subs EXCEPT ![c] = t] /\ (t.live <=> c = current) /\ IsSub(t)
    BY <1>2, <1>8, <1>9, <2>3
  <2>5. Len(index') \in Nat /\ Len(index) <= Len(index') /\ current' = current /\ job' = job
    BY <2>1
  <2>6. ListInv' /\ subs'[c] = t
    BY <2>1, <2>2, <2>4, <2>5, ListUpdate
  <2> QED BY <2>3, <2>6
<1>11. u <= Count(job.out) /\ LogBound
  <2>1. LogBound
    BY DEF ViewInv
  <2> QED BY <2>1, LogCounts
<1>12. Buffered(t, p, u, x)'
  <2>1. Flow(p, u, x)' = Flow(p, u, x) /\ Count(job.out)' = Count(job'.out)
    BY DEF Flow, Count, EventFrame, ExitFrame, RunEvents, Parse, Lines, Ends
  <2>2. Reached(u)'
    BY PublishedReached
  <2>3. p <= u /\ u <= Count(job'.out)
    BY <1>6, <1>11
  <2> QED BY <1>9, <2>1, <2>2, <2>3 DEF Buffered, Published
<1>13. Covered(t, n, p, u)'
  <2>1. CASE s.read
    <3>1. PICK d \in Nat : n <= d /\ p <= d /\ d <= Count(job.out) /\ s.out = Flow(n, d, "none")
      BY <1>5, <2>1 DEF Covered
    <3>2. Flow(n, d, "none")' = Flow(n, d, "none") /\ Count(job.out)' = Count(job.out)
      BY DEF Flow, Count, EventFrame, ExitFrame, RunEvents, Parse, Lines, Ends
    <3> QED BY <1>9, <2>1, <3>1, <3>2 DEF Covered
  <2>2. CASE ~s.read
    <3>1. Count(Len(log))' = Count(Len(log))
      BY DEF Count, Parse, Lines
    <3> QED BY <1>9, <2>2, <3>1 DEF Covered
  <2> QED BY <2>1, <2>2
<1>14. CatchesUp(t, n)'
  <2>1. ~t.exitSent /\ t.base <= n
    BY <1>4, <1>9 DEF CatchesUp
  <2> QED BY <1>12, <1>13, <2>1 DEF CatchesUp, Verdicts
<1>15. ClientHolds(n, e)'
  <2>1. view' = Held(n, e) /\ Held(n, e)' = Held(n, e)
    BY <1>4 DEF Held, Seen, RunEvents, Ends, Parse, Lines
  <2>2. n <= Count(job'.out) /\ Count(job.out)' = Count(job'.out)
    <3>1. n <= Count(job'.out)
      BY <1>4
    <3> QED BY <3>1 DEF Count, Parse, Lines
  <2>3. current' = current /\ subs'[current'] = t
    BY <1>10
  <2>4. CatchesUp(subs[current], n)'
    BY <1>14, <2>3 DEF CatchesUp, Buffered, Covered
  <2> QED BY <1>4, <1>9, <2>1, <2>2, <2>3, <2>4 DEF ClientHolds
<1> QED BY <1>10, <1>15 DEF ClientInv, Verdicts

LEMMA PublishView ==
  ASSUME Core, Core', ViewInv, LogBound', AnnounceInv', NEW u \in Nat, NEW x \in Verdicts,
         pump.at \notin {"off", "releasing"}, pump.task.seq <= u, u <= Count(Len(log)), Published(u, x),
         Publish(Flow(pump.task.seq, u, x)), UNCHANGED <<job, log, start, index>>
  PROVE  ViewInv'
<1>0. LogBound /\ job.out \in Nat /\ Len(index) \in Nat
  BY CoreTypes, LenProperties DEF ViewInv, IndexInv
<1>1. u <= Count(job.out) /\ Count(Len(log)) \in Nat /\ Count(job.out) \in Nat
  BY <1>0, LogCounts
<1>2. PICK P \in Nat : P = pump.task.seq
  <2>1. pump.task.seq = Count(pump.task.cursor) /\ pump.task.cursor \in Nat /\ pump.task.cursor <= Len(Weight)
    BY CoreTypes DEF IsRow
  <2>2. Count(pump.task.cursor) \in Nat
    BY <2>1, CountType
  <2> QED BY <2>1, <2>2
<1>3. current' = current
  BY DEF Publish
<1>4. ClientInv' /\ ListInv'
  <2>1. CASE current = 0
    <3>1. UNCHANGED <<subs, view>>
      BY <2>1 DEF Publish
    <3>2. ListInv'
      <4>1. ListInv
        BY DEF ViewInv
      <4> QED BY <1>0, <1>3, <3>1, <4>1, ListFrame
    <3>3. PICK n \in Nat, e \in Verdicts : ClientHolds(n, e)
      BY DEF ViewInv, ClientInv
    <3>4. ClientHolds(n, e)'
      <4>1. view' = Held(n, e) /\ Held(n, e)' = Held(n, e)
        BY <3>1, <3>3 DEF ClientHolds, Held, Seen, RunEvents, Ends, Parse, Lines
      <4>2. n <= Count(job'.out) /\ Count(job.out)' = Count(job'.out)
        <5>1. n <= Count(job'.out)
          BY <3>3 DEF ClientHolds
        <5> QED BY <5>1 DEF Count, Parse, Lines
      <4>3. e # "none" /\ ~Absent' => row'.status = e /\ row'.seq <= n
        BY <3>3 DEF ClientHolds, Published, Verdicts
      <4> QED BY <1>3, <2>1, <4>1, <4>2, <4>3 DEF ClientHolds
    <3> QED BY <3>2, <3>4 DEF ClientInv, Verdicts
  <2>2. CASE current # 0 /\ subs[current].replaying
    <3>1. view' = view /\ subs' = [subs EXCEPT ![current].pending = @ \o Flow(P, u, x)]
      BY <1>2, <2>2 DEF Publish
    <3>2. pump.at \notin {"off", "releasing"} /\ P <= u /\ u <= Count(Len(log))
      BY <1>2
    <3> QED BY <1>2, <1>3, <2>2, <3>1, <3>2, ReplayerHolds
  <2>3. CASE current # 0 /\ ~subs[current].replaying
    <3>1. Deliver(current, subs[current], Flow(P, u, x))
      BY <1>2, <2>3 DEF Publish
    <3>2. pump.at # "off" /\ P <= u
      BY <1>2
    <3> QED BY <1>1, <1>2, <1>3, <2>3, <3>1, <3>2, FollowerHolds
  <2> QED BY <2>1, <2>2, <2>3
<1>5. IndexInv'
  <2>1. index' \in Seq(Nat) /\ Len(index') <= job'.out /\ \A i \in 1..Len(index') : index'[i] = Count(i)
    BY DEF ViewInv, IndexInv
  <2> QED BY <2>1 DEF IndexInv, Count, Parse, Lines
<1>6. QuietInv'
  <2>1. start' = "answered"
    BY DEF Core, IInv, StartInv
  <2> QED BY <2>1 DEF QuietInv
<1> QED BY <1>4, <1>5, <1>6 DEF ViewInv

\* The verdict of a pump that cannot read, or keep, what the job prints.
LEMMA FailView ==
  ASSUME Core, Core', ViewInv, ReadThrows \/ LogThrows \/ KillThrows, ~deleted
  PROVE  ViewInv'
<1> DEFINE t == Finished(pump.task, "failed", "error")
           P == pump.task.seq
<1>0. IsRow(row) /\ IsPump(pump) /\ IsRow(pump.task)
  BY CoreTypes
<1>1. /\ pump.at \in {"reading", "truncating", "appending", "killing"}
      /\ UNCHANGED <<job, log, start, index>>
      /\ row' = Saved(t) /\ pump' = [pump EXCEPT !.at = "releasing", !.task = t]
      /\ Publish(<<ExitFrame("failed")>>)
  BY DEF ReadThrows, LogThrows, KillThrows, FailWith
<1>2. P \in Nat /\ P <= Count(Len(log))
  <2>1. /\ P = Count(pump.task.cursor) /\ pump.task.cursor \in Nat /\ pump.task.cursor <= Len(log)
        /\ Len(log) \in Nat /\ Len(log) <= Len(Weight)
    <3>1. LogBound
      BY DEF ViewInv
    <3>2. Len(log) \in Nat /\ Len(log) <= Len(Weight)
      BY <3>1, LogCounts
    <3> QED BY <1>0, <1>1, <3>2, CoreTypes DEF Core, LogInv, IsRow
  <2> QED BY <2>1, CountGrows
<1>3. IsRow(t) /\ t.status = "failed" /\ t.seq = P
  BY <1>0 DEF Finished, IsRow
<1> HIDE DEF t
<1>4. pump'.at = "releasing" /\ pump'.task = t /\ row'.status = "failed" /\ row'.seq = P
  BY <1>0, <1>1, <1>3 DEF IsPump, Saved, IsRow
<1>5. ~Absent /\ row.status = "running"
  BY <1>1 DEF Core, IInv, CopyInv, StartInv, Absent
<1>6. Published(P, "failed")
  BY <1>2, <1>3, <1>4, <1>5 DEF Published
<1>7. Publish(Flow(P, P, "failed"))
  <2>1. Flow(P, P, "failed") = <<ExitFrame("failed")>>
    BY <1>2, ExitFlow
  <2> QED BY <1>1, <2>1
<1>8. LogBound' /\ AnnounceInv'
  BY <1>1, <1>4 DEF ViewInv, LogBound, AnnounceInv
<1>9. "failed" \in Verdicts /\ P <= P
  BY <1>2 DEF Verdicts
<1> QED BY <1>1, <1>2, <1>6, <1>7, <1>8, <1>9, PublishView

LEMMA AnnounceView ==
  ASSUME Core, Core', ViewInv, AnnounceExit
  PROVE  ViewInv'
<1> DEFINE P == pump.task.seq
           x == pump.task.status
<1>0. IsRow(row) /\ IsPump(pump) /\ IsRow(pump.task)
  BY CoreTypes
<1>1. /\ pump.at = "announcing" /\ UNCHANGED <<job, log, start, index, row>>
      /\ pump' = [pump EXCEPT !.at = "releasing"] /\ Publish(<<ExitFrame(x)>>)
  BY DEF AnnounceExit
<1>2. P \in Nat /\ P <= Count(Len(log))
  <2>1. /\ P = Count(pump.task.cursor) /\ pump.task.cursor \in Nat /\ pump.task.cursor <= Len(log)
        /\ Len(log) \in Nat /\ Len(log) <= Len(Weight)
    <3>1. LogBound
      BY DEF ViewInv
    <3>2. Len(log) \in Nat /\ Len(log) <= Len(Weight)
      BY <3>1, LogCounts
    <3> QED BY <1>0, <1>1, <3>2, CoreTypes DEF Core, LogInv, IsRow
  <2> QED BY <2>1, CountGrows
<1>3. pump'.at = "releasing" /\ pump'.task = pump.task
  BY <1>0, <1>1 DEF IsPump
<1>4. x \in Terminal /\ (~Absent => row.status = x /\ row.seq = P)
  BY <1>1, CoreTypes DEF ViewInv, AnnounceInv
<1> HIDE DEF P, x
<1>5. Published(P, x)
  BY <1>1, <1>2, <1>3, <1>4 DEF Published, Absent, P
<1>6. Publish(Flow(P, P, x))
  <2>1. x # "none"
    BY <1>4
  <2>2. Flow(P, P, x) = <<ExitFrame(x)>>
    BY <1>2, <2>1, ExitFlow
  <2> QED BY <1>1, <2>2
<1>7. LogBound' /\ AnnounceInv'
  BY <1>1, <1>3 DEF ViewInv, LogBound, AnnounceInv
<1>8. x \in Verdicts /\ P <= P
  BY <1>2, <1>4 DEF Verdicts
<1>9. Publish(Flow(pump.task.seq, P, x)) /\ pump.task.seq <= P
  BY <1>6, <1>8 DEF P
<1> QED BY <1>1, <1>2, <1>5, <1>7, <1>8, <1>9, PublishView

LEMMA AdvanceView ==
  ASSUME Core, Core', ViewInv, AdvanceAndPersist
  PROVE  ViewInv'
<1> DEFINE c == pump.task.cursor
           u == pump.upto
           n == Len(Parse(Lines(c, u)))
           task == [pump.task EXCEPT !.cursor = u, !.bytes = u, !.seq = @ + n]
<1>0. IsRow(row) /\ IsPump(pump) /\ IsRow(pump.task)
  BY CoreTypes
<1>1. /\ pump.at = "delivering" /\ UNCHANGED <<deleted, job, log, start, index>>
      /\ Publish(Frames(Parse(Lines(c, u)), pump.task.seq))
      /\ \/ u = c /\ pump' = Onwards(pump.task) /\ row' = row
         \/ deleted /\ pump' = Idle /\ row' = row
         \/ ~deleted /\ pump' = Onwards(task) /\ row' = Saved(task)
  BY DEF AdvanceAndPersist
<1>2. c \in Nat /\ u \in Nat /\ c <= u /\ u = Len(log) /\ u <= Len(Weight) /\ pump.task.seq = Count(c)
  <2>1. u = Len(log) /\ c <= u /\ c \in Nat /\ u \in Nat
    BY <1>0, <1>1 DEF Core, LogInv, IsPump, IsRow
  <2>2. Len(log) <= Len(Weight)
    BY LogCounts DEF ViewInv
  <2>3. pump.task.seq = Count(c)
    BY <1>1, CoreTypes
  <2> QED BY <2>1, <2>2, <2>3
<1>3. Count(c) \in Nat /\ Count(u) \in Nat /\ Count(c) <= Count(u) /\ n = Count(u) - Count(c)
  BY <1>2, CountGrows, OutputOfLines
<1>4. Publish(Flow(pump.task.seq, Count(u), "none"))
  <2>1. Frames(Parse(Lines(c, u)), Count(c)) = Flow(Count(c), Count(u), "none")
    BY <1>2, FramesFlow
  <2> QED BY <1>1, <1>2, <2>1
<1>5. IsRow(task) /\ task.seq = Count(u) /\ task.status = pump.task.status
  BY <1>0, <1>2, <1>3 DEF IsRow
<1> HIDE DEF task
<1>6. ASSUME NEW t, IsRow(t), pump' = Onwards(t)
      PROVE  pump'.at \in {"collecting", "killing", "reading"} /\ pump'.task.seq = t.seq
  BY <1>0, <1>6 DEF Onwards, IsPump, IsRow
<1>7. row.status \notin Terminal /\ (~deleted => ~Absent) /\ (deleted => Absent)
  BY <1>0, <1>1 DEF Core, IInv, CopyInv, StartInv, Absent
<1>8. Published(Count(u), "none") /\ pump'.at # "announcing"
  <2>1. CASE u = c /\ pump' = Onwards(pump.task) /\ row' = row
    <3>1. pump'.at \in {"collecting", "killing", "reading"} /\ pump'.task.seq = pump.task.seq
      BY <1>0, <1>6, <2>1
    <3>2. ~Absent => row.seq = Count(u)
      BY <1>1, <1>2, <2>1, CoreTypes
    <3> QED BY <1>2, <1>3, <1>7, <2>1, <3>1, <3>2 DEF Published, Absent
  <2>2. CASE deleted /\ pump' = Idle /\ row' = row
    BY <1>7, <2>2, IdleType DEF Published, Absent
  <2>3. CASE ~deleted /\ pump' = Onwards(task) /\ row' = Saved(task)
    <3>1. pump'.at \in {"collecting", "killing", "reading"} /\ pump'.task.seq = Count(u)
      BY <1>5, <1>6, <2>3
    <3>2. row'.seq = Count(u)
      BY <1>5, <2>3 DEF Saved, IsRow
    <3> QED BY <1>3, <1>7, <2>3, <3>1, <3>2 DEF Published
  <2> QED BY <1>1, <2>1, <2>2, <2>3
<1>9. LogBound' /\ AnnounceInv'
  BY <1>1, <1>8 DEF ViewInv, LogBound, AnnounceInv
<1>10. /\ "none" \in Verdicts /\ pump.at \notin {"off", "releasing"} /\ pump.task.seq <= Count(u)
       /\ Count(u) <= Count(Len(log))
  BY <1>1, <1>2, <1>3 DEF Verdicts
<1>11. UNCHANGED <<job, log, start, index>>
  BY <1>1
<1> HIDE DEF c, u, n
<1> QED BY <1>3, <1>4, <1>8, <1>9, <1>10, <1>11, PublishView

-----------------------------------------------------------------------------
(* Subscriptions come and go.                                                *)

LEMMA GoneType ==
  /\ IsSub(Gone) /\ ~Gone.live /\ ~Gone.shares /\ Gone.skip = 0 /\ Gone.base = 0 /\ ~Gone.exitSent
  /\ ~Gone.replaying /\ Gone.pending = <<>> /\ ~Gone.read /\ Gone.out = <<>> /\ Gone.deliveredSeq = 0
BY DEF Gone, IsSub

\* The subscriptions when their client has left the one it had.
Left == IF current = 0 THEN subs ELSE [subs EXCEPT ![current] = Retired(@)]

LEMMA LeftList ==
  ASSUME ListInv, job.out \in Nat
  PROVE  \E N \in Nat : /\ Left = [i \in 1..N |-> Left[i]] /\ Len(subs) = N /\ current \in 0..N
                        /\ \A i \in 1..N : IsSub(Left[i]) /\ Indexed(Left[i]) /\ ~Left[i].live
<1>1. PICK N \in Nat : /\ subs = [i \in 1..N |-> subs[i]] /\ current \in 0..N
                       /\ \A i \in 1..N : IsSub(subs[i]) /\ Indexed(subs[i]) /\ (subs[i].live <=> i = current)
  BY DEF ListInv
<1>2. DOMAIN subs = 1..N /\ Len(subs) = N
  BY <1>1
<1>3. Left = [i \in 1..N |-> IF i = current THEN Retired(subs[i]) ELSE subs[i]]
  <2>1. CASE current = 0
    <3>1. \A i \in 1..N : i # current
      BY <2>1
    <3> QED BY <1>1, <2>1, <3>1 DEF Left
  <2>2. CASE current # 0
    BY <1>1, <1>2, <2>2 DEF Left
  <2> QED BY <2>1, <2>2
<1>4. ASSUME NEW i \in 1..N PROVE IsSub(Left[i]) /\ Indexed(Left[i]) /\ ~Left[i].live
  <2>1. CASE i # current
    BY <1>1, <1>3, <2>1
  <2>2. CASE i = current
    <3>1. PICK s : s = subs[i]
      OBVIOUS
    <3>2. IsSub(s) /\ Indexed(s) /\ Left[i] = Retired(s)
      BY <1>1, <1>3, <2>2, <3>1
    <3>3. CASE s.replaying
      <4>1. Left[i] = [s EXCEPT !.live = FALSE, !.pending = <<>>]
        BY <3>2, <3>3 DEF Retired
      <4>2. IsSub(Left[i]) /\ ~Left[i].live
        BY <3>2, <4>1 DEF IsSub
      <4>3. Left[i].skip = s.skip /\ Left[i].base = s.base /\ Left[i].shares = s.shares
        BY <3>2, <4>1 DEF IsSub
      <4> QED BY <3>2, <4>2, <4>3 DEF Indexed
    <3>4. CASE ~s.replaying
      <4>1. Left[i] = Gone
        BY <3>2, <3>4 DEF Retired
      <4> QED BY <4>1, GoneType, CountNothing DEF Indexed
    <3> QED BY <3>3, <3>4
  <2> QED BY <2>1, <2>2
<1>5. Left = [i \in 1..N |-> Left[i]]
  BY <1>3
<1> QED BY <1>1, <1>2, <1>4, <1>5

\* Whoever follows nothing any more holds what it has been sent.
LEMMA NobodyFollows ==
  ASSUME Core, Core', ViewInv, UNCHANGED <<row, job, view>>, current' = 0
  PROVE  ClientInv'
<1>1. PICK n \in Nat, e \in Verdicts : ClientHolds(n, e)
  BY DEF ViewInv, ClientInv
<1>2. view' = Held(n, e) /\ Held(n, e)' = Held(n, e)
  BY <1>1 DEF ClientHolds, Held, Seen, RunEvents, Ends, Parse, Lines
<1>3. n <= Count(job'.out) /\ Count(job.out)' = Count(job'.out)
  <2>1. n <= Count(job'.out)
    BY <1>1 DEF ClientHolds
  <2> QED BY <2>1 DEF Count, Parse, Lines
<1>4. e # "none" /\ ~Absent' => row'.status = e /\ row'.seq <= n
  BY <1>1 DEF ClientHolds, Absent
<1>5. ClientHolds(n, e)'
  BY <1>2, <1>3, <1>4 DEF ClientHolds
<1> QED BY <1>5 DEF ClientInv, Verdicts

LEMMA UnsubscribeView ==
  ASSUME Core, Core', ViewInv, Unsubscribe
  PROVE  ViewInv'
<1>1. /\ UNCHANGED <<row, job, log, start, pump, index, view>> /\ current # 0 /\ current' = 0 /\ subs' = Left
  BY DEF Unsubscribe, Left
<1>2. job.out \in Nat /\ ListInv
  BY CoreTypes DEF ViewInv
<1>3. PICK N \in Nat : /\ Left = [i \in 1..N |-> Left[i]] /\ Len(subs) = N
                       /\ \A i \in 1..N : IsSub(Left[i]) /\ Indexed(Left[i]) /\ ~Left[i].live
  BY <1>2, LeftList
<1>4. ASSUME NEW i \in 1..N
      PROVE  IsSub(subs'[i]) /\ (subs'[i].live <=> i = current') /\ Indexed(subs[i])'
  <2>1. IsSub(subs'[i]) /\ Indexed(subs'[i]) /\ ~subs'[i].live /\ i # current'
    BY <1>1, <1>3
  <2>2. Indexed(subs[i])'
    BY <1>1, <2>1 DEF Indexed, Count, Parse, Lines
  <2> QED BY <2>1, <2>2
<1>5. ListInv'
  <2>1. subs' = [i \in 1..N |-> subs'[i]] /\ current' \in 0..N
    BY <1>1, <1>3
  <2> QED BY <1>4, <2>1 DEF ListInv, IsSub
<1>6. ClientInv'
  BY <1>1, NobodyFollows
<1>7. LogBound' /\ QuietInv' /\ AnnounceInv'
  BY <1>1 DEF ViewInv, LogBound, QuietInv, AnnounceInv, Absent, NewView
<1>8. IndexInv'
  <2>1. index' \in Seq(Nat) /\ Len(index') <= job'.out /\ \A i \in 1..Len(index') : index'[i] = Count(i)
    BY <1>1 DEF ViewInv, IndexInv
  <2> QED BY <2>1 DEF IndexInv, Count, Parse, Lines
<1> QED BY <1>5, <1>6, <1>7, <1>8 DEF ViewInv

LEMMA CrashView ==
  ASSUME Core, Core', ViewInv, CrashAndBoot
  PROVE  ViewInv'
<1>1. /\ UNCHANGED <<row, job, log, view>> /\ current' = 0 /\ subs' = [i \in DOMAIN subs |-> Gone]
      /\ index' = <<>> /\ pump' = ResumeRunning /\ (start # "answered" <=> start' # "answered")
  BY DEF CrashAndBoot
<1>2. job.out \in Nat /\ ListInv /\ IsRow(row)
  BY CoreTypes DEF ViewInv
<1>3. ListInv'
  <2>1. PICK N \in Nat : subs = [i \in 1..N |-> subs[i]]
    BY <1>2 DEF ListInv
  <2>2. subs' = [i \in 1..N |-> Gone]
    <3>1. DOMAIN subs = 1..N
      BY <2>1
    <3> QED BY <1>1, <3>1
  <2>3. ASSUME NEW i \in 1..N
        PROVE  IsSub(subs'[i]) /\ (subs'[i].live <=> i = current') /\ Indexed(subs[i])'
    <3>1. subs'[i] = Gone /\ i # current'
      BY <1>1, <2>2
    <3>2. subs'[i].skip <= job'.out /\ subs'[i].base = Count(subs'[i].skip) /\ ~subs'[i].shares
      BY <1>1, <1>2, <3>1, GoneType, CountNothing
    <3>3. Indexed(subs[i])'
      BY <3>2 DEF Indexed, Count, Parse, Lines
    <3> QED BY <3>1, <3>3, GoneType
  <2>4. subs' = [i \in 1..N |-> subs'[i]] /\ current' \in 0..N
    BY <1>1, <2>2
  <2> QED BY <2>3, <2>4 DEF ListInv, IsSub
<1>4. ClientInv'
  BY <1>1, NobodyFollows
<1>5. pump'.at \in {"off", "truncating"}
  BY <1>1, <1>2, IdleType, PumpFromType DEF ResumeRunning
<1>6. LogBound' /\ QuietInv' /\ AnnounceInv'
  BY <1>1, <1>5 DEF ViewInv, LogBound, QuietInv, AnnounceInv, NewView
<1>7. IndexInv'
  BY <1>1, <1>2 DEF IndexInv
<1> QED BY <1>3, <1>4, <1>6, <1>7 DEF ViewInv

\* What the search finds: every line before it is counted in full by `from`.
LEMMA SearchIndex ==
  ASSUME IndexInv, job.out \in Nat, job.out <= Len(Weight), NEW from \in Nat
  PROVE  /\ FirstLineAfter(from) \in Nat /\ FirstLineAfter(from) <= Len(index)
         /\ FirstLineAfter(from) # 0 => index[FirstLineAfter(from)] <= from
<1> DEFINE L == Len(index)
           S == {i \in 1..L : index[i] <= from}
<1>1. L \in Nat /\ L <= job.out /\ \A i \in 1..L : index[i] = Count(i)
  BY LenProperties DEF IndexInv
<1>2. ASSUME NEW i \in 1..L, NEW j \in 1..L, i <= j PROVE index[i] <= index[j] /\ index[i] \in Nat /\ index[j] \in Nat
  <2>1. i \in Nat /\ j \in Nat /\ j <= Len(Weight)
    <3>1. Len(Weight) \in Nat
      BY TaskConstants, LenProperties
    <3> QED BY <1>1, <3>1
  <2>2. Count(i) <= Count(j) /\ Count(i) \in Nat /\ Count(j) \in Nat
    BY <1>2, <2>1, CountGrows
  <2> QED BY <1>1, <2>2
<1>3. PICK k \in 0..L : S = 1..k
  <2>1. CASE S = 1..L
    BY <1>1, <2>1
  <2>2. CASE S # 1..L
    <3> DEFINE U == (1..L) \ S
    <3>1. U \subseteq Nat /\ U # {}
      BY <2>2
    <3> HIDE DEF U
    <3>2. PICK m \in U : \A i \in U : m <= i
      BY <3>1, LeastNatural
    <3>3. m \in 1..L /\ m \notin S
      BY <3>2 DEF U
    <3>4. ASSUME NEW i \in S PROVE i \in 1..(m - 1)
      <4>1. i \in 1..L /\ index[i] <= from /\ ~(index[m] <= from)
        BY <3>3
      <4>2. ~(m <= i)
        BY <1>2, <3>3, <4>1
      <4> QED BY <3>3, <4>1, <4>2
    <3>5. ASSUME NEW i \in 1..(m - 1) PROVE i \in S
      <4>1. i \in 1..L /\ ~(m <= i)
        BY <3>3
      <4>2. i \notin U
        BY <3>2, <4>1
      <4> QED BY <4>1, <4>2 DEF U
    <3>6. m - 1 \in 0..L
      BY <1>1, <3>3
    <3> HIDE DEF S
    <3>7. S = 1..(m - 1)
      BY <3>4, <3>5
    <3> QED BY <3>6, <3>7
  <2> QED BY <2>1, <2>2
<1>4. Cardinality(1..k) = k
  <2>1. k \in Int /\ 1 \in Int
    BY <1>3
  <2>2. Cardinality(1..k) = IF 1 > k THEN 0 ELSE k - 1 + 1
    BY <2>1, FS_Interval
  <2> QED BY <1>1, <2>2
<1>5. FirstLineAfter(from) = k
  <2>1. FirstLineAfter(from) = Cardinality(S)
    BY DEF FirstLineAfter
  <2> HIDE DEF S
  <2> QED BY <1>3, <1>4, <2>1
<1>6. k # 0 => index[k] <= from
  <2>1. k # 0 => k \in 1..k
    BY <1>1
  <2> QED BY <1>3, <2>1
<1> QED BY <1>1, <1>5, <1>6

LEMMA SeenLast ==
  ASSUME NEW n \in Nat
  PROVE  (IF Seen(n) = <<>> THEN 0 ELSE Last(Seen(n))[1]) = n
<1>1. Len(Seen(n)) = n /\ \A i \in 1..n : Seen(n)[i] = <<i, RunEvents[i]>>
  BY DEF Seen
<1>2. CASE n = 0
  <2>1. Seen(n) = <<>>
    BY <1>2 DEF Seen
  <2> QED BY <1>2, <2>1
<1>3. CASE n # 0
  <2>1. n \in 1..n
    BY <1>3
  <2>2. Seen(n) # <<>>
    BY <1>1, <1>3
  <2>3. Last(Seen(n))[1] = n
    BY <1>1, <2>1 DEF Last
  <2> QED BY <2>2, <2>3
<1> QED BY <1>2, <1>3

\* What a new subscription asks for, and where its replay begins.
Follower(from, skip) ==
  [Gone EXCEPT !.replaying = TRUE, !.live = TRUE, !.deliveredSeq = from, !.shares = TRUE, !.skip = skip,
               !.base = IF skip = 0 THEN 0 ELSE index[skip]]

\* A subscription that has read nothing covers all that the row does not count.
LEMMA FollowerCatchesUp ==
  ASSUME Core, LogBound, ~Absent, NEW t, ~t.exitSent, t.pending = <<>>, ~t.read, NEW m \in Nat, t.base <= m
  PROVE  CatchesUp(t, m)
<1>1. PICK p : p = row.seq
  OBVIOUS
<1>2. p \in Nat /\ p <= Count(Len(log)) /\ p <= Count(job.out)
  <2>1. row.seq = Count(row.cursor) /\ row.cursor <= Len(log) /\ row.cursor \in Nat
    BY CoreTypes DEF IsRow
  <2>2. Len(log) \in Nat /\ Len(log) <= Len(Weight) /\ Count(Len(log)) <= Count(job.out) /\ Count(job.out) \in Nat
        /\ Count(Len(log)) \in Nat
    BY LogCounts
  <2>3. Count(row.cursor) <= Count(Len(log)) /\ Count(row.cursor) \in Nat
    BY <2>1, <2>2, CountGrows
  <2> QED BY <1>1, <2>1, <2>2, <2>3
<1>3. Flow(p, p, "none") = <<>>
  BY <1>2, ExitFlow
<1>4. pump.at # "off" => pump.task.seq = p
  BY <1>1, CoreTypes
<1>5. Reached(p)
  BY <1>1, <1>2, <1>4 DEF Reached
<1>6. Buffered(t, p, p, "none")
  BY <1>2, <1>3, <1>4, <1>5 DEF Buffered
<1>7. Covered(t, m, p, p)
  BY <1>2 DEF Covered
<1>8. "none" \in Verdicts
  BY DEF Verdicts
<1> QED BY <1>2, <1>6, <1>7, <1>8 DEF CatchesUp

LEMMA Appended ==
  ASSUME NEW N \in Nat, NEW ss, ss = [i \in 1..N |-> ss[i]], NEW t
  PROVE  Append(ss, t) = [i \in 1..(N + 1) |-> IF i = N + 1 THEN t ELSE ss[i]]
<1> DEFINE T == {ss[i] : i \in 1..N} \cup {t}
<1>1. ss \in Seq(T) /\ Len(ss) = N /\ t \in T
  <2>1. \A i \in 1..N : ss[i] \in T
    OBVIOUS
  <2> HIDE DEF T
  <2>2. ss \in [1..N -> T]
    BY <2>1
  <2>3. t \in T
    BY DEF T
  <2> QED BY <2>2, <2>3
<1> HIDE DEF T
<1> DEFINE a == Append(ss, t)
<1>2. a \in Seq(T) /\ Len(a) = N + 1 /\ (\A i \in 1..N : a[i] = ss[i]) /\ a[N + 1] = t
  BY <1>1, AppendProperties
<1> HIDE DEF a
<1>3. a = [i \in 1..(N + 1) |-> a[i]]
  BY <1>2
<1>4. a = [i \in 1..(N + 1) |-> IF i = N + 1 THEN t ELSE ss[i]]
  BY <1>2, <1>3
<1> QED BY <1>4 DEF a

LEMMA SubscribeView ==
  ASSUME Core, Core', ViewInv, NEW fresh \in BOOLEAN, Subscribe(fresh)
  PROVE  ViewInv'
<1>1. PICK n \in Nat, e \in Verdicts : ClientHolds(n, e)
  BY DEF ViewInv, ClientInv
<1>2. view = Held(n, e) /\ view.events = Seen(n) /\ n <= Count(job.out)
  BY <1>1 DEF ClientHolds, Held
<1>3. /\ job.out \in Nat /\ job.out <= Len(Weight) /\ Count(job.out) \in Nat
      /\ IndexInv /\ ListInv /\ LogBound /\ Len(index) \in Nat
  BY CoreTypes, LenProperties DEF ViewInv, IndexInv
<1>4. UNCHANGED <<row, job, log, start, pump, index>> /\ ~Absent /\ current' = Len(subs) + 1
  BY DEF Subscribe, Absent
<1> DEFINE from == IF fresh \/ view.events = <<>> THEN 0 ELSE Last(view.events)[1]
           m == IF fresh THEN 0 ELSE n
<1>5. from = m /\ m \in Nat /\ m <= Count(job.out)
  <2>1. from = IF fresh THEN 0 ELSE IF Seen(n) = <<>> THEN 0 ELSE Last(Seen(n))[1]
    BY <1>2
  <2> HIDE DEF from
  <2>2. CASE fresh
    BY <1>3, <2>1, <2>2
  <2>3. CASE ~fresh
    BY <1>2, <2>1, <2>3, SeenLast
  <2> QED BY <2>2, <2>3
<1>6. view' = Held(m, "none")
  <2>1. CASE fresh
    BY <2>1, NewHeld DEF Subscribe
  <2>2. CASE ~fresh
    <3>1. view' = [view EXCEPT !.exit = "none", !.exits = 0]
      BY <2>2 DEF Subscribe
    <3> QED BY <1>2, <2>2, <3>1 DEF Held, Ends
  <2> QED BY <2>1, <2>2
<1>7. PICK t : t = Follower(from, FirstLineAfter(from))
  OBVIOUS
<1>8. subs' = Append(Left, t)
  BY <1>7 DEF Subscribe, Left, Follower
<1> HIDE DEF from, m
<1>9. PICK k : k = FirstLineAfter(from)
  OBVIOUS
<1>10. k \in Nat /\ k <= Len(index) /\ (k # 0 => index[k] <= m)
  <2>1. from \in Nat
    BY <1>5
  <2> QED BY <1>3, <1>5, <1>9, <2>1, SearchIndex
<1>11. (IF k = 0 THEN 0 ELSE index[k]) = Count(k) /\ Count(k) \in Nat /\ Count(k) <= m
  <2>1. CASE k = 0
    BY <1>5, <2>1, CountNothing
  <2>2. CASE k # 0
    <3>1. k \in 1..Len(index) /\ k <= Len(Weight)
      <4>1. Len(Weight) \in Nat /\ Len(index) <= job.out
        BY <1>3, TaskConstants, LenProperties DEF IndexInv
      <4> QED BY <1>3, <1>10, <2>2, <4>1
    <3>2. index[k] = Count(k)
      BY <1>3, <3>1 DEF IndexInv
    <3>3. Count(k) \in Nat
      BY <1>10, <3>1, CountType
    <3> QED BY <1>10, <2>2, <3>2, <3>3
  <2> QED BY <2>1, <2>2
<1>12. /\ IsSub(t) /\ t.live /\ t.replaying /\ ~t.exitSent /\ t.pending = <<>> /\ ~t.read
       /\ t.deliveredSeq = m /\ t.skip = k /\ t.base = Count(k)
  <2>1. t = Follower(m, k)
    BY <1>5, <1>7, <1>9
  <2>2. Follower(m, k).base = Count(k)
    BY <1>11, GoneType DEF Follower, IsSub
  <2> QED BY <1>5, <1>10, <1>11, <2>1, <2>2, GoneType DEF Follower, IsSub
<1>13. PICK N \in Nat : /\ Left = [i \in 1..N |-> Left[i]] /\ Len(subs) = N
                        /\ \A i \in 1..N : IsSub(Left[i]) /\ Indexed(Left[i]) /\ ~Left[i].live
  BY <1>3, LeftList
<1>14. subs' = [i \in 1..(N + 1) |-> IF i = N + 1 THEN t ELSE Left[i]]
  BY <1>8, <1>13, Appended
<1>15. ListInv'
  <2>1. ASSUME NEW i \in 1..(N + 1)
        PROVE  IsSub(subs'[i]) /\ (subs'[i].live <=> i = current') /\ Indexed(subs[i])'
    <3>1. CASE i = N + 1
      <4>1. subs'[i] = t /\ i = current'
        BY <1>4, <1>13, <1>14, <3>1
      <4>2. subs'[i].skip <= job'.out /\ subs'[i].base = Count(subs'[i].skip) /\ subs'[i].skip <= Len(index')
        <5>1. k <= job.out
          BY <1>3, <1>10 DEF IndexInv
        <5> QED BY <1>4, <1>10, <1>12, <4>1, <5>1
      <4>3. Indexed(subs[i])'
        BY <4>2 DEF Indexed, Count, Parse, Lines
      <4> QED BY <1>12, <4>1, <4>3
    <3>2. CASE i # N + 1
      <4>1. i \in 1..N /\ i # current' /\ subs'[i] = Left[i]
        BY <1>4, <1>13, <1>14, <3>2
      <4>2. IsSub(subs'[i]) /\ Indexed(subs'[i]) /\ ~subs'[i].live
        BY <1>13, <4>1
      <4>3. Indexed(subs[i])'
        BY <1>4, <4>2 DEF Indexed, Count, Parse, Lines
      <4> QED BY <4>1, <4>2, <4>3
    <3> QED BY <3>1, <3>2
  <2>2. subs' = [i \in 1..(N + 1) |-> subs'[i]] /\ current' \in 0..(N + 1) /\ N + 1 \in Nat
    BY <1>4, <1>13, <1>14
  <2> QED BY <2>1, <2>2 DEF ListInv, IsSub
<1>16. LogBound' /\ QuietInv' /\ AnnounceInv'
  <2>1. start = "answered"
    BY <1>4 DEF Core, IInv, StartInv
  <2> QED BY <1>4, <2>1 DEF ViewInv, LogBound, QuietInv, AnnounceInv, Absent
<1>17. CatchesUp(t, m)'
  <2>1. t.base <= m
    BY <1>11, <1>12
  <2>2. CatchesUp(t, m)
    BY <1>3, <1>4, <1>5, <1>12, <2>1, FollowerCatchesUp
  <2>3. Len(log) \in Nat
    BY CoreTypes
  <2>4. Onward
    BY <1>3, <1>4, <2>3 DEF Onward, Absent
  <2> QED BY <1>5, <1>16, <2>2, <2>4, CatchesUpFrame
<1>18. ClientHolds(m, "none")'
  <2>1. view' = Held(m, "none") /\ Held(m, "none")' = Held(m, "none")
    BY <1>6 DEF Held, Seen, RunEvents, Ends, Parse, Lines
  <2>2. m <= Count(job'.out) /\ Count(job.out)' = Count(job'.out)
    <3>1. m <= Count(job'.out)
      BY <1>4, <1>5
    <3> QED BY <3>1 DEF Count, Parse, Lines
  <2>3. subs'[current'] = t
    BY <1>4, <1>13, <1>14
  <2>4. CatchesUp(subs[current], m)'
    BY <1>17, <2>3 DEF CatchesUp, Buffered, Covered
  <2> QED BY <1>12, <2>1, <2>2, <2>3, <2>4 DEF ClientHolds
<1>19. ClientInv'
  BY <1>5, <1>18 DEF ClientInv, Verdicts
<1>20. IndexInv'
  <2>1. index' \in Seq(Nat) /\ Len(index') <= job'.out /\ \A i \in 1..Len(index') : index'[i] = Count(i)
    BY <1>4 DEF ViewInv, IndexInv
  <2> QED BY <2>1 DEF IndexInv, Count, Parse, Lines
<1> QED BY <1>15, <1>16, <1>19, <1>20 DEF ViewInv

-----------------------------------------------------------------------------
(* The replay.                                                               *)

\* What a replay parses, and what it adds to the index.
LEMMA ReplayParses ==
  ASSUME Core, LogBound, NEW k \in Nat, k <= job.out
  PROVE  /\ \E M \in Nat : /\ k <= M /\ Len(log) <= M /\ M <= job.out
                           /\ Frames(Parse(SubSeq(log, k + 1, Len(log))), Count(k)) = Flow(Count(k), Count(M), "none")
         /\ \A n \in k..Len(log) : Count(k) + Len(Parse(SubSeq(log, k + 1, n))) = Count(n)
<1> DEFINE L == Len(log)
<1>1. L \in Nat /\ L <= job.out /\ L <= Len(Weight) /\ job.out \in Nat /\ job.out <= Len(Weight) /\ log = Lines(0, L)
      /\ k <= Len(Weight)
  <2>1. Len(Weight) \in Nat
    BY TaskConstants, LenProperties
  <2> QED BY <2>1, CoreTypes, LogCounts
<1> HIDE DEF L
<1>2. PICK M \in Nat : k <= M /\ L <= M /\ M <= job.out /\ M <= Len(Weight) /\ SubSeq(log, k + 1, L) = Lines(k, M)
  <2>1. CASE k <= L
    <3>1. SubSeq(Lines(0, L), k + 1, L) = Lines(k, L)
      <4>1. L \in Nat /\ L <= L
        BY <1>1
      <4> QED BY <2>1, <4>1, LinesPart
    <3> QED BY <1>1, <2>1, <3>1
  <2>2. CASE ~(k <= L)
    <3>1. SubSeq(Lines(0, L), k + 1, L) = Lines(k, k)
      BY <1>1, <2>2, LinesPart
    <3> QED BY <1>1, <2>2, <3>1
  <2> QED BY <2>1, <2>2
<1>3. Frames(Parse(Lines(k, M)), Count(k)) = Flow(Count(k), Count(M), "none")
  BY <1>2, FramesFlow
<1>4. ASSUME NEW n \in k..L PROVE Count(k) + Len(Parse(SubSeq(log, k + 1, n))) = Count(n)
  <2>1. n \in Nat /\ k <= n /\ n <= L /\ n <= Len(Weight)
    BY <1>1
  <2>2. SubSeq(log, k + 1, n) = Lines(k, n)
    BY <1>1, <2>1, LinesPart
  <2>3. Count(n) = Count(k) + Len(Parse(Lines(k, n)))
    BY <2>1, ParseLength DEF Count
  <2> QED BY <2>2, <2>3
<1> QED BY <1>2, <1>3, <1>4 DEF L

LEMMA FunctionSeq ==
  ASSUME NEW T, NEW m \in Nat, NEW f \in [1..m -> T]
  PROVE  f \in Seq(T) /\ Len(f) = m
OBVIOUS

LEMMA IndexGrows ==
  ASSUME Core, LogBound, IndexInv, NEW k \in Nat, k <= Len(index), Len(index) < Len(log), NEW g,
         g = [n \in 1..(Len(log) - Len(index)) |->
                Count(k) + Len(Parse(SubSeq(log, k + 1, Len(index) + n)))]
  PROVE  /\ index \o g \in Seq(Nat) /\ Len(index \o g) = Len(log)
         /\ \A i \in 1..Len(log) : (index \o g)[i] = Count(i)
<1> DEFINE L == Len(log)
           I == Len(index)
<1>1. /\ L \in Nat /\ L <= Len(Weight) /\ L <= job.out /\ job.out \in Nat /\ I \in Nat /\ I < L /\ k <= I
      /\ index \in Seq(Nat) /\ \A i \in 1..I : index[i] = Count(i)
  BY LogCounts, LenProperties DEF IndexInv
<1> HIDE DEF L, I
<1>2. ASSUME NEW n \in 1..(L - I) PROVE g[n] = Count(I + n) /\ g[n] \in Nat
  <2>1. I + n \in k..L /\ I + n \in Nat /\ I + n <= Len(Weight)
    <3>1. Len(Weight) \in Nat
      BY TaskConstants, LenProperties
    <3> QED BY <1>1, <3>1
  <2>2. g[n] = Count(k) + Len(Parse(SubSeq(log, k + 1, I + n)))
    BY DEF I, L
  <2>3. \A j \in k..Len(log) : Count(k) + Len(Parse(SubSeq(log, k + 1, j))) = Count(j)
    <3>1. k <= job.out
      BY <1>1
    <3> QED BY <3>1, ReplayParses
  <2>4. Count(I + n) \in Nat
    BY <2>1, CountType
  <2> QED BY <2>1, <2>2, <2>3, <2>4 DEF L
<1>3. g \in Seq(Nat) /\ Len(g) = L - I
  <2>1. g = [n \in 1..(L - I) |-> g[n]]
    BY DEF L, I
  <2>2. g \in [1..(L - I) -> Nat]
    BY <1>2, <2>1
  <2>3. L - I \in Nat
    BY <1>1
  <2> QED BY <2>2, <2>3, FunctionSeq, Zenon
<1> DEFINE h == index \o g
<1>4. h \in Seq(Nat) /\ Len(h) = I + (L - I)
      /\ \A i \in 1..(I + (L - I)) : h[i] = IF i <= I THEN index[i] ELSE g[i - I]
  BY <1>1, <1>3, ConcatProperties DEF I
<1> HIDE DEF h
<1>5. ASSUME NEW i \in 1..L PROVE h[i] = Count(i)
  <2>1. CASE i <= I
    <3>1. i \in 1..I /\ i \in 1..(I + (L - I))
      BY <1>1, <2>1
    <3> QED BY <1>1, <1>4, <2>1, <3>1
  <2>2. CASE ~(i <= I)
    <3>1. i - I \in 1..(L - I) /\ I + (i - I) = i /\ i \in 1..(I + (L - I))
      BY <1>1, <2>2
    <3> QED BY <1>2, <1>4, <2>2, <3>1
  <2> QED BY <2>1, <2>2
<1>6. h \in Seq(Nat) /\ Len(h) = L /\ \A i \in 1..L : h[i] = Count(i)
  BY <1>1, <1>4, <1>5
<1> QED BY <1>6 DEF h, L

\* The client of a subscription that another step leaves alone.
LEMMA OthersHold ==
  ASSUME Core, Core', ViewInv, LogBound', UNCHANGED <<row, job, log, pump, current, view>>,
         current # 0 => subs'[current] = subs[current]
  PROVE  ClientInv'
<1>1. PICK n \in Nat, e \in Verdicts : ClientHolds(n, e)
  BY DEF ViewInv, ClientInv
<1>2. Onward
  <2>1. job.out \in Nat /\ Len(log) \in Nat
    BY CoreTypes
  <2> QED BY <2>1 DEF Onward, Absent
<1>3. current # 0 => SameFor(subs[current], subs'[current])
  BY DEF SameFor
<1>4. ClientHolds(n, e)'
  BY <1>1, <1>2, <1>3, ClientFrame
<1> QED BY <1>4 DEF ClientInv, Verdicts

LEMMA ReplayReadsView ==
  ASSUME Core, Core', ViewInv, NEW i \in DOMAIN subs, ReplayReads(i)
  PROVE  ViewInv'
<1>1. PICK s : s = subs[i]
  OBVIOUS
<1>2. /\ s.replaying /\ ~s.read
      /\ UNCHANGED <<row, job, log, start, pump, current, view>>
  BY <1>1 DEF ReplayReads
<1>3. /\ job.out \in Nat /\ job.out <= Len(Weight) /\ Count(job.out) \in Nat
      /\ IndexInv /\ ListInv /\ LogBound /\ Len(index) \in Nat /\ Len(log) \in Nat /\ Len(log) <= job.out
      /\ LogBound'
  BY <1>2, CoreTypes, LenProperties DEF ViewInv, IndexInv, LogBound
<1>4. IsSub(s) /\ Indexed(s) /\ (s.live <=> i = current) /\ (current # 0 => current \in DOMAIN subs)
  <2>1. PICK N \in Nat : /\ subs = [j \in 1..N |-> subs[j]] /\ current \in 0..N
                         /\ \A j \in 1..N : IsSub(subs[j]) /\ Indexed(subs[j]) /\ (subs[j].live <=> j = current)
    BY <1>3 DEF ListInv
  <2>2. DOMAIN subs = 1..N
    BY <2>1
  <2> QED BY <1>1, <2>1, <2>2
<1>5. PICK k \in Nat : k = s.skip
  BY <1>4 DEF IsSub
<1>6. k <= job.out /\ s.base = Count(k) /\ (s.shares => k <= Len(index))
  BY <1>4, <1>5 DEF Indexed
<1>7. PICK M \in Nat : /\ k <= M /\ Len(log) <= M /\ M <= job.out
                       /\ Frames(Parse(SubSeq(log, k + 1, Len(log))), Count(k)) = Flow(Count(k), Count(M), "none")
  BY <1>3, <1>6, ReplayParses
<1>8. PICK t : t = [s EXCEPT !.read = TRUE, !.out = After(Flow(Count(k), Count(M), "none"), s.deliveredSeq)]
  OBVIOUS
<1>9. subs' = [subs EXCEPT ![i] = t]
  <2>1. subs' = [subs EXCEPT ![i].read = TRUE,
                             ![i].out = After(Frames(Parse(SubSeq(log, s.skip + 1, Len(log))), s.base), s.deliveredSeq)]
    BY <1>1 DEF ReplayReads
  <2>2. subs' = [subs EXCEPT ![i].read = TRUE,
                             ![i].out = After(Flow(Count(k), Count(M), "none"), s.deliveredSeq)]
    BY <1>5, <1>6, <1>7, <2>1
  <2> QED BY <1>1, <1>8, <2>2
<1>10. /\ IsSub(t) /\ t.live = s.live /\ t.skip = k /\ t.base = Count(k) /\ t.shares = s.shares
       /\ t.deliveredSeq = s.deliveredSeq /\ t.exitSent = s.exitSent /\ t.replaying /\ t.read
       /\ t.pending = s.pending /\ t.out = After(Flow(Count(k), Count(M), "none"), s.deliveredSeq)
  BY <1>2, <1>4, <1>5, <1>6, <1>8 DEF IsSub
<1>11. /\ Len(index') \in Nat /\ Len(index) <= Len(index') /\ index' \in Seq(Nat) /\ Len(index') <= job.out
       /\ \A j \in 1..Len(index') : index'[j] = Count(j)
  <2>1. CASE s.shares /\ Len(index) < Len(log)
    <3>1. PICK g : g = [n \in 1..(Len(log) - Len(index)) |->
                          Count(k) + Len(Parse(SubSeq(log, k + 1, Len(index) + n)))]
      OBVIOUS
    <3>2. index' = index \o g
      <4>1. index' = index \o [n \in 1..(Len(log) - Len(index)) |->
                                 s.base + Len(Parse(SubSeq(log, s.skip + 1, Len(index) + n)))]
        BY <1>1, <2>1 DEF ReplayReads
      <4> QED BY <1>5, <1>6, <3>1, <4>1
    <3>3. k <= Len(index)
      BY <1>6, <2>1
    <3>4. /\ index \o g \in Seq(Nat) /\ Len(index \o g) = Len(log)
          /\ \A j \in 1..Len(log) : (index \o g)[j] = Count(j)
      BY <1>3, <2>1, <3>1, <3>3, IndexGrows
    <3>5. index' \in Seq(Nat) /\ Len(index') = Len(log) /\ \A j \in 1..Len(log) : index'[j] = Count(j)
      BY <3>2, <3>4, Zenon
    <3> QED BY <1>3, <2>1, <3>5
  <2>2. CASE ~(s.shares /\ Len(index) < Len(log))
    <3>1. index' = index
      BY <1>1, <2>2 DEF ReplayReads
    <3> QED BY <1>3, <3>1 DEF IndexInv
  <2> QED BY <2>1, <2>2
<1>12. ListInv' /\ subs'[i] = t /\ \A j \in DOMAIN subs : j # i => subs'[j] = subs[j]
  <2>1. IsSub(t) /\ (t.live <=> i = current) /\ t.skip <= job.out /\ t.base = Count(t.skip)
        /\ (t.shares => t.skip <= Len(index))
    BY <1>4, <1>6, <1>10
  <2>2. current' = current /\ job' = job
    BY <1>2
  <2> QED BY <1>3, <1>9, <1>11, <2>1, <2>2, ListUpdate
<1>13. ClientInv'
  <2>1. CASE i # current
    <3>1. current # 0 => subs'[current] = subs[current]
      BY <1>4, <1>12, <2>1
    <3> QED BY <1>2, <1>3, <3>1, OthersHold
  <2>2. CASE i = current
    <3>1. current # 0
      <4>1. i # 0
        BY <1>3 DEF ListInv
      <4> QED BY <2>2, <4>1
    <3>2. PICK n \in Nat, e \in Verdicts : ClientHolds(n, e)
      BY DEF ViewInv, ClientInv
    <3>3. s.deliveredSeq = n /\ e = "none" /\ CatchesUp(s, n) /\ view = Held(n, e) /\ n <= Count(job.out)
      BY <1>1, <1>2, <2>2, <3>1, <3>2 DEF ClientHolds
    <3>4. PICK p \in Nat, q \in Nat, x \in Verdicts : Buffered(s, p, q, x) /\ Covered(s, n, p, q)
      BY <3>3 DEF CatchesUp
    <3>5. p <= q /\ q <= Count(Len(log)) /\ Count(k) <= n
      BY <1>2, <1>6, <3>3, <3>4 DEF Buffered, Covered, CatchesUp
    <3>6. /\ Count(k) \in Nat /\ Count(M) \in Nat /\ Count(k) <= Count(M) /\ Count(Len(log)) <= Count(M)
          /\ Count(M) <= Count(job.out) /\ Count(Len(log)) \in Nat
      <4>1. M <= Len(Weight)
        BY <1>3, <1>7, TaskConstants, LenProperties
      <4> QED BY <1>3, <1>7, <4>1, CountGrows
    <3> DEFINE d == Later(Count(M), n)
    <3>7. t.out = Flow(n, d, "none")
      <4>1. After(Flow(Count(k), Count(M), "none"), n) = Flow(n, Later(Count(M), n), "none")
        BY <3>5, <3>6, AfterFlow
      <4> QED BY <1>10, <3>3, <4>1
    <3>8. d \in Nat /\ n <= d /\ p <= d /\ d <= Count(job.out)
      BY <1>3, <3>3, <3>5, <3>6 DEF Later
    <3> HIDE DEF d
    <3>9. CatchesUp(t, n)
      <4>1. Buffered(t, p, q, x)
        BY <1>10, <3>4 DEF Buffered
      <4>2. Covered(t, n, p, q)
        BY <1>10, <3>7, <3>8 DEF Covered
      <4>3. ~t.exitSent /\ t.base <= n
        BY <1>10, <3>3, <3>5 DEF CatchesUp
      <4> QED BY <4>1, <4>2, <4>3 DEF CatchesUp
    <3>10. CatchesUp(t, n)'
      <4>1. Onward
        BY <1>2, <1>3 DEF Onward, Absent
      <4> QED BY <1>3, <3>9, <4>1, CatchesUpFrame
    <3>11. ClientHolds(n, e)'
      <4>1. view' = Held(n, e) /\ Held(n, e)' = Held(n, e)
        BY <1>2, <3>3 DEF Held, Seen, RunEvents, Ends, Parse, Lines
      <4>2. n <= Count(job'.out) /\ Count(job.out)' = Count(job'.out)
        <5>1. n <= Count(job'.out)
          BY <1>2, <3>3
        <5> QED BY <5>1 DEF Count, Parse, Lines
      <4>3. current' = current /\ subs'[current'] = t
        BY <1>2, <1>12, <2>2
      <4>4. CatchesUp(subs[current], n)'
        BY <3>10, <4>3 DEF CatchesUp, Buffered, Covered
      <4> QED BY <1>10, <3>3, <4>1, <4>2, <4>3, <4>4 DEF ClientHolds
    <3> QED BY <3>11 DEF ClientInv, Verdicts
  <2> QED BY <2>1, <2>2
<1>14. IndexInv'
  <2>1. Len(index') <= job'.out
    BY <1>2, <1>11
  <2> QED BY <1>11, <2>1 DEF IndexInv, Count, Parse, Lines
<1>15. QuietInv' /\ AnnounceInv'
  BY <1>2 DEF ViewInv, QuietInv, AnnounceInv, Absent, NewView
<1> QED BY <1>3, <1>12, <1>13, <1>14, <1>15 DEF ViewInv

LEMMA FlowAlone ==
  ASSUME NEW a \in Nat, NEW b \in Nat, a <= b, NEW x
  PROVE  Joined(Flow(a, b, x), <<>>) = Flow(a, b, x)
<1> DEFINE f == Flow(a, b, x)
           n == (b - a) + Ends(x)
           T == {f[i] : i \in 1..n}
<1>1. n \in Nat
  BY DEF Ends
<1>2. f = [i \in 1..n |-> f[i]]
  BY DEF Flow
<1> HIDE DEF f, n
<1>3. f \in [1..n -> T]
  <2>1. \A i \in 1..n : f[i] \in T
    OBVIOUS
  <2> HIDE DEF T
  <2> QED BY <1>2, <2>1
<1> HIDE DEF T
<1>4. f \in Seq(T) /\ Len(f) = n
  BY <1>1, <1>3, FunctionSeq
<1> DEFINE h == f \o <<>>
<1>5. <<>> \in Seq(T) /\ Len(<<>>) = 0
  OBVIOUS
<1>6. h \in Seq(T) /\ Len(h) = n + 0 /\ \A i \in 1..(n + 0) : h[i] = IF i <= n THEN f[i] ELSE <<>>[i - n]
  BY <1>4, <1>5, ConcatProperties
<1> HIDE DEF h
<1>7. h = [i \in 1..n |-> h[i]] /\ \A i \in 1..n : h[i] = f[i]
  BY <1>1, <1>6
<1>8. h = f
  BY <1>2, <1>7
<1> QED BY <1>8 DEF f, h, Joined

\* What a replay hands over: what it has read, and what was published meanwhile and is newer.
Handed(s) == s.out \o (IF s.out = <<>> THEN s.pending ELSE After(s.pending, Last(s.out).seq))

HandsOver(s, n, d, q, x, a, b) == a <= n /\ a <= b /\ q <= b /\ (b = q \/ b = d) /\ Handed(s) = Flow(a, b, x)

LEMMA ReplayJoins ==
  ASSUME NEW n \in Nat, NEW d \in Nat, NEW p \in Nat, NEW q \in Nat, n <= d, p <= d, p <= q, NEW x, NEW s,
         s.out = Flow(n, d, "none"), s.pending = Flow(p, q, x)
  PROVE  \E a \in Nat, b \in Nat : HandsOver(s, n, d, q, x, a, b)
<1>1. CASE n = d
  <2>1. s.out = <<>>
    BY <1>1, FlowEnd
  <2>2. Flow(p, p, "none") = <<>>
    BY ExitFlow
  <2>3. Joined(Flow(p, p, "none"), Flow(p, q, x)) = Flow(p, q, x)
    <3>1. p <= p
      OBVIOUS
    <3> QED BY <3>1, FlowJoin
  <2>4. s.out \o s.pending = Flow(p, q, x)
    <3>1. Joined(s.out, s.pending) = Flow(p, q, x)
      BY <2>1, <2>2, <2>3
    <3> QED BY <3>1 DEF Joined
  <2>5. Handed(s) = Flow(p, q, x)
    BY <2>1, <2>4 DEF Handed
  <2>6. p <= n /\ p <= q /\ q <= q /\ (q = q \/ q = d)
    BY <1>1
  <2> QED BY <2>5, <2>6 DEF HandsOver
<1>2. CASE n # d
  <2>1. s.out # <<>> /\ Last(s.out).seq = d
    BY <1>2, FlowEnd
  <2> DEFINE b == Later(q, d)
  <2>2. b \in Nat /\ d <= b /\ q <= b /\ n <= b /\ (b = q \/ b = d)
    BY DEF Later
  <2>3. After(Flow(p, q, x), d) = Flow(d, Later(q, d), x)
    BY AfterFlow
  <2> HIDE DEF b
  <2>4. Joined(Flow(n, d, "none"), Flow(d, b, x)) = Flow(n, b, x)
    BY <2>2, FlowJoin
  <2>5. s.out \o After(s.pending, d) = Flow(n, b, x)
    <3>1. Joined(s.out, After(s.pending, d)) = Flow(n, b, x)
      BY <2>3, <2>4 DEF b
    <3> QED BY <3>1 DEF Joined
  <2>6. Handed(s) = Flow(n, b, x)
    BY <2>1, <2>5 DEF Handed
  <2>7. n <= n
    OBVIOUS
  <2> QED BY <2>2, <2>6, <2>7 DEF HandsOver
<1> QED BY <1>1, <1>2

\* The end that the row knows of, when nothing that was published tells it.
Known(x) == IF x = "none" /\ row.status \in Terminal THEN row.status ELSE x

LEMMA KnownFlow ==
  ASSUME NEW a \in Nat, NEW b \in Nat, a <= b, NEW x \in Verdicts
  PROVE  Flow(a, b, x) \o KnownEnd(Flow(a, b, x)) = Flow(a, b, Known(x))
<1>1. Exits(Flow(a, b, x)) = Flow(b, b, x) /\ (Flow(b, b, x) = <<>> <=> x = "none")
  BY ExitsFlow, ExitFlow
<1>2. CASE x = "none" /\ row.status \in Terminal
  <2>1. PICK y : y = row.status
    OBVIOUS
  <2>2. y # "none"
    BY <1>2, <2>1
  <2>3. KnownEnd(Flow(a, b, x)) = <<ExitFrame(y)>>
    BY <1>1, <1>2, <2>1 DEF KnownEnd
  <2>4. Flow(b, b, y) = <<ExitFrame(y)>>
    BY <2>2, ExitFlow
  <2>5. Joined(Flow(a, b, "none"), Flow(b, b, y)) = Flow(a, b, y)
    <3>1. b <= b
      OBVIOUS
    <3> QED BY <3>1, FlowJoin
  <2>6. Joined(Flow(a, b, x), KnownEnd(Flow(a, b, x))) = Flow(a, b, y)
    BY <1>2, <2>3, <2>4, <2>5
  <2>7. Known(x) = y
    BY <1>2, <2>1 DEF Known
  <2> QED BY <2>6, <2>7 DEF Joined
<1>3. CASE ~(x = "none" /\ row.status \in Terminal)
  <2>1. KnownEnd(Flow(a, b, x)) = <<>>
    BY <1>1, <1>3 DEF KnownEnd
  <2>2. Joined(Flow(a, b, x), <<>>) = Flow(a, b, x)
    BY FlowAlone
  <2>3. Known(x) = x
    BY <1>3 DEF Known
  <2>4. Joined(Flow(a, b, x), KnownEnd(Flow(a, b, x))) = Flow(a, b, Known(x))
    BY <2>1, <2>2, <2>3
  <2> QED BY <2>4 DEF Joined
<1> QED BY <1>2, <1>3

\* A subscription that has caught up.
CaughtUp(n) == [Gone EXCEPT !.live = TRUE, !.deliveredSeq = n]

LEMMA ReplayDeliversView ==
  ASSUME Core, Core', ViewInv, NEW i \in DOMAIN subs, ReplayDelivers(i)
  PROVE  ViewInv'
<1>1. PICK s : s = subs[i]
  OBVIOUS
<1>2. /\ s.replaying /\ s.read
      /\ UNCHANGED <<row, job, log, start, pump, current, index>>
  BY <1>1 DEF ReplayDelivers
<1>3. /\ job.out \in Nat /\ Count(job.out) \in Nat /\ IndexInv /\ ListInv /\ LogBound /\ Len(index) \in Nat
      /\ LogBound' /\ IsRow(row) /\ current' = current /\ job' = job /\ Len(index') \in Nat /\ Len(index) <= Len(index')
  BY <1>2, CoreTypes, LenProperties DEF ViewInv, IndexInv, LogBound
<1>4. IsSub(s) /\ (s.live <=> i = current) /\ (current # 0 => current \in DOMAIN subs)
  <2>1. PICK N \in Nat : /\ subs = [j \in 1..N |-> subs[j]] /\ current \in 0..N
                         /\ \A j \in 1..N : IsSub(subs[j]) /\ Indexed(subs[j]) /\ (subs[j].live <=> j = current)
    BY <1>3 DEF ListInv
  <2>2. DOMAIN subs = 1..N
    BY <2>1
  <2> QED BY <1>1, <2>1, <2>2
<1>5. ClientInv' /\ ListInv'
  <2>1. CASE ~s.live
    <3>1. subs' = [subs EXCEPT ![i] = Gone] /\ view' = view
      BY <1>1, <2>1 DEF ReplayDelivers
    <3>2. PICK t : t = Gone
      OBVIOUS
    <3>3. IsSub(t) /\ (t.live <=> i = current) /\ t.skip <= job.out /\ t.base = Count(t.skip)
          /\ (t.shares => t.skip <= Len(index)) /\ subs' = [subs EXCEPT ![i] = t]
      BY <1>3, <1>4, <2>1, <3>1, <3>2, GoneType, CountNothing
    <3>4. ListInv' /\ \A j \in DOMAIN subs : j # i => subs'[j] = subs[j]
      BY <1>3, <3>3, ListUpdate
    <3>5. current # 0 => subs'[current] = subs[current]
      BY <1>4, <2>1, <3>4
    <3>6. ClientInv'
      BY <1>2, <1>3, <3>1, <3>5, OthersHold
    <3> QED BY <3>4, <3>6
  <2>2. CASE s.live
    <3>1. i = current /\ current # 0
      <4>1. i # 0
        BY <1>3 DEF ListInv
      <4> QED BY <1>4, <2>2, <4>1
    <3>2. PICK n \in Nat, e \in Verdicts : ClientHolds(n, e)
      BY DEF ViewInv, ClientInv
    <3>3. s.deliveredSeq = n /\ e = "none" /\ CatchesUp(s, n) /\ view = Held(n, "none") /\ n <= Count(job.out)
      BY <1>1, <1>2, <3>1, <3>2 DEF ClientHolds
    <3>4. PICK p \in Nat, q \in Nat, x \in Verdicts : Buffered(s, p, q, x) /\ Covered(s, n, p, q)
      BY <3>3 DEF CatchesUp
    <3>5. PICK d \in Nat : n <= d /\ p <= d /\ d <= Count(job.out) /\ s.out = Flow(n, d, "none")
      BY <1>2, <3>4 DEF Covered
    <3>6. /\ p <= q /\ q <= Count(job.out) /\ s.pending = Flow(p, q, x) /\ Reached(q)
          /\ (x # "none" /\ ~Absent => row.status = x)
      BY <3>4 DEF Buffered
    <3>7. PICK a \in Nat, b \in Nat : HandsOver(s, n, d, q, x, a, b)
      <4>1. n <= d /\ p <= d /\ p <= q /\ s.out = Flow(n, d, "none") /\ s.pending = Flow(p, q, x)
        BY <3>5, <3>6
      <4> QED BY <4>1, ReplayJoins
    <3>8. a <= n /\ a <= b /\ q <= b /\ (b = q \/ b = d) /\ Handed(s) = Flow(a, b, x)
      BY <3>7 DEF HandsOver
    <3> PICK y : y = Known(x)
      OBVIOUS
    <3> DEFINE m == Later(b, n)
    <3>9. Deliver(i, CaughtUp(n), Flow(a, b, y))
      <4>1. Deliver(i, CaughtUp(s.deliveredSeq), Handed(s) \o KnownEnd(Handed(s)))
        BY <1>1, <2>2 DEF ReplayDelivers, CaughtUp, Handed
      <4>2. Deliver(i, CaughtUp(n), Flow(a, b, x) \o KnownEnd(Flow(a, b, x)))
        BY <3>3, <3>8, <4>1
      <4>3. Flow(a, b, x) \o KnownEnd(Flow(a, b, x)) = Flow(a, b, Known(x))
        BY <3>8, KnownFlow
      <4> QED BY <4>2, <4>3
    <3>10. y \in Verdicts /\ (y # "none" /\ ~Absent => row.status = y)
      BY <3>6 DEF Known, Verdicts
    <3>11. PICK c : c = CaughtUp(n)
      OBVIOUS
    <3>12. /\ IsSub(c) /\ c.live /\ c.deliveredSeq = n /\ c.exitSent = FALSE /\ c.skip = 0 /\ c.base = 0
           /\ ~c.shares /\ ~c.replaying
      BY <3>11, GoneType DEF CaughtUp, IsSub
    <3>13. /\ view' = Held(m, y)
           /\ subs' = [subs EXCEPT ![i] = SentTo(c, m, y # "none")]
      <4>1. Deliver(i, c, Flow(a, b, y)) /\ a <= n /\ a <= b /\ c.exitSent \in BOOLEAN /\ c.live /\ c.deliveredSeq = n
        BY <3>8, <3>9, <3>11, <3>12
      <4>2. PICK f : f = "none"
        OBVIOUS
      <4>3. (c.exitSent <=> f # "none") /\ view = Held(n, f) /\ Told(f, y) = y
        BY <3>3, <3>12, <4>2 DEF Told
      <4>4. /\ view' = Held(Later(b, n), Told(f, y))
            /\ subs' = [subs EXCEPT ![i] = SentTo(c, Later(b, n), Told(f, y) # "none")]
        BY <4>1, <4>3, DeliverFlow
      <4> QED BY <4>3, <4>4
    <3>14. m \in Nat /\ q <= m /\ m <= Count(job.out)
      BY <3>3, <3>5, <3>6, <3>8 DEF Later
    <3> HIDE DEF m
    <3>15. Reached(m) /\ (y # "none" /\ ~Absent => row.seq <= m)
      <4>1. row.seq \in Nat /\ (pump.at # "off" => pump.task.seq \in Nat)
        <5>1. row.seq = Count(row.cursor) /\ row.cursor \in Nat /\ row.cursor <= Len(Weight)
          BY <1>3, CoreTypes, TaskConstants, LenProperties DEF IsRow
        <5>2. Count(row.cursor) \in Nat
          BY <5>1, CountType
        <5>3. pump.at # "off" => /\ pump.task.seq = Count(pump.task.cursor) /\ pump.task.cursor \in Nat
                                 /\ pump.task.cursor <= Len(Weight)
          BY CoreTypes DEF IsRow
        <5>4. pump.at # "off" => Count(pump.task.cursor) \in Nat
          BY <5>3, CountType
        <5> QED BY <5>1, <5>2, <5>3, <5>4
      <4> QED BY <3>6, <3>14, <4>1 DEF Reached
    <3>16. PICK t : t = SentTo(c, m, y # "none")
      OBVIOUS
    <3>17. /\ IsSub(t) /\ t.live /\ t.skip = 0 /\ t.base = 0 /\ ~t.shares /\ ~t.replaying
           /\ t.deliveredSeq = m /\ (t.exitSent <=> y # "none")
      BY <3>12, <3>14, <3>16 DEF SentTo, IsSub
    <3>18. ListInv' /\ subs'[i] = t
      <4>1. (t.live <=> i = current) /\ t.skip <= job.out /\ t.base = Count(t.skip)
            /\ (t.shares => t.skip <= Len(index)) /\ subs' = [subs EXCEPT ![i] = t]
        BY <1>3, <3>1, <3>13, <3>16, <3>17, CountNothing
      <4> QED BY <1>3, <3>17, <4>1, ListUpdate
    <3>19. ClientHolds(m, y)'
      <4>1. view' = Held(m, y) /\ Held(m, y)' = Held(m, y)
        BY <3>13 DEF Held, Seen, RunEvents, Ends, Parse, Lines
      <4>2. m <= Count(job'.out) /\ Count(job.out)' = Count(job'.out)
        <5>1. m <= Count(job'.out)
          BY <1>2, <3>14
        <5> QED BY <5>1 DEF Count, Parse, Lines
      <4>3. subs'[current'] = t
        BY <1>2, <3>1, <3>18
      <4>4. y # "none" /\ ~Absent' => row'.status = y /\ row'.seq <= m
        BY <1>2, <3>10, <3>15 DEF Absent
      <4>5. Reached(m)'
        BY <1>2, <3>15 DEF Reached, Absent
      <4> QED BY <3>17, <4>1, <4>2, <4>3, <4>4, <4>5 DEF ClientHolds
    <3> QED BY <3>10, <3>14, <3>18, <3>19 DEF ClientInv, Verdicts
  <2> QED BY <2>1, <2>2
<1>6. IndexInv'
  <2>1. index' \in Seq(Nat) /\ Len(index') <= job'.out /\ \A j \in 1..Len(index') : index'[j] = Count(j)
    BY <1>2 DEF ViewInv, IndexInv
  <2> QED BY <2>1 DEF IndexInv, Count, Parse, Lines
<1>7. QuietInv' /\ AnnounceInv'
  <2>1. CASE start = "answered"
    BY <1>2, <2>1 DEF ViewInv, QuietInv, AnnounceInv, Absent
  <2>2. CASE start # "answered"
    <3>1. current = 0 /\ view = NewView
      BY <2>2 DEF ViewInv, QuietInv
    <3>2. ~s.live
      BY <1>3, <1>4, <3>1 DEF ListInv
    <3>3. view' = view
      BY <1>1, <3>2 DEF ReplayDelivers
    <3> QED BY <1>2, <3>1, <3>3 DEF ViewInv, QuietInv, AnnounceInv, Absent, NewView
  <2> QED BY <2>1, <2>2
<1> QED BY <1>3, <1>5, <1>6, <1>7 DEF ViewInv

-----------------------------------------------------------------------------
(* The view of the client.                                                   *)

LEMMA ViewInitial == Init => ViewInv
<1> SUFFICES ASSUME Init PROVE ViewInv
  OBVIOUS
<1>1. /\ row = NoRow /\ job.out = 0 /\ log = <<>> /\ start = "idle" /\ pump.at = "off" /\ subs = <<>>
      /\ current = 0 /\ index = <<>> /\ view = Held(0, "none")
  BY NewHeld, IdleType DEF Init, NoJob
<1>2. LogBound /\ IndexInv /\ QuietInv /\ AnnounceInv
  BY <1>1, NewHeld DEF LogBound, IndexInv, QuietInv, AnnounceInv
<1>3. ListInv
  <2>1. subs = [i \in 1..0 |-> subs[i]] /\ current \in 0..0 /\ \A i \in 1..0 : FALSE
    BY <1>1
  <2> QED BY <2>1 DEF ListInv
<1>4. ClientInv
  <2>1. 0 <= Count(job.out)
    BY <1>1, CountNothing
  <2>2. ClientHolds(0, "none")
    BY <1>1, <2>1 DEF ClientHolds
  <2>3. 0 \in Nat /\ "none" \in Verdicts
    BY DEF Verdicts
  <2> QED BY <2>2, <2>3 DEF ClientInv
<1> QED BY <1>2, <1>3, <1>4 DEF ViewInv

LEMMA ViewInductive == IInv /\ LogInv /\ SeqInv /\ ViewInv /\ [Next]_vars => ViewInv'
<1> SUFFICES ASSUME IInv, LogInv, SeqInv, ViewInv, [Next]_vars PROVE ViewInv'
  OBVIOUS
<1>1. Core /\ Core'
  BY IInvInductive, LogInductive, SeqInductive DEF Core
<1>2. CASE StartStep
  <2>1. CASE RunTask \/ JobAccepted \/ StartThrows \/ ClearKill \/ ClearRelease
    BY <1>1, <2>1, QuietSteps
  <2>2. CASE PersistStart
    BY <1>1, <2>2, StartView, DeletedView
  <2> QED BY <1>2, <2>1, <2>2 DEF StartStep
<1>3. CASE PumpProgress
  <2>1. CASE ReadAnswers \/ KillOverdue
    BY <1>1, <2>1, QuietSteps
  <2>2. CASE TruncateLog \/ AppendStdout \/ AdvanceAndPersist
    BY <1>1, <2>2, TruncateView, AppendView, AdvanceView
  <2>3. CASE Finish \/ AnnounceExit \/ ReleaseAndForget
    BY <1>1, <2>3, FinishView, AnnounceView, ReleaseView
  <2> QED BY <1>3, <2>1, <2>2, <2>3 DEF PumpProgress
<1>4. CASE PumpFailure
  <2>1. CASE ReadRetries
    BY <1>1, <2>1, QuietSteps
  <2>2. CASE ReadThrows \/ LogThrows \/ KillThrows
    <3>1. FailWith
      BY <2>2 DEF ReadThrows, LogThrows, KillThrows
    <3>2. CASE deleted
      BY <1>1, <3>1, <3>2, DeletedView
    <3>3. CASE ~deleted
      BY <1>1, <2>2, <3>3, FailView
    <3> QED BY <3>2, <3>3
  <2> QED BY <1>4, <2>1, <2>2 DEF PumpFailure
<1>5. CASE ReplayStep
  <2>1. PICK i \in DOMAIN subs : ReplayReads(i) \/ ReplayDelivers(i)
    BY <1>5 DEF ReplayStep
  <2> QED BY <1>1, <2>1, ReplayReadsView, ReplayDeliversView
<1>6. CASE \E fresh \in BOOLEAN : Subscribe(fresh)
  BY <1>1, <1>6, SubscribeView
<1>7. CASE Unsubscribe
  BY <1>1, <1>7, UnsubscribeView
<1>8. CASE CrashAndBoot
  BY <1>1, <1>8, CrashView
<1>9. CASE JobStep \/ Cancel \/ CancelKill \/ DeadlinePasses \/ DeleteSandbox \/ UNCHANGED vars
  BY <1>1, <1>9, QuietSteps
<1> QED BY <1>2, <1>3, <1>4, <1>5, <1>6, <1>7, <1>8, <1>9 DEF Next

LEMMA ViewShows ==
  ASSUME Core, ViewInv
  PROVE  ViewIsExact
<1>1. PICK n \in Nat, e \in Verdicts : ClientHolds(n, e)
  BY DEF ViewInv, ClientInv
<1>2. /\ view.events = Seen(n) /\ view.exit = e /\ view.exits = Ends(e) /\ n <= Count(job.out)
      /\ (e # "none" /\ ~Absent => row.status = e /\ row.seq <= n)
  BY <1>1 DEF ClientHolds, Held
<1>3. Len(Seen(n)) = n /\ \A i \in 1..n : Seen(n)[i] = <<i, RunEvents[i]>>
  BY DEF Seen
<1>4. job.out \in Nat /\ job.out <= Len(Weight) /\ Count(job.out) \in Nat
  BY CoreTypes
<1>5. SeenIsOutput
  <2>1. ASSUME NEW i \in 1..n PROVE Seen(n)[i] = <<i, Parse(Lines(0, job.out))[i]>>
    <3>1. i \in 1..Count(job.out)
      BY <1>2, <1>4
    <3>2. Parse(Lines(0, job.out))[i] = RunEvents[i]
      BY <1>4, <3>1, OutputPrefix
    <3> QED BY <1>3, <3>2
  <2> QED BY <1>2, <1>3, <2>1 DEF SeenIsOutput, Count
<1>6. ExitIsComplete
  BY <1>2, <1>3 DEF ExitIsComplete, Ends, Absent
<1> QED BY <1>5, <1>6 DEF ViewIsExact

(* The inductive invariant of the channel: a client holds the first n        *)
(* events and at most one verdict; a subscription that replays lacks nothing *)
(* between what it has read and what it keeps for later, and one that        *)
(* follows the pump is never behind it, nor behind the row (Subscription,    *)
(* deliver, TaskRunsService).                                                *)
THEOREM ViewInvariant == Spec => []ViewInv
BY ViewInitial, ViewInductive, InitIInv, IInvInductive, LogInitial, LogInductive, SeqInitial, SeqInductive, PTL
   DEF Spec

(* What a client receives, over subscriptions, replays and restarts, is the  *)
(* beginning of the job's events, each once and in order, and its exit comes *)
(* once, with the row's verdict, after all the events the row counts.        *)
THEOREM ViewExact == Spec => []ViewIsExact
<1>1. IInv /\ LogInv /\ SeqInv /\ ViewInv => ViewIsExact
  BY ViewShows DEF Core
<1> QED BY <1>1, ViewInvariant, InitIInv, IInvInductive, LogInitial, LogInductive, SeqInitial, SeqInductive, PTL
       DEF Spec

-----------------------------------------------------------------------------
(* The terminals of an interactive task: what a stream, its batcher, the   *)
(* attachment and the detector hold.                                       *)

\* The types of conn, term and obs.
Handlers == [pc : {"new", "binding", "locating", "opening", "opened", "attached", "over"},
             target : Target, create : BOOLEAN, connected : BOOLEAN,
             told : {"nothing", "session", "failed", "exit"}]
Streams == [stream : {"none", "open", "ended", "detached", "over"}, pend : Seq(Kind),
            read : 0..MaxChunks, shown : 0..MaxChunks]
Views == [tail : Kind \cup {"blank"}, waiting : BOOLEAN, answered : BOOLEAN]

Opening == {"new", "binding", "locating", "opening"}
Live == {"open", "ended"}

\* Where the handler of a connection is, its stream and its attachment.
HeldBy(c) ==
  /\ conn[c].pc \in Opening => term[c].stream = "none"
  /\ conn[c].pc \in Opening \cup {"opened"} =>
       /\ c \notin attached /\ conn[c].told = "nothing"
       /\ term[c].pend = << >> /\ term[c].read = 0 /\ term[c].shown = 0
  /\ conn[c].pc = "opened" => term[c].stream \in Live
  /\ c \in attached => conn[c].pc = "attached" /\ conn[c].connected /\ conn[c].told = "session"
  /\ term[c].stream \in Live <=> c \in attached \/ conn[c].pc = "opened"

\* What was read is on the screen or in the batcher.
Counted(c) ==
  /\ c \in attached => term[c].shown + Len(term[c].pend) = term[c].read
  /\ conn[c].told = "exit" => term[c].shown = term[c].read

\* A prompt that was read is one that nobody has answered since.
Asks(c) ==
  /\ term[c].pend # << >> => ~obs[c].answered
  /\ obs[c].tail = "prompt" => ~obs[c].answered
  /\ obs[c].waiting => obs[c].tail = "prompt"

USE DEF Handlers, Streams, Views

Fine(c) == HeldBy(c) /\ Counted(c) /\ Asks(c)

WaitingIsKept == waiting <=> attached # {} /\ \A c \in attached : obs[c].waiting

TerminalInv == SessionsTypeOK /\ WaitingIsKept /\ \A c \in Conn : Fine(c)

\* A step that leaves a connection alone, unless it ends the session behind its stream.
Same(c) ==
  /\ conn'[c] = conn[c] /\ obs'[c] = obs[c] /\ (c \in attached' <=> c \in attached)
  /\ \/ term'[c] = term[c]
     \/ term[c].stream = "open" /\ term'[c] = [term[c] EXCEPT !.stream = "ended"]

LEMMA SameFine ==
  ASSUME SessionsTypeOK, NEW c \in Conn, Fine(c), Same(c)
  PROVE  Fine(c)'
<1> USE DEF Same, Fine, Live, Opening
<1>1. /\ term'[c].pend = term[c].pend /\ term'[c].read = term[c].read
      /\ term'[c].shown = term[c].shown
      /\ term'[c].stream \in Live <=> term[c].stream \in Live
      /\ term[c].stream = "none" => term'[c].stream = "none"
  BY DEF SessionsTypeOK
<1>2. HeldBy(c)'
  BY <1>1 DEF HeldBy
<1>3. Counted(c)'
  BY <1>1 DEF Counted
<1>4. Asks(c)'
  BY <1>1 DEF Asks
<1> QED BY <1>2, <1>3, <1>4

\* What the detector knows stays, or all of it is looked at again.
Looks == UNCHANGED seen \/ Recompute(attached', obs')

LEMMA LooksWaiting ==
  ASSUME WaitingIsKept, Looks
  PROVE  WaitingIsKept'
BY DEF WaitingIsKept, Looks, Recompute, seen

LEMMA OneMoves ==
  ASSUME TerminalInv, NEW c \in Conn, SessionsTypeOK', Looks, Fine(c)', \A d \in Conn \ {c} : Same(d)
  PROVE  TerminalInv'
<1>1. \A d \in Conn : Fine(d)'
  BY SameFine DEF TerminalInv
<1>2. WaitingIsKept'
  BY LooksWaiting DEF TerminalInv
<1> QED BY <1>1, <1>2 DEF TerminalInv

LEMMA NoneMoves ==
  ASSUME TerminalInv, SessionsTypeOK', Looks, \A d \in Conn : Same(d)
  PROVE  TerminalInv'
<1>1. \A d \in Conn : Fine(d)'
  BY SameFine DEF TerminalInv
<1>2. WaitingIsKept'
  BY LooksWaiting DEF TerminalInv
<1> QED BY <1>1, <1>2 DEF TerminalInv

LEMMA TerminalInit == SessionsInit => TerminalInv
<1> SUFFICES ASSUME SessionsInit PROVE TerminalInv
  OBVIOUS
<1> USE DEF SessionsInit
<1>1. SessionsTypeOK
  <2>1. << >> \in Seq(Kind) /\ "agent" \in Target
    BY DEF Target
  <2>2. 0 \in 0..MaxChunks /\ 0 \in 0..MaxStops
    BY TerminalConstants
  <2>3. term \in [Conn -> Streams]
    BY <2>1, <2>2
  <2>4. conn \in [Conn -> Handlers]
    BY <2>1
  <2> QED BY <2>2, <2>3, <2>4 DEF SessionsTypeOK
<1>2. WaitingIsKept
  BY DEF WaitingIsKept
<1>3. ASSUME NEW c \in Conn PROVE Fine(c)
  BY DEF Fine, HeldBy, Counted, Asks, Opening, Live
<1> QED BY <1>1, <1>2, <1>3 DEF TerminalInv

-----------------------------------------------------------------------------
(* The workflow.                                                           *)

\* Ending sessions touches a connection in its stream alone.
LEMMA EndSame ==
  ASSUME SessionsTypeOK, NEW T \in SUBSET Target, SessionsEnd(T)
  PROVE  /\ tmux' \in [Target -> {"none", "plain", "prompt"}]
         /\ DOMAIN term' = Conn
         /\ \A c \in Conn : \/ term'[c] = term[c]
                            \/ term[c].stream = "open" /\ term'[c] = [term[c] EXCEPT !.stream = "ended"]
BY DEF SessionsEnd, SessionsTypeOK

LEMMA EndedType ==
  ASSUME SessionsTypeOK, term' = [c \in Conn |-> term'[c]],
         \A c \in Conn : \/ term'[c] = term[c]
                         \/ term[c].stream = "open" /\ term'[c] = [term[c] EXCEPT !.stream = "ended"]
  PROVE  term' \in [Conn -> Streams]
<1>1. ASSUME NEW c \in Conn
      PROVE  term'[c] \in Streams
  <2>1. term[c] \in Streams
    BY DEF SessionsTypeOK
  <2> QED BY <2>1
<1> QED BY <1>1

\* Every step of the workflow, and every end of a session.
LEMMA BoxInv ==
  ASSUME TerminalInv, UNCHANGED <<conn, attached, obs, waiting>>,
         closing' \in [Shell -> {"no", "asked", "killed"}],
         prov' \in {"creating", "bound", "starting", "spawning", "running", "failed"},
         prompt' \in {"pending", "consumed"}, stops' \in 0..MaxStops,
         \/ UNCHANGED term /\ tmux' \in [Target -> {"none", "plain", "prompt"}]
         \/ \E T \in SUBSET Target : SessionsEnd(T)
  PROVE  TerminalInv'
<1>1. /\ term' \in [Conn -> Streams]
      /\ tmux' \in [Target -> {"none", "plain", "prompt"}]
      /\ \A c \in Conn : \/ term'[c] = term[c]
                         \/ term[c].stream = "open" /\ term'[c] = [term[c] EXCEPT !.stream = "ended"]
  <2>1. CASE UNCHANGED term /\ tmux' \in [Target -> {"none", "plain", "prompt"}]
    BY <2>1 DEF TerminalInv, SessionsTypeOK
  <2>2. ASSUME NEW T \in SUBSET Target, SessionsEnd(T)
        PROVE  /\ term' = [c \in Conn |-> term'[c]]
               /\ tmux' \in [Target -> {"none", "plain", "prompt"}]
               /\ \A c \in Conn : \/ term'[c] = term[c]
                                  \/ term[c].stream = "open" /\ term'[c] = [term[c] EXCEPT !.stream = "ended"]
    <3>1. term' = [c \in Conn |-> term'[c]]
      BY <2>2 DEF SessionsEnd
    <3> QED BY <2>2, <3>1, EndSame DEF TerminalInv
  <2> QED BY <2>1, <2>2, EndedType DEF TerminalInv
<1>2. SessionsTypeOK'
  BY <1>1 DEF TerminalInv, SessionsTypeOK
<1>3. \A d \in Conn : Same(d)
  BY <1>1 DEF Same
<1> QED BY <1>2, <1>3, NoneMoves DEF Looks, seen

LEMMA WorkflowInv ==
  ASSUME TerminalInv, Workflow
  PROVE  TerminalInv'
<1> USE DEF seen, box
<1>0. SessionsTypeOK /\ Target \in SUBSET Target /\ \A t \in Target : {t} \in SUBSET Target
  BY DEF TerminalInv
<1>1. CASE Create
  BY <1>0, <1>1, BoxInv DEF Create, SessionsTypeOK
<1>2. CASE Start
  BY <1>0, <1>2, BoxInv DEF Start, SessionsTypeOK
<1>3. CASE FindSession
  BY <1>0, <1>3, BoxInv DEF FindSession, SessionsTypeOK
<1>4. CASE Fail
  <2>1. \/ UNCHANGED term /\ tmux' \in [Target -> {"none", "plain", "prompt"}]
        \/ \E T \in SUBSET Target : SessionsEnd(T)
    BY <1>0, <1>4 DEF Fail, SessionsTypeOK
  <2> QED BY <1>0, <1>4, <2>1, BoxInv DEF Fail, SessionsTypeOK
<1>5. CASE NewSession /\ ~Fail
  BY <1>0, <1>5, BoxInv DEF NewSession, SessionsTypeOK
<1>6. CASE Stop
  <2>1. stops' \in 0..MaxStops
    BY <1>0, <1>6, TerminalConstants DEF Stop, SessionsTypeOK
  <2>2. \E T \in SUBSET Target : SessionsEnd(T)
    BY <1>0, <1>6 DEF Stop
  <2> QED BY <1>0, <1>6, <2>1, <2>2, BoxInv DEF Stop, SessionsTypeOK
<1>7. CASE SessionEnds
  <2>1. \E T \in SUBSET Target : SessionsEnd(T)
    BY <1>0, <1>7 DEF SessionEnds
  <2> QED BY <1>0, <1>7, <2>1, BoxInv DEF SessionEnds, SessionsTypeOK
<1> QED BY <1>1, <1>2, <1>3, <1>4, <1>5, <1>6, <1>7 DEF Workflow, ProvisionFails

-----------------------------------------------------------------------------
(* Connecting.                                                             *)

LEMMA HandlerMoves ==
  ASSUME SessionsTypeOK, NEW c \in Conn, NEW r \in Handlers, conn' = [conn EXCEPT ![c] = r]
  PROVE  /\ conn' \in [Conn -> Handlers] /\ conn'[c] = r
         /\ \A d \in Conn \ {c} : conn'[d] = conn[d]
BY DEF SessionsTypeOK

LEMMA StreamMoves ==
  ASSUME SessionsTypeOK, NEW c \in Conn, NEW t \in Streams, term' = [term EXCEPT ![c] = t]
  PROVE  /\ term' \in [Conn -> Streams] /\ term'[c] = t
         /\ \A d \in Conn \ {c} : term'[d] = term[d]
BY DEF SessionsTypeOK

\* The steps that end at an await and write nothing but the handler's own state.
LEMMA AwaitInv ==
  ASSUME TerminalInv, NEW c \in Conn, Connect(c) \/ Bind(c) \/ Locate(c) \/ Refuse(c)
  PROVE  TerminalInv'
<1> USE DEF box, seen, Awaits
<1>1. SessionsTypeOK /\ Fine(c) /\ conn[c].pc \in Opening
  BY DEF TerminalInv, Connect, Bind, Locate, Refuse, Opening
<1>2. PICK r \in Handlers :
        /\ conn' = [conn EXCEPT ![c] = r]
        /\ r.pc \in Opening \cup {"over"} /\ r.told \in {"nothing", "failed"}
        /\ r.pc \in Opening => r.told = "nothing"
        /\ UNCHANGED <<prov, prompt, stops, tmux, term, attached, obs, waiting, closing>>
  <2>0. conn[c] \in Handlers /\ conn[c].told = "nothing"
    BY <1>1 DEF SessionsTypeOK, Fine, HeldBy
  <2>1. CASE Connect(c)
    <3>1. PICK t \in Target :
            conn' = [conn EXCEPT ![c].pc = "binding", ![c].target = t, ![c].connected = TRUE]
      BY <2>1 DEF Connect
    <3>2. conn' = [conn EXCEPT ![c] = [conn[c] EXCEPT !.pc = "binding", !.target = t, !.connected = TRUE]]
      BY <1>1, <3>1 DEF SessionsTypeOK
    <3> QED BY <2>0, <2>1, <3>2 DEF Connect, Opening
  <2>2. CASE Bind(c)
    <3> DEFINE p == IF conn[c].target = "agent" THEN "locating" ELSE "opening"
               b == conn[c].target # "agent"
    <3>1. conn' = [conn EXCEPT ![c] = [conn[c] EXCEPT !.pc = p, !.create = b]]
      BY <1>1, <2>2 DEF Bind, SessionsTypeOK
    <3>2. p \in {"locating", "opening"} /\ b \in BOOLEAN
      OBVIOUS
    <3> HIDE DEF p, b
    <3> QED BY <2>0, <2>2, <3>1, <3>2 DEF Bind, Opening
  <2>3. CASE Locate(c)
    <3>1. PICK b \in BOOLEAN : conn' = [conn EXCEPT ![c].pc = "opening", ![c].create = b]
      BY <2>3 DEF Locate
    <3>2. conn' = [conn EXCEPT ![c] = [conn[c] EXCEPT !.pc = "opening", !.create = b]]
      BY <1>1, <3>1 DEF SessionsTypeOK
    <3> QED BY <2>0, <2>3, <3>2 DEF Locate, Opening
  <2>4. CASE Refuse(c)
    <3>1. PICK told \in {"nothing", "failed"} :
            conn' = [conn EXCEPT ![c].pc = "over", ![c].connected = FALSE, ![c].told = told]
      BY <2>4 DEF Refuse
    <3>2. conn' = [conn EXCEPT ![c] = [conn[c] EXCEPT !.pc = "over", !.connected = FALSE, !.told = told]]
      BY <1>1, <3>1 DEF SessionsTypeOK
    <3> QED BY <2>0, <2>4, <3>2 DEF Refuse, Opening
  <2> QED BY <2>1, <2>2, <2>3, <2>4
<1>6. /\ conn' \in [Conn -> Handlers] /\ \A d \in Conn \ {c} : conn'[d] = conn[d]
      /\ conn'[c].pc \in Opening \cup {"over"} /\ conn'[c].told \in {"nothing", "failed"}
      /\ conn'[c].pc \in Opening => conn'[c].told = "nothing"
  <2>1. /\ conn' \in [Conn -> Handlers] /\ conn'[c] = r
        /\ \A d \in Conn \ {c} : conn'[d] = conn[d]
    BY <1>1, <1>2, HandlerMoves
  <2> QED BY <1>2, <2>1
<1>3. SessionsTypeOK'
  BY <1>1, <1>2, <1>6 DEF SessionsTypeOK
<1>4. Fine(c)'
  BY <1>1, <1>2, <1>6 DEF Fine, HeldBy, Counted, Asks, Opening, Live
<1>5. \A d \in Conn \ {c} : Same(d)
  BY <1>2, <1>6 DEF Same
<1> QED BY <1>2, <1>3, <1>4, <1>5, OneMoves DEF Looks

LEMMA OpenInv ==
  ASSUME TerminalInv, NEW c \in Conn, Open(c)
  PROVE  TerminalInv'
<1> USE DEF seen
<1>1. SessionsTypeOK /\ Fine(c) /\ conn[c].pc = "opening" /\ conn[c].target \in Target
  BY DEF TerminalInv, Open, Awaits, SessionsTypeOK
<1>2. \E s \in Live : term' = [term EXCEPT ![c].stream = s]
  BY DEF Open, Live
<1>3. tmux' \in [Target -> {"none", "plain", "prompt"}]
  BY <1>1 DEF Open, SessionsTypeOK
<1>4. /\ conn' \in [Conn -> Handlers]
      /\ conn'[c].pc = "opened" /\ conn'[c].told = conn[c].told
      /\ \A d \in Conn \ {c} : conn'[d] = conn[d]
  <2> DEFINE r == [conn[c] EXCEPT !.pc = "opened"]
  <2>1. conn' = [conn EXCEPT ![c] = r] /\ r \in Handlers /\ r.pc = "opened" /\ r.told = conn[c].told
    <3>1. conn' = [conn EXCEPT ![c] = r]
      BY <1>1 DEF Open, SessionsTypeOK
    <3>2. conn[c] \in Handlers
      BY <1>1 DEF SessionsTypeOK
    <3> QED BY <3>1, <3>2
  <2> HIDE DEF r
  <2>2. /\ conn' \in [Conn -> Handlers] /\ conn'[c] = r
        /\ \A d \in Conn \ {c} : conn'[d] = conn[d]
    BY <1>1, <2>1, HandlerMoves
  <2> QED BY <2>1, <2>2
<1>5. /\ term' \in [Conn -> Streams]
      /\ term'[c].stream \in Live /\ term'[c].pend = term[c].pend
      /\ term'[c].read = term[c].read /\ term'[c].shown = term[c].shown
      /\ \A d \in Conn \ {c} : term'[d] = term[d]
  <2>1. PICK s \in Live : term' = [term EXCEPT ![c].stream = s]
    BY <1>2
  <2> DEFINE t == [term[c] EXCEPT !.stream = s]
  <2>2. /\ term' = [term EXCEPT ![c] = t] /\ t \in Streams
        /\ t.stream \in Live /\ t.pend = term[c].pend /\ t.read = term[c].read /\ t.shown = term[c].shown
    <3>1. term' = [term EXCEPT ![c] = t]
      BY <1>1, <2>1 DEF SessionsTypeOK
    <3>2. term[c] \in Streams
      BY <1>1 DEF SessionsTypeOK
    <3> QED BY <3>1, <3>2 DEF Live
  <2> HIDE DEF t
  <2>3. /\ term' \in [Conn -> Streams] /\ term'[c] = t
        /\ \A d \in Conn \ {c} : term'[d] = term[d]
    BY <1>1, <2>2, StreamMoves
  <2> QED BY <2>2, <2>3
<1>6. UNCHANGED <<prov, prompt, stops, attached, obs, waiting, closing>>
  BY DEF Open
<1>7. SessionsTypeOK'
  BY <1>1, <1>3, <1>4, <1>5, <1>6 DEF SessionsTypeOK
<1>8. Fine(c)'
  BY <1>1, <1>4, <1>5, <1>6 DEF Fine, HeldBy, Counted, Asks, Opening, Live
<1>9. \A d \in Conn \ {c} : Same(d)
  BY <1>4, <1>5, <1>6 DEF Same
<1> QED BY <1>6, <1>7, <1>8, <1>9, OneMoves DEF Looks

LEMMA AttachInv ==
  ASSUME TerminalInv, NEW c \in Conn, Attach(c)
  PROVE  TerminalInv'
<1> USE DEF box, seen
<1>1. SessionsTypeOK /\ Fine(c) /\ conn[c].pc = "opened"
  BY DEF TerminalInv, Attach, Awaits
<1>2. CASE conn[c].connected
  <2>1. /\ conn' = [conn EXCEPT ![c].pc = "attached", ![c].told = "session"]
        /\ attached' = attached \cup {c} /\ obs' = obs /\ Recompute(attached', obs')
        /\ UNCHANGED <<prov, prompt, stops, tmux, term, closing>>
    BY <1>2 DEF Attach, Attached, Recompute
  <2>2. /\ conn' \in [Conn -> Handlers]
        /\ conn'[c].pc = "attached" /\ conn'[c].told = "session" /\ conn'[c].connected
        /\ \A d \in Conn \ {c} : conn'[d] = conn[d]
    <3> DEFINE r == [conn[c] EXCEPT !.pc = "attached", !.told = "session"]
    <3>1. /\ conn' = [conn EXCEPT ![c] = r] /\ r \in Handlers
          /\ r.pc = "attached" /\ r.told = "session" /\ r.connected
      <4>1. conn' = [conn EXCEPT ![c] = r]
        BY <1>1, <2>1 DEF SessionsTypeOK
      <4>2. conn[c] \in Handlers
        BY <1>1 DEF SessionsTypeOK
      <4> QED BY <1>2, <4>1, <4>2
    <3> HIDE DEF r
    <3>2. /\ conn' \in [Conn -> Handlers] /\ conn'[c] = r
          /\ \A d \in Conn \ {c} : conn'[d] = conn[d]
      BY <1>1, <3>1, HandlerMoves
    <3> QED BY <3>1, <3>2
  <2>3. waiting' \in BOOLEAN
    BY <2>1 DEF Recompute
  <2>4. SessionsTypeOK'
    BY <1>1, <2>1, <2>2, <2>3 DEF SessionsTypeOK
  <2>5. Fine(c)'
    BY <1>1, <2>1, <2>2 DEF Fine, HeldBy, Counted, Asks, Opening, Live
  <2>6. \A d \in Conn \ {c} : Same(d)
    BY <2>1, <2>2 DEF Same
  <2> QED BY <2>1, <2>4, <2>5, <2>6, OneMoves DEF Looks
<1>3. CASE ~conn[c].connected
  <2>1. /\ conn' = [conn EXCEPT ![c].pc = "over"]
        /\ term' = [term EXCEPT ![c].stream = "detached"]
        /\ UNCHANGED <<prov, prompt, stops, tmux, attached, obs, waiting, closing>>
    BY <1>3 DEF Attach
  <2>2. SessionsTypeOK'
    <3>1. conn' = [conn EXCEPT ![c] = [conn[c] EXCEPT !.pc = "over"]]
      BY <1>1, <2>1 DEF SessionsTypeOK
    <3>2. term' = [term EXCEPT ![c] = [term[c] EXCEPT !.stream = "detached"]]
      BY <1>1, <2>1 DEF SessionsTypeOK
    <3>3. conn[c] \in Handlers /\ term[c] \in Streams
      BY <1>1 DEF SessionsTypeOK
    <3>4. [conn[c] EXCEPT !.pc = "over"] \in Handlers /\ [term[c] EXCEPT !.stream = "detached"] \in Streams
      BY <3>3
    <3>5. conn' \in [Conn -> Handlers]
      BY <1>1, <3>1, <3>4, HandlerMoves
    <3>6. term' \in [Conn -> Streams]
      BY <1>1, <3>2, <3>4, StreamMoves
    <3> QED BY <1>1, <2>1, <3>5, <3>6 DEF SessionsTypeOK
  <2>3. Fine(c)'
    BY <1>1, <2>1 DEF SessionsTypeOK, Fine, HeldBy, Counted, Asks, Opening, Live
  <2>4. \A d \in Conn \ {c} : Same(d)
    BY <1>1, <2>1 DEF Same, SessionsTypeOK
  <2> QED BY <2>1, <2>2, <2>3, <2>4, OneMoves DEF Looks
<1> QED BY <1>2, <1>3

-----------------------------------------------------------------------------
(* Output and input of a terminal that is attached.                        *)

\* A step that changes the stream and the detector's view of one attached terminal.
LEMMA StreamInv ==
  ASSUME TerminalInv, NEW c \in attached, NEW t, NEW o,
         term' = [term EXCEPT ![c] = t], obs' = [obs EXCEPT ![c] = o],
         UNCHANGED <<prov, prompt, stops, tmux, conn, attached, closing>>,
         waiting' \in BOOLEAN, Looks \/ (UNCHANGED waiting /\ o.waiting = obs[c].waiting),
         t \in [stream : Live, pend : Seq(Kind), read : 0..MaxChunks, shown : 0..MaxChunks],
         o \in Views,
         t.shown + Len(t.pend) = t.read,
         t.pend # << >> => ~o.answered, o.tail = "prompt" => ~o.answered, o.waiting => o.tail = "prompt"
  PROVE  TerminalInv'
<1>1. SessionsTypeOK /\ c \in Conn /\ Fine(c)
  BY DEF TerminalInv, SessionsTypeOK
<1>2. /\ term'[c] = t /\ obs'[c] = o
      /\ \A d \in Conn \ {c} : term'[d] = term[d] /\ obs'[d] = obs[d]
  BY <1>1 DEF SessionsTypeOK
<1>3. SessionsTypeOK'
  BY <1>1 DEF SessionsTypeOK, Live
<1>4. Fine(c)'
  BY <1>1, <1>2 DEF Fine, HeldBy, Counted, Asks, Opening, Live
<1>5. \A d \in Conn \ {c} : Same(d)
  BY <1>2 DEF Same
<1>6. \A d \in Conn : Fine(d)'
  BY <1>4, <1>5, SameFine DEF TerminalInv
<1>7. WaitingIsKept'
  <2>1. CASE Looks
    BY <2>1, LooksWaiting DEF TerminalInv
  <2>2. CASE UNCHANGED waiting /\ o.waiting = obs[c].waiting
    BY <1>1, <1>2, <2>2 DEF TerminalInv, WaitingIsKept, SessionsTypeOK
  <2> QED BY <2>1, <2>2
<1> QED BY <1>3, <1>6, <1>7 DEF TerminalInv

LEMMA FlushedType ==
  ASSUME TerminalInv, NEW c \in attached
  PROVE  /\ Flushed(c) \in [stream : Live, pend : Seq(Kind), read : 0..MaxChunks, shown : 0..MaxChunks]
         /\ Flushed(c).pend = << >> /\ Flushed(c).shown = Flushed(c).read
         /\ Flushed(c).read = term[c].read
<1>1. /\ c \in Conn /\ HeldBy(c) /\ Counted(c)
      /\ term[c] \in Streams
  BY DEF TerminalInv, SessionsTypeOK, Fine
<1>2. term[c].stream \in Live /\ term[c].shown + Len(term[c].pend) = term[c].read
  BY <1>1 DEF HeldBy, Counted
<1>3. << >> \in Seq(Kind)
  OBVIOUS
<1> QED BY <1>1, <1>2, <1>3 DEF Flushed, Live

LEMMA OutputInv ==
  ASSUME TerminalInv, NEW c \in Conn, Output(c)
  PROVE  TerminalInv'
<1> USE DEF box
<1>1. PICK k \in Kind : term' = [term EXCEPT ![c].pend = Append(@, k), ![c].read = @ + 1]
  BY DEF Output
<1>2. /\ SessionsTypeOK /\ c \in attached /\ HeldBy(c) /\ Counted(c) /\ Asks(c) /\ term[c].read < MaxChunks
      /\ obs' = [obs EXCEPT ![c].answered = FALSE]
      /\ UNCHANGED <<prov, prompt, stops, tmux, conn, attached, waiting, closing>>
  BY DEF TerminalInv, Fine, Output
<1>3. term[c].stream \in Live /\ term[c].shown + Len(term[c].pend) = term[c].read
  BY <1>2 DEF HeldBy, Counted
<1> DEFINE t == [term[c] EXCEPT !.pend = Append(@, k), !.read = @ + 1]
           o == [obs[c] EXCEPT !.answered = FALSE]
<1>4. term' = [term EXCEPT ![c] = t] /\ obs' = [obs EXCEPT ![c] = o]
  BY <1>1, <1>2 DEF SessionsTypeOK
<1>5. /\ Append(term[c].pend, k) \in Seq(Kind)
      /\ Len(Append(term[c].pend, k)) = Len(term[c].pend) + 1 /\ Len(term[c].pend) \in Nat
  BY <1>2, AppendProperties DEF SessionsTypeOK
<1>5a. term[c].read \in 0..MaxChunks /\ term[c].shown \in 0..MaxChunks /\ term[c] \in Streams
  BY <1>2 DEF SessionsTypeOK
<1>5b. term[c].read + 1 \in 0..MaxChunks
  BY <1>2, <1>5a, TerminalConstants
<1>6. t \in [stream : Live, pend : Seq(Kind), read : 0..MaxChunks, shown : 0..MaxChunks]
  BY <1>3, <1>5, <1>5a, <1>5b
<1>6a. /\ t.shown = term[c].shown /\ t.pend = Append(term[c].pend, k)
       /\ t.read = term[c].read + 1
  BY <1>5a
<1>7. t.shown + Len(t.pend) = t.read
  BY <1>3, <1>5, <1>5a, <1>6a
<1>8. /\ o \in Views
      /\ ~o.answered /\ o.tail = obs[c].tail /\ o.waiting = obs[c].waiting
  <2>1. obs[c] \in Views
    BY <1>2 DEF SessionsTypeOK
  <2> QED BY <2>1
<1>9. waiting' \in BOOLEAN /\ (o.waiting => o.tail = "prompt")
  BY <1>2, <1>8 DEF SessionsTypeOK, Asks
<1> HIDE DEF t, o
<1> QED BY <1>2, <1>4, <1>6, <1>7, <1>8, <1>9, StreamInv

LEMMA FlushInv ==
  ASSUME TerminalInv, NEW c \in Conn, Flush(c)
  PROVE  TerminalInv'
<1> USE DEF box
<1>1. /\ SessionsTypeOK /\ c \in attached /\ Asks(c) /\ term[c].pend # << >> /\ term[c].pend \in Seq(Kind)
      /\ term' = [term EXCEPT ![c] = Flushed(c)] /\ Recompute(attached, obs')
      /\ UNCHANGED <<prov, prompt, stops, tmux, conn, attached, closing>>
  BY DEF TerminalInv, Fine, Flush, SessionsTypeOK
<1>2. Last(term[c].pend) \in Kind
  BY <1>1 DEF Last
<1> DEFINE o == [obs[c] EXCEPT !.tail = Last(term[c].pend), !.waiting = FALSE]
<1>3. obs' = [obs EXCEPT ![c] = o]
  BY <1>1 DEF Flush, SessionsTypeOK
<1>4. /\ o \in Views
      /\ ~o.waiting /\ ~o.answered
  BY <1>1, <1>2 DEF SessionsTypeOK, Asks
<1>5. waiting' \in BOOLEAN /\ Looks
  BY <1>1 DEF Recompute, Looks
<1>6. Flushed(c).shown + Len(Flushed(c).pend) = Flushed(c).read
  BY <1>1, FlushedType
<1> HIDE DEF o
<1> QED BY <1>1, <1>3, <1>4, <1>5, <1>6, FlushedType, StreamInv

LEMMA InputInv ==
  ASSUME TerminalInv, NEW c \in Conn, Input(c)
  PROVE  TerminalInv'
<1> USE DEF box
<1> DEFINE o == [tail |-> "blank", waiting |-> FALSE, answered |-> TRUE]
<1>1. /\ SessionsTypeOK /\ c \in attached
      /\ term' = [term EXCEPT ![c] = Flushed(c)] /\ Recompute(attached, obs')
      /\ obs' = [obs EXCEPT ![c] = o]
      /\ UNCHANGED <<prov, prompt, stops, tmux, conn, attached, closing>>
  BY DEF TerminalInv, Input, Answered
<1>2. /\ o \in Views
      /\ ~o.waiting /\ o.tail # "prompt"
  OBVIOUS
<1>3. waiting' \in BOOLEAN /\ Looks
  BY <1>1 DEF Recompute, Looks
<1>4. Flushed(c).shown + Len(Flushed(c).pend) = Flushed(c).read
  BY <1>1, FlushedType
<1> HIDE DEF o
<1> QED BY <1>1, <1>2, <1>3, <1>4, FlushedType, StreamInv

LEMMA TickInv ==
  ASSUME TerminalInv, Tick
  PROVE  TerminalInv'
<1> USE DEF box
<1>1. PICK S \in SUBSET {c \in attached : ~obs[c].waiting /\ obs[c].tail = "prompt"} :
        obs' = [c \in Conn |-> IF c \in S THEN [obs[c] EXCEPT !.waiting = TRUE] ELSE obs[c]]
  BY DEF Tick
<1>2. /\ Recompute(attached', obs')
      /\ UNCHANGED <<prov, prompt, stops, tmux, conn, term, attached, closing>>
  BY DEF Tick
<1>3. /\ obs' \in [Conn -> Views]
      /\ \A c \in Conn : /\ obs'[c].tail = obs[c].tail /\ obs'[c].answered = obs[c].answered
                         /\ obs'[c].waiting => obs[c].waiting \/ obs[c].tail = "prompt"
  BY <1>1 DEF TerminalInv, SessionsTypeOK
<1>4. waiting' \in BOOLEAN
  BY <1>2 DEF Recompute
<1>5. SessionsTypeOK'
  BY <1>2, <1>3, <1>4 DEF TerminalInv, SessionsTypeOK
<1>6. \A c \in Conn : Fine(c)'
  BY <1>2, <1>3 DEF TerminalInv, Fine, HeldBy, Counted, Asks
<1>7. WaitingIsKept'
  BY <1>2, LooksWaiting DEF TerminalInv, Looks
<1> QED BY <1>5, <1>6, <1>7 DEF TerminalInv

-----------------------------------------------------------------------------
(* Attachments that end, and shells that are closed.                       *)

\* Any number of attachments are removed: none of the terminals is watched any more.
LEMMA DetachedSame ==
  ASSUME TerminalInv, NEW S, S \subseteq attached, Detached(S)
  PROVE  /\ term' \in [Conn -> Streams] /\ waiting' \in BOOLEAN /\ attached' \subseteq Conn
         /\ Looks /\ obs' = obs /\ attached' = attached \ S
         /\ \A d \in Conn \ S : term'[d] = term[d]
         /\ \A d \in S : /\ term'[d].stream = "detached" /\ term'[d].pend = << >>
                         /\ term'[d].read = term[d].read /\ term'[d].shown = term[d].shown
<1>1. /\ attached' = attached \ S /\ obs' = obs /\ Recompute(attached', obs') /\ attached \subseteq Conn
      /\ term' = [c \in Conn |-> IF c \in S THEN [term[c] EXCEPT !.stream = "detached", !.pend = << >>]
                                 ELSE term[c]]
  BY DEF Detached, TerminalInv, SessionsTypeOK, Recompute
<1>2. waiting' \in BOOLEAN /\ Looks
  BY <1>1 DEF Recompute, Looks
<1>3. \A d \in Conn \ S : term'[d] = term[d]
  BY <1>1
<1>4. ASSUME NEW d \in Conn
      PROVE  /\ term'[d] \in Streams
             /\ d \in S => /\ term'[d].stream = "detached" /\ term'[d].pend = << >>
                           /\ term'[d].read = term[d].read /\ term'[d].shown = term[d].shown
  <2>1. term[d] \in Streams /\ << >> \in Seq(Kind)
    BY DEF TerminalInv, SessionsTypeOK
  <2>2. CASE d \in S
    <3>1. term'[d] = [term[d] EXCEPT !.stream = "detached", !.pend = << >>]
      BY <1>1, <2>2
    <3> QED BY <2>1, <3>1
  <2> QED BY <1>3, <2>1, <2>2
<1>5. term' \in [Conn -> Streams]
  BY <1>1, <1>4
<1> QED BY <1>1, <1>2, <1>3, <1>4, <1>5

LEMMA DisconnectInv ==
  ASSUME TerminalInv, NEW c \in Conn, Disconnect(c)
  PROVE  TerminalInv'
<1> USE DEF box
<1> DEFINE p == IF conn[c].pc = "attached" THEN "over" ELSE conn[c].pc
           r == [conn[c] EXCEPT !.connected = FALSE, !.pc = p]
           S == {c} \cap attached
<1>1. /\ SessionsTypeOK /\ Fine(c) /\ conn[c] \in Handlers /\ Detached(S)
      /\ UNCHANGED <<prov, prompt, stops, tmux, closing>>
  BY DEF TerminalInv, Disconnect, SessionsTypeOK
<1>2. conn' = [conn EXCEPT ![c] = r]
  BY <1>1 DEF Disconnect, SessionsTypeOK
<1>3. /\ r \in Handlers /\ r.pc = p /\ r.told = conn[c].told
  BY <1>1
<1> HIDE DEF r, S
<1>4. /\ conn' \in [Conn -> Handlers] /\ conn'[c].pc = p /\ conn'[c].told = conn[c].told
      /\ \A d \in Conn \ {c} : conn'[d] = conn[d]
  BY <1>1, <1>2, <1>3, HandlerMoves
<1>5. S \subseteq attached /\ (c \in attached => S = {c}) /\ (c \notin attached => S = {})
  BY DEF S
<1>6. /\ term' \in [Conn -> Streams] /\ waiting' \in BOOLEAN /\ attached' \subseteq Conn
      /\ Looks /\ obs' = obs /\ attached' = attached \ S
      /\ \A d \in Conn \ S : term'[d] = term[d]
      /\ \A d \in S : /\ term'[d].stream = "detached" /\ term'[d].pend = << >>
                      /\ term'[d].read = term[d].read /\ term'[d].shown = term[d].shown
  BY <1>1, <1>5, DetachedSame
<1>7. SessionsTypeOK'
  BY <1>1, <1>4, <1>6 DEF SessionsTypeOK
<1>8. Fine(c)'
  <2>1. CASE c \in attached
    BY <1>1, <1>4, <1>5, <1>6, <2>1 DEF Fine, HeldBy, Counted, Asks, Opening, Live
  <2>2. CASE c \notin attached
    BY <1>1, <1>4, <1>5, <1>6, <2>2 DEF Fine, HeldBy, Counted, Asks, Opening, Live
  <2> QED BY <2>1, <2>2
<1>9. \A d \in Conn \ {c} : Same(d)
  BY <1>4, <1>5, <1>6 DEF Same
<1> QED BY <1>6, <1>7, <1>8, <1>9, OneMoves

LEMMA ExitInv ==
  ASSUME TerminalInv, NEW c \in Conn, Exit(c)
  PROVE  TerminalInv'
<1> USE DEF box
<1> DEFINE r == [conn[c] EXCEPT !.pc = "over", !.connected = FALSE, !.told = "exit"]
           t == [Flushed(c) EXCEPT !.stream = "over"]
<1>1. /\ SessionsTypeOK /\ Fine(c) /\ c \in attached /\ conn[c] \in Handlers
      /\ term' = [term EXCEPT ![c] = t]
      /\ attached' = attached \ {c} /\ obs' = obs /\ Recompute(attached', obs')
      /\ UNCHANGED <<prov, prompt, stops, tmux, closing>>
  BY DEF TerminalInv, Exit, Ended, Recompute, SessionsTypeOK
<1>2. conn' = [conn EXCEPT ![c] = r]
  BY <1>1 DEF Exit, Ended, SessionsTypeOK
<1>3. r \in Handlers /\ r.pc = "over" /\ r.told = "exit"
  BY <1>1
<1>4. t \in Streams /\ t.stream = "over" /\ t.pend = << >> /\ t.shown = t.read
  BY <1>1, FlushedType DEF Live
<1> HIDE DEF r, t
<1>5. /\ conn' \in [Conn -> Handlers] /\ conn'[c] = r
      /\ \A d \in Conn \ {c} : conn'[d] = conn[d]
  BY <1>1, <1>2, <1>3, HandlerMoves
<1>6. /\ term' \in [Conn -> Streams] /\ term'[c] = t
      /\ \A d \in Conn \ {c} : term'[d] = term[d]
  BY <1>1, <1>4, StreamMoves
<1>7. waiting' \in BOOLEAN /\ Looks
  BY <1>1 DEF Recompute, Looks
<1>8. SessionsTypeOK'
  BY <1>1, <1>5, <1>6, <1>7 DEF SessionsTypeOK
<1>9. Fine(c)'
  BY <1>1, <1>3, <1>4, <1>5, <1>6 DEF Fine, HeldBy, Counted, Asks, Opening, Live
<1>10. \A d \in Conn \ {c} : Same(d)
  BY <1>1, <1>5, <1>6 DEF Same
<1> QED BY <1>7, <1>8, <1>9, <1>10, OneMoves

LEMMA CloseInv ==
  ASSUME TerminalInv, NEW k \in Shell,
         (\E c \in Conn : CloseShell(c, k)) \/ KillShell(k) \/ KillShellThrows(k) \/ ShellClosed(k)
  PROVE  TerminalInv'
<1> USE DEF box, seen
<1>1. SessionsTypeOK /\ {k} \in SUBSET Target
  BY DEF TerminalInv, Target
<1>2. CASE \E c \in Conn : CloseShell(c, k)
  BY <1>1, <1>2, BoxInv DEF CloseShell, SessionsTypeOK
<1>3. CASE KillShell(k)
  BY <1>1, <1>3, BoxInv DEF KillShell, SessionsTypeOK
<1>4. CASE KillShellThrows(k)
  BY <1>1, <1>4, BoxInv DEF KillShellThrows, SessionsTypeOK
<1>5. CASE ShellClosed(k)
  <2> DEFINE S == {c \in attached : conn[c].target = k}
  <2>1. Detached(S) /\ S \subseteq attached /\ UNCHANGED <<prov, prompt, stops, tmux, conn>>
    BY <1>5 DEF ShellClosed
  <2>2. closing' \in [Shell -> {"no", "asked", "killed"}]
    BY <1>1, <1>5 DEF ShellClosed, SessionsTypeOK
  <2> HIDE DEF S
  <2>3. /\ term' \in [Conn -> Streams] /\ waiting' \in BOOLEAN /\ attached' \subseteq Conn
        /\ Looks /\ obs' = obs /\ attached' = attached \ S
        /\ \A d \in Conn \ S : term'[d] = term[d]
        /\ \A d \in S : /\ term'[d].stream = "detached" /\ term'[d].pend = << >>
                        /\ term'[d].read = term[d].read /\ term'[d].shown = term[d].shown
    BY <2>1, DetachedSame
  <2>4. SessionsTypeOK'
    BY <1>1, <2>1, <2>2, <2>3 DEF SessionsTypeOK
  <2>5. \A d \in Conn \ S : Fine(d)'
    BY <2>1, <2>3, SameFine DEF TerminalInv, Same
  <2>6. ASSUME NEW d \in S PROVE Fine(d)'
    <3>1. d \in Conn /\ Fine(d) /\ d \in attached
      BY <1>1, <2>1 DEF TerminalInv, SessionsTypeOK
    <3> QED BY <2>1, <2>3, <3>1 DEF Fine, HeldBy, Counted, Asks, Opening, Live
  <2>7. WaitingIsKept'
    BY <2>3, LooksWaiting DEF TerminalInv
  <2> QED BY <2>4, <2>5, <2>6, <2>7 DEF TerminalInv
<1> QED BY <1>2, <1>3, <1>4, <1>5

LEMMA TerminalNext == TerminalInv /\ [SessionsNext]_sessionsVars => TerminalInv'
<1> SUFFICES ASSUME TerminalInv, [SessionsNext]_sessionsVars PROVE TerminalInv'
  OBVIOUS
<1>1. CASE Workflow
  BY <1>1, WorkflowInv
<1>2. CASE Tick
  BY <1>2, TickInv
<1>3. ASSUME NEW c \in Conn, Handler(c) PROVE TerminalInv'
  BY <1>3, AwaitInv, OpenInv, AttachInv DEF Handler
<1>4. ASSUME NEW c \in Conn, Stream(c) PROVE TerminalInv'
  BY <1>4, OutputInv, FlushInv, InputInv, ExitInv, DisconnectInv DEF Stream
<1>5. ASSUME NEW k \in Shell,
             (\E c \in Conn : CloseShell(c, k)) \/ KillShell(k) \/ KillShellThrows(k) \/ ShellClosed(k)
      PROVE  TerminalInv'
  BY <1>5, CloseInv
<1>6. CASE UNCHANGED sessionsVars
  <2>1. \A d \in Conn : Same(d)
    BY <1>6 DEF sessionsVars, box, seen, Same
  <2>2. SessionsTypeOK' /\ Looks
    BY <1>6 DEF TerminalInv, SessionsTypeOK, Looks, sessionsVars, box, seen
  <2> QED BY <2>1, <2>2, NoneMoves
<1> QED BY <1>1, <1>2, <1>3, <1>4, <1>5, <1>6 DEF SessionsNext

(* The types, where each handler, stream and attachment stands, and what   *)
(* of the output is read, held and shown, for any number of sockets,       *)
(* shells, chunks and stops: what the next three theorems rest on.         *)
THEOREM TerminalInvariant == SessionsSpec => []TerminalInv
BY TerminalInit, TerminalNext, PTL DEF SessionsSpec

(* A pty that was opened is always held: by the attachment of a client     *)
(* that is there, or by the handler that still has to look whether it is,  *)
(* whoever leaves, ends or closes what at any await of handleConnection.   *)
THEOREM StreamsHeld == SessionsSpec => []StreamsAreHeld
<1>1. TerminalInv => StreamsAreHeld
  BY DEF TerminalInv, SessionsTypeOK, Fine, HeldBy, Live, StreamsAreHeld
<1> QED BY <1>1, TerminalInvariant, PTL

(* Who is told `exit` has been sent all the output that was read: the      *)
(* batcher is emptied by exit and by input, and dropped only with the      *)
(* attachment.                                                             *)
THEOREM ScreenWhole == SessionsSpec => []ScreenIsWhole
<1>1. TerminalInv => ScreenIsWhole
  BY DEF TerminalInv, Fine, Counted, ScreenIsWhole
<1> QED BY <1>1, TerminalInvariant, PTL

(* waitingSandboxes has the task exactly when all its terminals stand at a *)
(* prompt nobody has answered since it was read.                           *)
THEOREM WaitingTrue == SessionsSpec => []WaitingIsTrue
<1>1. TerminalInv => WaitingIsTrue
  BY DEF TerminalInv, SessionsTypeOK, WaitingIsKept, Fine, Asks, WaitingIsTrue
<1> QED BY <1>1, TerminalInvariant, PTL

=============================================================================
