------------------------------ MODULE AgentTask ------------------------------
(***************************************************************************)
(* A headless Task: the request that starts its job in the sandbox, the    *)
(* pump that reads the job's output into the log, the row and the channel, *)
(* the request that cancels it, and the subscriptions of one socket of the *)
(* /tasks channel, which replay the log and then follow the pump.          *)
(*                                                                         *)
(* The output of the job is its lines 1, 2, ...; line i is parsed into     *)
(* Weight[i] events, numbered by seq over the whole run.  The cursor, the  *)
(* length of the log and the amount of output are counted in lines.        *)
(* Awaits of the database alone do not yield.                              *)
(***************************************************************************)
EXTENDS Naturals, Sequences, SequencesExt, FiniteSets

CONSTANTS
  Weight,             \* how many events each line is parsed into
  READ_RETRY_LIMIT,
  ExitCodes,          \* of a job that ends by itself: 0, 124 or another
  ResumeOnBoot,       \* SANDBOX_RECONCILE_ON_BOOT
  MaxCrashes,         \* bound: restarts of the process
  MaxCancels,         \* bound: requests to cancel
  MaxSubscriptions    \* bound: subscriptions of the socket

ASSUME TaskConstants ==
  /\ Weight \in Seq(Nat) /\ READ_RETRY_LIMIT \in Nat /\ ResumeOnBoot \in BOOLEAN
  /\ ExitCodes \subseteq {"ok", "bad", "deadline"}
  /\ MaxCrashes \in Nat /\ MaxCancels \in Nat /\ MaxSubscriptions \in Nat

VARIABLES
  row,       \* of agent_tasks: [status, cancel, how, cursor, seq, bytes]
  deleted,   \* the sandbox has no row any more
  job,       \* in the sandbox: [st, out, code, signals]
  log,       \* stdout.jsonl: the lines in it
  start,     \* the request that runs the task
  pump,      \* [at, task, upto, exited, attempts, timedOut]
  cancel,    \* the request that cancels it: idle or killing
  cancels,
  late,      \* timeoutMs have passed since startedAt
  subs,      \* the subscriptions the socket has made
  current,   \* the one the gateway has registered, 0 for none
  index,     \* seqIndex of the task: the events in each prefix of the log
  view,      \* what the client holds: [events, exit, exits]
  crashes

channel == <<subs, current, view>>
requests == <<start, cancel, cancels>>
vars == <<row, deleted, job, log, start, pump, cancel, cancels, late, subs, current, index,
          view, crashes>>

Terminal == {"succeeded", "failed", "timed_out", "killed"}
Statuses == {"running"} \cup Terminal

NoRow == [status |-> "absent", cancel |-> FALSE, how |-> "none", cursor |-> 0, seq |-> 0, bytes |-> 0]
NewTask == [NoRow EXCEPT !.status = "running"]
NoJob == [st |-> "none", out |-> 0, code |-> "none", signals |-> {}]
Idle == [at |-> "off", task |-> NoRow, upto |-> 0, exited |-> FALSE, attempts |-> 0,
         timedOut |-> FALSE]
NewView == [events |-> <<>>, exit |-> "none", exits |-> 0]

-----------------------------------------------------------------------------
(* The output, and how it is parsed and numbered.                          *)

Lines(from, upto) == [i \in 1..(upto - from) |-> from + i]

Parse(lines) == FlattenSeq([i \in 1..Len(lines) |-> [k \in 1..Weight[lines[i]] |-> <<lines[i], k>>]])

Frames(events, seq) ==
  [i \in 1..Len(events) |-> [type |-> "event", seq |-> seq + i, event |-> events[i]]]

ExitFrame(status) == [type |-> "exit", status |-> status]

VerdictFromExitCode(code) ==
  CASE code = "ok" -> "succeeded" [] code = "deadline" -> "timed_out" [] OTHER -> "failed"

-----------------------------------------------------------------------------
(* The channel.                                                            *)

\* The frames that stand at the places in S, in their order.
Picked(frames, S) == [k \in 1..Cardinality(S) |-> frames[CHOOSE i \in S : Cardinality({j \in S : j <= i}) = k]]

\* The events after seq, and whatever is no event.
After(frames, seq) == Picked(frames, {i \in DOMAIN frames : frames[i].type = "exit" \/ frames[i].seq > seq})

\* Of frames in the order of their seq: those the subscription has not been sent.
Fresh(sub, frames) ==
  IF ~sub.live THEN <<>>
  ELSE Picked(frames, {i \in DOMAIN frames : IF frames[i].type = "exit" THEN ~sub.exitSent
                                             ELSE frames[i].seq > sub.deliveredSeq})

Events(frames) == Picked(frames, {i \in DOMAIN frames : frames[i].type = "event"})
Exits(frames) == Picked(frames, {i \in DOMAIN frames : frames[i].type = "exit"})

\* deliver: what the subscription remembers, and what the client holds, after the fresh frames.
Sent(sub, fresh) ==
  [sub EXCEPT !.deliveredSeq = IF Events(fresh) = <<>> THEN @ ELSE Last(Events(fresh)).seq,
              !.exitSent = @ \/ Exits(fresh) # <<>>]

Shown(fresh) ==
  [events |-> view.events \o [i \in 1..Len(Events(fresh)) |-> <<Events(fresh)[i].seq, Events(fresh)[i].event>>],
   exit |-> IF Exits(fresh) = <<>> THEN view.exit ELSE Last(Exits(fresh)).status,
   exits |-> view.exits + Len(Exits(fresh))]

\* The frames, one after the other, to the client of the subscription.
Deliver(i, sub, frames) ==
  \E all \in {frames} : \E fresh \in {Fresh(sub, all)} :
    subs' = [subs EXCEPT ![i] = Sent(sub, fresh)] /\ view' = Shown(fresh)

\* A variant that does not wait for the replay.
PublishUnbuffered(frames) ==
  /\ UNCHANGED current
  /\ IF current = 0 THEN UNCHANGED <<subs, view>> ELSE Deliver(current, subs[current], frames)

Publish(frames) ==
  /\ UNCHANGED current
  /\ IF current = 0 THEN UNCHANGED <<subs, view>>
     ELSE IF subs[current].replaying
     THEN /\ subs' = [subs EXCEPT ![current].pending = @ \o frames]
          /\ UNCHANGED view
     ELSE Deliver(current, subs[current], frames)

Gone == [replaying |-> FALSE, live |-> FALSE, deliveredSeq |-> 0, exitSent |-> FALSE, pending |-> <<>>,
         shares |-> FALSE, read |-> FALSE, out |-> <<>>, skip |-> 0, base |-> 0]

\* The socket has left a subscription, or taken another; only its replay still runs.
Retired(s) == IF s.replaying THEN [s EXCEPT !.live = FALSE, !.pending = <<>>] ELSE Gone

\* A replay that still holds the index keeps it, but extends it for nobody else.
DropIndex(ss) == [i \in DOMAIN ss |-> [ss[i] EXCEPT !.shares = FALSE]]

\* The lines that cannot hold an event after `seq`: index is sorted, the code searches it in halves.
FirstLineAfter(seq) == Cardinality({i \in 1..Len(index) : index[i] <= seq})

Subscribe(fresh) ==
  /\ Len(subs) < MaxSubscriptions
  /\ row.status # "absent"
  /\ LET from == IF fresh \/ view.events = <<>> THEN 0 ELSE Last(view.events)[1]
         skip == FirstLineAfter(from)
     IN  subs' = Append(IF current = 0 THEN subs ELSE [subs EXCEPT ![current] = Retired(@)],
                   [Gone EXCEPT !.replaying = TRUE, !.live = TRUE, !.deliveredSeq = from, !.shares = TRUE,
                                !.skip = skip, !.base = IF skip = 0 THEN 0 ELSE index[skip]])
  /\ current' = Len(subs) + 1
  /\ view' = IF fresh THEN NewView ELSE [view EXCEPT !.exit = "none", !.exits = 0]
  /\ UNCHANGED <<row, deleted, job, log, start, pump, cancel, cancels, late, index, crashes>>

\* The log is read to its end, from the first line that matters; the index grows with it.
ReplayReads(i) ==
  LET s == subs[i]
      upTo(n) == s.base + Len(Parse(SubSeq(log, s.skip + 1, n)))
  IN  /\ s.replaying /\ ~s.read
      /\ \E frames \in {Frames(Parse(SubSeq(log, s.skip + 1, Len(log))), s.base)} :
           subs' = [subs EXCEPT ![i].read = TRUE, ![i].out = After(frames, s.deliveredSeq)]
      /\ index' = IF s.shares /\ Len(index) < Len(log)
                  THEN index \o [n \in 1..(Len(log) - Len(index)) |-> upTo(Len(index) + n)]
                  ELSE index
      /\ UNCHANGED <<row, deleted, job, log, start, pump, cancel, cancels, late, current, view, crashes>>

\* A variant that leaves the exit to the pump.
KnownToPump(pending) == <<>>

\* A task that has ended already publishes no exit any more.
KnownEnd(pending) ==
  IF row.status \in Terminal /\ Exits(pending) = <<>> THEN <<ExitFrame(row.status)>> ELSE <<>>

\* The replay, caught_up, what was published meanwhile and is newer, and the end.
ReplayDelivers(i) ==
  LET s == subs[i]
      newer == IF s.out = <<>> THEN s.pending ELSE After(s.pending, Last(s.out).seq)
      sent == [Gone EXCEPT !.live = TRUE, !.deliveredSeq = s.deliveredSeq]
  IN  /\ s.replaying /\ s.read
      /\ IF s.live
         THEN \E frames \in {s.out \o newer} : Deliver(i, sent, frames \o KnownEnd(frames))
         ELSE subs' = [subs EXCEPT ![i] = Gone] /\ UNCHANGED view
      /\ UNCHANGED <<row, deleted, job, log, start, pump, cancel, cancels, late, current, index, crashes>>

Unsubscribe ==
  /\ current # 0
  /\ subs' = [subs EXCEPT ![current] = Retired(@)]
  /\ current' = 0
  /\ UNCHANGED <<row, deleted, job, log, start, pump, cancel, cancels, late, index, view, crashes>>

-----------------------------------------------------------------------------
(* The request that runs the task: the job first, then its row.            *)

RunTask ==
  /\ start = "idle" /\ ~deleted
  /\ start' = "starting"
  /\ UNCHANGED <<row, deleted, job, log, pump, cancel, cancels, late, channel, index, crashes>>

JobAccepted ==
  /\ start = "starting" /\ job.st = "none"
  /\ job' = [job EXCEPT !.st = "running"]
  /\ UNCHANGED <<row, deleted, log, requests, pump, late, channel, index, crashes>>

StartThrows ==
  /\ start = "starting"
  /\ start' = "refused"
  /\ UNCHANGED <<row, deleted, job, log, pump, cancel, cancels, late, channel, index, crashes>>

PumpFrom(task) == [Idle EXCEPT !.at = "truncating", !.task = task]

\* The sandbox may have been deleted since: the insert fails and the job is stopped.
PersistStart ==
  /\ start = "starting" /\ job.st # "none"
  /\ IF deleted
     THEN start' = "clearing" /\ UNCHANGED <<row, pump>>
     ELSE start' = "answered" /\ row' = NewTask /\ pump' = PumpFrom(NewTask)
  /\ UNCHANGED <<deleted, job, log, cancel, cancels, late, channel, index, crashes>>

Signalled(by) ==
  IF job.st = "running" THEN [job EXCEPT !.signals = @ \cup {by}] ELSE job

ClearKill ==
  /\ start = "clearing"
  /\ start' = "dropping"
  /\ job' \in {job, Signalled("start")}
  /\ UNCHANGED <<row, deleted, log, pump, cancel, cancels, late, channel, index, crashes>>

Released == [job EXCEPT !.st = "released"]

ClearRelease ==
  /\ start = "dropping"
  /\ start' = "refused"
  /\ job' \in {job, Released}
  /\ UNCHANGED <<row, deleted, log, pump, cancel, cancels, late, channel, index, crashes>>

-----------------------------------------------------------------------------
(* The pump.                                                               *)

\* A variant that saves the whole copy.
SavedWhole(task) == task

\* saveSync: the whole row of the copy, but a recorded cancel is kept.
Saved(task) == [task EXCEPT !.cancel = @ \/ row.cancel]

Finished(task, status, how) == [task EXCEPT !.status = status, !.how = how]

\* A variant that keeps what the log holds.
KeepLog ==
  /\ pump.at = "truncating"
  /\ index' = <<>>
  /\ subs' = DropIndex(subs)
  /\ pump' = [pump EXCEPT !.at = "reading"]
  /\ UNCHANGED <<row, deleted, job, log, requests, late, current, view, crashes>>

\* The log is rolled back to what the row admits.
TruncateLog ==
  /\ pump.at = "truncating"
  /\ log' = IF Len(log) <= pump.task.bytes THEN log ELSE SubSeq(log, 1, pump.task.bytes)
  /\ index' = <<>>
  /\ subs' = DropIndex(subs)
  /\ pump' = [pump EXCEPT !.at = "reading"]
  /\ UNCHANGED <<row, deleted, job, requests, late, current, view, crashes>>

Readable == job.st \in {"running", "exited"}

\* An answer with nothing new matters only when the deadline has passed.
ReadAnswers ==
  /\ pump.at = "reading" /\ Readable
  /\ job.out > pump.task.cursor \/ job.st = "exited" \/ late
  /\ pump' = [pump EXCEPT !.at = "appending", !.upto = job.out, !.exited = job.st = "exited",
                          !.attempts = 0]
  /\ UNCHANGED <<row, deleted, job, log, requests, late, channel, index, crashes>>

ReadRetries ==
  /\ pump.at = "reading" /\ pump.attempts < READ_RETRY_LIMIT
  /\ pump' = [pump EXCEPT !.attempts = @ + 1]
  /\ UNCHANGED <<row, deleted, job, log, requests, late, channel, index, crashes>>

AppendStdout ==
  /\ pump.at = "appending"
  /\ log' = log \o Lines(pump.task.cursor, pump.upto)
  /\ pump' = [pump EXCEPT !.at = "delivering"]
  /\ UNCHANGED <<row, deleted, job, requests, late, channel, index, crashes>>

\* failWith: the verdict and its announcement, unless the verdict cannot be saved.
FailWith ==
  /\ IF deleted
     THEN pump' = Idle /\ UNCHANGED <<row, channel>>
     ELSE /\ row' = Saved(Finished(pump.task, "failed", "error"))
          /\ Publish(<<ExitFrame("failed")>>)
          /\ pump' = [pump EXCEPT !.at = "releasing", !.task = Finished(@, "failed", "error")]
  /\ UNCHANGED <<deleted, job, log, requests, late, index, crashes>>

ReadThrows == pump.at = "reading" /\ FailWith
LogThrows == pump.at \in {"truncating", "appending"} /\ FailWith
KillThrows == pump.at = "killing" /\ FailWith

\* What the pump does once the row holds `task`.  The intent to cancel is read from the row.
Onwards(task) ==
  CASE pump.exited -> [pump EXCEPT !.at = "collecting",
                                   !.task = [task EXCEPT !.cancel = @ \/ row.cancel]]
    [] ~pump.exited /\ late -> [pump EXCEPT !.at = "killing", !.task = task, !.timedOut = TRUE]
    [] OTHER -> [pump EXCEPT !.at = "reading", !.task = task]

\* Events are published, then the cursor, the sequence number and the length are saved together.
AdvanceAndPersist ==
  /\ pump.at = "delivering"
  /\ LET events == Parse(Lines(pump.task.cursor, pump.upto))
         task == [pump.task EXCEPT !.cursor = pump.upto, !.bytes = pump.upto, !.seq = @ + Len(events)]
     IN  /\ Publish(Frames(events, pump.task.seq))
         /\ IF pump.upto = pump.task.cursor
            THEN pump' = Onwards(pump.task) /\ UNCHANGED row
            ELSE IF deleted
                 THEN pump' = Idle /\ UNCHANGED row
                 ELSE pump' = Onwards(task) /\ row' = Saved(task)
  /\ UNCHANGED <<deleted, job, log, requests, late, index, crashes>>

KillOverdue ==
  /\ pump.at = "killing"
  /\ job' = Signalled("deadline")
  /\ pump' = [pump EXCEPT !.at = "reading"]
  /\ UNCHANGED <<row, deleted, log, requests, late, channel, index, crashes>>

Verdict ==
  IF pump.task.cancel THEN "killed"
  ELSE IF pump.timedOut THEN "timed_out" ELSE VerdictFromExitCode(job.code)

\* The artifacts are listed; without its row the task cannot be finished any more.
Finish ==
  /\ pump.at = "collecting"
  /\ LET task == Finished(pump.task, Verdict, "exit")
     IN  IF deleted
         THEN pump' = [pump EXCEPT !.at = "releasing", !.task = task] /\ UNCHANGED row
         ELSE pump' = [pump EXCEPT !.at = "announcing", !.task = task] /\ row' = Saved(task)
  /\ UNCHANGED <<deleted, job, log, requests, late, channel, index, crashes>>

AnnounceExit ==
  /\ pump.at = "announcing"
  /\ Publish(<<ExitFrame(pump.task.status)>>)
  /\ pump' = [pump EXCEPT !.at = "releasing"]
  /\ UNCHANGED <<row, deleted, job, log, requests, late, index, crashes>>

ReleaseAndForget ==
  /\ pump.at = "releasing"
  /\ job' \in {job, Released}
  /\ index' = <<>>
  /\ subs' = DropIndex(subs)
  /\ pump' = Idle
  /\ UNCHANGED <<row, deleted, log, requests, late, current, view, crashes>>

-----------------------------------------------------------------------------
(* The request that cancels: the intent is recorded before the signal.     *)

Cancel ==
  /\ cancel = "idle" /\ cancels < MaxCancels
  /\ row.status = "running"
  /\ row' = [row EXCEPT !.cancel = TRUE]
  /\ cancel' = "killing" /\ cancels' = cancels + 1
  /\ UNCHANGED <<deleted, job, log, start, pump, late, channel, index, crashes>>

\* A variant that drops the session it has stopped.
CancelReleases ==
  /\ cancel = "killing"
  /\ cancel' = "idle"
  /\ job' \in {job, [Signalled("cancel") EXCEPT !.st = "released"]}
  /\ UNCHANGED <<row, deleted, log, start, pump, cancels, late, channel, index, crashes>>

CancelKill ==
  /\ cancel = "killing"
  /\ cancel' = "idle"
  /\ job' \in {job, Signalled("cancel")}
  /\ UNCHANGED <<row, deleted, log, start, pump, cancels, late, channel, index, crashes>>

-----------------------------------------------------------------------------
(* The job, the clock, the sandbox and the process.                        *)

JobPrints ==
  /\ job.st = "running" /\ job.out < Len(Weight)
  /\ job' = [job EXCEPT !.out = @ + 1]
  /\ UNCHANGED <<row, deleted, log, requests, pump, late, channel, index, crashes>>

JobExits ==
  /\ job.st = "running"
  /\ \E code \in ExitCodes : job' = [job EXCEPT !.st = "exited", !.code = code]
  /\ UNCHANGED <<row, deleted, log, requests, pump, late, channel, index, crashes>>

JobDies ==
  /\ job.st = "running" /\ job.signals # {}
  /\ job' = [job EXCEPT !.st = "exited", !.code = "signal"]
  /\ UNCHANGED <<row, deleted, log, requests, pump, late, channel, index, crashes>>

\* The session or the instance is gone.
JobLost ==
  /\ Readable
  /\ job' = [job EXCEPT !.st = "lost"]
  /\ UNCHANGED <<row, deleted, log, requests, pump, late, channel, index, crashes>>

DeadlinePasses ==
  /\ row.status = "running" /\ ~late
  /\ late' = TRUE
  /\ UNCHANGED <<row, deleted, job, log, requests, pump, channel, index, crashes>>

\* The row of the sandbox is deleted, and that of the task with it.
DeleteSandbox ==
  /\ ~deleted
  /\ deleted' = TRUE /\ row' = NoRow
  /\ UNCHANGED <<job, log, requests, pump, late, channel, index, crashes>>

ResumeRunning == IF ResumeOnBoot /\ row.status = "running" THEN PumpFrom(row) ELSE Idle

\* Everything in memory is lost.
CrashAndBoot ==
  /\ crashes < MaxCrashes
  /\ crashes' = crashes + 1
  /\ start' = IF start \in {"starting", "clearing", "dropping"} THEN "lost" ELSE start
  /\ cancel' = "idle"
  /\ pump' = ResumeRunning
  /\ subs' = [i \in DOMAIN subs |-> Gone]
  /\ current' = 0 /\ index' = <<>>
  /\ UNCHANGED <<row, deleted, job, log, cancels, late, view>>

-----------------------------------------------------------------------------
Init ==
  /\ row = NoRow /\ deleted = FALSE /\ job = NoJob /\ log = <<>>
  /\ start = "idle" /\ pump = Idle /\ cancel = "idle" /\ cancels = 0 /\ late = FALSE
  /\ subs = <<>> /\ current = 0 /\ index = <<>> /\ view = NewView /\ crashes = 0

StartStep == RunTask \/ JobAccepted \/ StartThrows \/ PersistStart \/ ClearKill \/ ClearRelease

PumpProgress == TruncateLog \/ ReadAnswers \/ AppendStdout \/ AdvanceAndPersist \/ KillOverdue
                \/ Finish \/ AnnounceExit \/ ReleaseAndForget

PumpFailure == ReadRetries \/ ReadThrows \/ LogThrows \/ KillThrows

ReplayStep == \E i \in DOMAIN subs : ReplayReads(i) \/ ReplayDelivers(i)

JobStep == JobPrints \/ JobExits \/ JobDies \/ JobLost

Next ==
  \/ StartStep \/ PumpProgress \/ PumpFailure \/ JobStep \/ ReplayStep
  \/ Cancel \/ CancelKill
  \/ \E fresh \in BOOLEAN : Subscribe(fresh)
  \/ Unsubscribe \/ DeadlinePasses \/ DeleteSandbox \/ CrashAndBoot

Spec == Init /\ [][Next]_vars

FairSpec ==
  /\ Spec
  /\ WF_vars(PumpProgress) /\ WF_vars(ReadThrows /\ ~Readable)
  /\ WF_vars(ReplayStep) /\ WF_vars(JobDies) /\ WF_vars(DeadlinePasses)

-----------------------------------------------------------------------------
TypeOK ==
  /\ row \in [status : Statuses \cup {"absent"}, cancel : BOOLEAN, how : {"none", "exit", "error"},
              cursor : Nat, seq : Nat, bytes : Nat]
  /\ deleted \in BOOLEAN /\ late \in BOOLEAN
  /\ job \in [st : {"none", "running", "exited", "lost", "released"}, out : 0..Len(Weight),
              code : {"none", "ok", "bad", "deadline", "signal"},
              signals : SUBSET {"start", "cancel", "deadline"}]
  /\ log \in Seq(1..Len(Weight))
  /\ start \in {"idle", "starting", "clearing", "dropping", "answered", "refused", "lost"}
  /\ pump.at \in {"off", "truncating", "reading", "appending", "delivering", "killing", "collecting",
                  "announcing", "releasing"}
  /\ pump.attempts \in 0..READ_RETRY_LIMIT
  /\ cancel \in {"idle", "killing"} /\ cancels \in 0..MaxCancels /\ crashes \in 0..MaxCrashes
  /\ current \in 0..Len(subs) /\ Len(subs) <= MaxSubscriptions

\* Whatever the client has received, over subscriptions, replays and restarts, is the
\* beginning of the events of the job's output: each once, in order, under its own seq.
SeenIsOutput ==
  LET events == Parse(Lines(0, job.out))
  IN  /\ Len(view.events) <= Len(events)
      /\ \A i \in 1..Len(view.events) : view.events[i] = <<i, events[i]>>

\* exit comes once, tells the verdict of the row, and nothing the row has counted is missing.
ExitIsComplete ==
  view.exit # "none" =>
    /\ view.exits = 1
    /\ row.status # "absent" => row.status = view.exit /\ row.seq <= Len(view.events)

\* What a client sees of a task is what the task did, to its end.
ViewIsExact == SeenIsOutput /\ ExitIsComplete

\* The log is a beginning of the output, and the row admits a part of it.
LogCoversRow ==
  log = Lines(0, Len(log)) /\ row.cursor = row.bytes /\ row.bytes <= Len(log) /\ row.cursor <= job.out

\* A pump that takes up the row continues exactly where its events end: cursor, seq and
\* length of the log belong together, and the log holds at least that much of the output.
ResumePointIsExact ==
  row.status # "absent" => LogCoversRow /\ row.seq = Len(Parse(Lines(0, row.cursor)))

\* A job that a cancel has signalled, and whose exit was read, is recorded as killed; and
\* nothing else is.
CancelledIsKilled ==
  /\ row.how = "exit" /\ "cancel" \in job.signals => row.status = "killed"
  /\ row.status = "killed" => row.cancel

\* The job's session is dropped only after the verdict is in the row, and after all its
\* output is when the job has come to its end.
ReleasedAfterVerdict ==
  job.st = "released" /\ row.status # "absent" =>
    /\ row.status \in Terminal
    /\ row.how = "exit" => row.cursor = job.out

\* A finished row is never written again.
VerdictIsFinal == [][row.status \in Terminal => row' = row \/ row'.status = "absent"]_vars

\* The verdict of a task is its last word: nothing is dropped before, nothing written after it.
VerdictIsLast ==
  [][/\ ReleasedAfterVerdict'
     /\ row.status \in Terminal => row' = row \/ row'.status = "absent"]_vars

\* A running task ends: by its exit, by the deadline, or because it cannot be read any more.
TaskEnds == row.status = "running" ~> row.status # "running"

\* A client that stays subscribed learns of the end, unless the task is deleted with its sandbox.
ExitArrives ==
  \A i \in 1..MaxSubscriptions : current = i ~> current # i \/ view.exit # "none" \/ deleted

\* A task comes to its end, and who watches it learns so.
EndIsSeen == TaskEnds /\ ExitArrives

\* There is never a job without a record of it but while the request that starts it runs.
JobHasRow == job.st = "running" /\ start = "lost" => row.status # "absent"

\* A job the platform has stopped at its deadline is recorded as timed out.
TimedOutIsRecorded ==
  row.how = "exit" /\ job.signals = {"deadline"} /\ ~row.cancel => row.status = "timed_out"
=============================================================================
