---------------------------- MODULE CronService ----------------------------
(***************************************************************************)
(* cron.Service (internal/core/cron/service.go) with the job state it      *)
(* keeps (types.go): the timer goroutine, which looks for due jobs and     *)
(* executes them one after the other, goroutines that run a job by hand,   *)
(* and the operations that add, remove, enable, disable and persist jobs.  *)
(* jobsMutex protects single critical sections; between them the           *)
(* goroutines hold *Job pointers that other operations have left behind.   *)
(*                                                                         *)
(* generateJobID makes a new ID for every job added, so an ID stands for   *)
(* the Job object as well.  Writing the store is one step here; CronStore  *)
(* takes it apart.  Time is a bounded clock.                               *)
(***************************************************************************)
EXTENDS Naturals, Sequences, FiniteSets

CONSTANTS
  Jobs,        \* job IDs
  Ats,         \* the times a one-shot job may be for
  Every,       \* EveryDuration of the "every" jobs
  Backoffs,    \* the delays of GetBackoffDelay, shortest first
  Timer,       \* the timer goroutine
  Runners,     \* goroutines that call RunJob
  NoJob,
  MaxNow,      \* bound: the clock
  MaxErrors,   \* bound: consecutive errors counted
  Crashes,     \* bound: how often the process is killed
  Operations   \* which of "stop", "remove", "toggle" the operator uses

ASSUME CronAssumption ==
  /\ Ats \subseteq Nat \ {0} /\ Every \in Nat \ {0}
  /\ Backoffs \in Seq(Nat) /\ Backoffs # <<>>
  /\ Timer \notin Runners /\ NoJob \notin Jobs
  /\ MaxNow \in Nat \ {0} /\ MaxErrors \in Nat /\ Crashes \in Nat

VARIABLES
  now,      \* the clock
  jobs,     \* the keys of s.jobs
  state,    \* Schedule.At and the JobState of every job object; a time is 0 when nil
  added,    \* the IDs generated so far
  disk,     \* the store: its jobs and their states
  running,  \* s.running
  stopping, \* Stop is waiting for the timer goroutine, with jobsMutex held
  pc,       \* where each goroutine is
  job,      \* the *Job a goroutine works on
  due,      \* the timer's dueJobs still to be executed
  list,     \* the jobs a goroutine's persistJobs has collected
  timerRuns,\* history: executions started by the timer goroutine
  endedAt,  \* history: when the last execution ended
  crashes

goroutines == <<pc, job, due, list>>
vars == <<now, jobs, state, added, disk, running, stopping, goroutines, timerRuns, endedAt, crashes>>

Procs == Runners \cup {Timer}
JobState == [at : Ats \cup {0}, enabled : BOOLEAN, runningAt : 0..MaxNow, nextRunAt : Nat,
             backoffUntil : Nat, errors : 0..MaxErrors]

TypeOK ==
  /\ now \in 1..MaxNow
  /\ added \subseteq Jobs /\ jobs \subseteq added
  /\ state \in [Jobs -> JobState]
  /\ disk.jobs \subseteq added /\ disk.state \in [Jobs -> JobState]
  /\ running \in BOOLEAN /\ stopping \in BOOLEAN
  /\ pc \in [Procs -> {"off", "idle", "ticked", "starting", "executing", "collecting", "saving"}]
  /\ job \in [Procs -> added \cup {NoJob}]
  /\ due \subseteq added
  /\ list \in [Procs -> SUBSET added]
  /\ timerRuns \in [Jobs -> 0..2] /\ endedAt \in [Jobs -> 0..now]
  /\ crashes \in 0..Crashes

NoState == [at |-> 0, enabled |-> FALSE, runningAt |-> 0, nextRunAt |-> 0, backoffUntil |-> 0, errors |-> 0]

Init ==
  /\ now = 1
  /\ jobs = {} /\ added = {}
  /\ state = [j \in Jobs |-> NoState]
  /\ disk = [jobs |-> {}, state |-> state]
  /\ running = FALSE /\ stopping = FALSE
  /\ pc = [p \in Procs |-> IF p = Timer THEN "off" ELSE "idle"]
  /\ job = [p \in Procs |-> NoJob]
  /\ due = {} /\ list = [p \in Procs |-> {}]
  /\ timerRuns = [j \in Jobs |-> 0]
  /\ endedAt = [j \in Jobs |-> 0]
  /\ crashes = 0

-----------------------------------------------------------------------------
(* Job (types.go).                                                         *)
OneShot(j) == state[j].at # 0
IsRunning(j) == state[j].runningAt # 0

\* CalculateNextRun of a job "at" a time, or every Every when at = 0: 0 (nil) for a
\* one-shot job whose time is past.
NextRun(at, from) == IF at = 0 THEN from + Every
                     ELSE IF at > from THEN at ELSE 0

ShouldRunNoBackoff(j) ==  \* mutant: forgets the error backoff
  /\ state[j].enabled /\ ~IsRunning(j)
  /\ state[j].nextRunAt # 0 /\ state[j].nextRunAt <= now

ShouldRun(j) ==
  /\ state[j].enabled
  /\ ~IsRunning(j)
  /\ now >= state[j].backoffUntil
  /\ state[j].nextRunAt # 0 /\ state[j].nextRunAt <= now

BackoffDelay(n) == IF n = 0 THEN 0
                   ELSE IF n > Len(Backoffs) THEN Backoffs[Len(Backoffs)] ELSE Backoffs[n]

\* MarkCompleted and the rest of the second critical section of executeJob.
CompletedKeepsOneShot(s, j, ok) ==  \* mutant: a one-shot job stays enabled with its old time
  LET errors == IF ok THEN 0 ELSE IF s.errors < MaxErrors THEN s.errors + 1 ELSE s.errors
  IN [s EXCEPT !.runningAt = 0, !.errors = errors,
               !.nextRunAt = IF OneShot(j) THEN s.at ELSE NextRun(s.at, now)]

CompletedDecrement(s, j, ok) ==  \* mutant: a success takes one error back, even of none
  LET errors == IF ok THEN s.errors - 1 ELSE IF s.errors < MaxErrors THEN s.errors + 1 ELSE s.errors
  IN [s EXCEPT !.runningAt = 0, !.errors = errors, !.nextRunAt = NextRun(s.at, now)]

Completed(s, j, ok) ==
  LET errors == IF ok THEN 0 ELSE IF s.errors < MaxErrors THEN s.errors + 1 ELSE s.errors
      done   == [s EXCEPT !.runningAt = 0, !.errors = errors]
      next   == NextRun(s.at, now)
      until  == now + BackoffDelay(errors)
  IN IF OneShot(j) THEN [done EXCEPT !.enabled = FALSE, !.nextRunAt = 0]
     ELSE IF ok THEN [done EXCEPT !.nextRunAt = next]
     ELSE [done EXCEPT !.backoffUntil = until, !.nextRunAt = IF next < until THEN until ELSE next]

-----------------------------------------------------------------------------
(* Operations under jobsMutex.  persistJobs is called with it held.        *)
Saved(js, st) == [jobs |-> js, state |-> [j \in Jobs |-> IF j \in js THEN st[j] ELSE NoState]]
Persist == disk' = Saved(jobs', state')

Start ==
  /\ ~stopping /\ ~running
  /\ running' = TRUE
  /\ pc' = [pc EXCEPT ![Timer] = "idle"]
  /\ UNCHANGED <<now, jobs, state, added, disk, stopping, job, due, list, timerRuns, endedAt, crashes>>

\* A job comes enabled or not; an enabled one-shot job must lie in the future.
AddJob(j, at, enabled) ==
  /\ ~stopping /\ j \notin added
  /\ enabled => NextRun(at, now) # 0
  /\ added' = added \cup {j}
  /\ jobs' = jobs \cup {j}
  /\ state' = [state EXCEPT ![j] = [NoState EXCEPT !.at = at, !.enabled = enabled,
                                      !.nextRunAt = IF enabled THEN NextRun(at, now) ELSE 0]]
  /\ UNCHANGED <<now, running, stopping, goroutines, timerRuns, endedAt, crashes>>
  /\ Persist

RemoveJob(j) ==
  /\ "remove" \in Operations
  /\ ~stopping /\ j \in jobs
  /\ jobs' = jobs \ {j}
  /\ UNCHANGED <<now, state, added, running, stopping, goroutines, timerRuns, endedAt, crashes>>
  /\ Persist

\* Enabling a one-shot job whose time is past fails after Enabled is set, and
\* the failed update is not persisted.
EnableJob(j) ==
  /\ "toggle" \in Operations
  /\ ~stopping /\ j \in jobs
  /\ state' = [state EXCEPT ![j].enabled = TRUE, ![j].nextRunAt = NextRun(state[j].at, now)]
  /\ UNCHANGED <<now, jobs, added, running, stopping, goroutines, timerRuns, endedAt, crashes>>
  /\ IF NextRun(state[j].at, now) = 0 THEN UNCHANGED disk ELSE Persist

DisableJob(j) ==
  /\ "toggle" \in Operations
  /\ ~stopping /\ j \in jobs
  /\ state' = [state EXCEPT ![j].enabled = FALSE, ![j].nextRunAt = 0]
  /\ UNCHANGED <<now, jobs, added, running, stopping, goroutines, timerRuns, endedAt, crashes>>
  /\ Persist

\* Stop closes timerStop and waits for the timer goroutine, holding jobsMutex.
Stop ==
  /\ "stop" \in Operations
  /\ ~stopping /\ running
  /\ stopping' = TRUE
  /\ UNCHANGED <<now, jobs, state, added, disk, running, goroutines, timerRuns, endedAt, crashes>>

StopDone ==
  /\ stopping /\ pc[Timer] = "off"
  /\ stopping' = FALSE /\ running' = FALSE
  /\ UNCHANGED <<now, jobs, state, added, goroutines, timerRuns, endedAt, crashes>>
  /\ Persist

-----------------------------------------------------------------------------
(* The timer goroutine: timerStop is closed, or the context of the command *)
(* that started the service is done.                                       *)
TimerStop ==
  /\ "stop" \in Operations
  /\ pc[Timer] = "idle"
  /\ pc' = [pc EXCEPT ![Timer] = "off"]
  /\ UNCHANGED <<now, jobs, state, added, disk, running, stopping, job, due, list, timerRuns, endedAt, crashes>>

\* A tick of the ticker ...
TakeTick ==
  /\ pc[Timer] = "idle"
  /\ pc' = [pc EXCEPT ![Timer] = "ticked"]
  /\ UNCHANGED <<now, jobs, state, added, disk, running, stopping, job, due, list, timerRuns, endedAt, crashes>>

\* ... and checkAndRunJobs gets the lock and collects the due jobs.
CheckAndRunJobs ==
  /\ pc[Timer] = "ticked" /\ ~stopping
  /\ due' = {j \in jobs : ShouldRun(j)}
  /\ pc' = [pc EXCEPT ![Timer] = IF due' = {} THEN "idle" ELSE "starting"]
  /\ UNCHANGED <<now, jobs, state, added, disk, running, stopping, job, list, timerRuns, endedAt, crashes>>

\* RunJob: with force, whether the job is enabled makes no difference.
RunJob(p, j) ==
  /\ pc[p] = "idle" /\ p # Timer
  /\ ~stopping /\ j \in jobs
  /\ job' = [job EXCEPT ![p] = j]
  /\ pc' = [pc EXCEPT ![p] = "starting"]
  /\ UNCHANGED <<now, jobs, state, added, disk, running, stopping, due, list, timerRuns, endedAt, crashes>>

-----------------------------------------------------------------------------
(* executeJob.  The timer takes its due jobs in any order (map iteration). *)
Candidates(p) == IF p = Timer THEN due ELSE {job[p]}

\* After its job: the timer goes on with the next due job.
Rest(p) == p = Timer /\ due' # {}
GotoNext(p) ==  \* mutant: goes on with a next due job although there is none
  IF p = Timer THEN "starting" ELSE "idle"
Goto(p) == IF Rest(p) THEN "starting" ELSE "idle"

\* The first critical section.  The job is executed although it is disabled, not
\* due any more, or gone from s.jobs, in which case it is put back.
BeginExecutionUnguarded(p, j) ==  \* mutant: does not refuse a job that is running
  /\ pc[p] = "starting" /\ ~stopping
  /\ j \in Candidates(p)
  /\ due' = IF p = Timer THEN due \ {j} ELSE due
  /\ state' = [state EXCEPT ![j].runningAt = now]
  /\ jobs' = jobs \cup {j}
  /\ job' = [job EXCEPT ![p] = j]
  /\ pc' = [pc EXCEPT ![p] = "executing"]
  /\ timerRuns' = [timerRuns EXCEPT ![j] = IF p = Timer /\ @ < 2 THEN @ + 1 ELSE @]
  /\ UNCHANGED <<now, added, disk, running, stopping, list, endedAt, crashes>>

BeginExecution(p, j) ==
  /\ pc[p] = "starting" /\ ~stopping
  /\ j \in Candidates(p)
  /\ due' = IF p = Timer THEN due \ {j} ELSE due
  /\ IF IsRunning(j)
     THEN /\ pc' = [pc EXCEPT ![p] = Goto(p)]
          /\ job' = [job EXCEPT ![p] = NoJob]
          /\ UNCHANGED <<state, jobs, timerRuns>>
     ELSE /\ state' = [state EXCEPT ![j].runningAt = now]
          /\ jobs' = jobs \cup {j}
          /\ job' = [job EXCEPT ![p] = j]
          /\ pc' = [pc EXCEPT ![p] = "executing"]
          /\ timerRuns' = [timerRuns EXCEPT ![j] = IF p = Timer /\ @ < 2 THEN @ + 1 ELSE @]
  /\ UNCHANGED <<now, added, disk, running, stopping, list, endedAt, crashes>>

\* The executor is done, or its timeout is over: the second critical section.
EndExecution(p, ok) ==
  /\ pc[p] = "executing" /\ ~stopping
  /\ state' = [state EXCEPT ![job[p]] = Completed(@, job[p], ok)]
  /\ jobs' = jobs \cup {job[p]}
  /\ pc' = [pc EXCEPT ![p] = "collecting"]
  /\ endedAt' = [endedAt EXCEPT ![job[p]] = now]
  /\ UNCHANGED <<now, added, disk, running, stopping, job, due, list, timerRuns, crashes>>

\* persistJobs without jobsMutex: it collects the jobs ...
CollectJobs(p) ==
  /\ pc[p] = "collecting"
  /\ list' = [list EXCEPT ![p] = jobs]
  /\ pc' = [pc EXCEPT ![p] = "saving"]
  /\ UNCHANGED <<now, jobs, state, added, disk, running, stopping, job, due, timerRuns, endedAt, crashes>>

\* ... and writes what it has collected.
SaveJobs(p) ==
  /\ pc[p] = "saving"
  /\ disk' = Saved(list[p], state)
  /\ list' = [list EXCEPT ![p] = {}]
  /\ job' = [job EXCEPT ![p] = NoJob]
  /\ UNCHANGED due
  /\ pc' = [pc EXCEPT ![p] = Goto(p)]
  /\ UNCHANGED <<now, jobs, state, added, running, stopping, timerRuns, endedAt, crashes>>

-----------------------------------------------------------------------------
Tick ==
  /\ now < MaxNow
  /\ now' = now + 1
  /\ UNCHANGED <<jobs, state, added, disk, running, stopping, goroutines, timerRuns, endedAt, crashes>>

\* The process is killed; a new one loads the store (NewService, loadJobs).
Crash ==
  /\ crashes < Crashes
  /\ crashes' = crashes + 1
  /\ jobs' = disk.jobs /\ state' = disk.state
  /\ running' = FALSE /\ stopping' = FALSE
  /\ pc' = [p \in Procs |-> IF p = Timer THEN "off" ELSE "idle"]
  /\ job' = [p \in Procs |-> NoJob]
  /\ due' = {} /\ list' = [p \in Procs |-> {}]
  /\ timerRuns' = [j \in Jobs |-> 0]
  /\ endedAt' = [j \in Jobs |-> 0]
  /\ UNCHANGED <<now, added, disk>>

Step(p) == \/ \E j \in Jobs : RunJob(p, j) \/ BeginExecution(p, j)
           \/ \E ok \in BOOLEAN : EndExecution(p, ok)
           \/ CollectJobs(p) \/ SaveJobs(p)

Next ==
  \/ Start \/ Stop \/ StopDone \/ TimerStop \/ TakeTick \/ CheckAndRunJobs \/ Tick \/ Crash
  \/ \E j \in Jobs : \/ \E at \in Ats \cup {0}, enabled \in BOOLEAN : AddJob(j, at, enabled)
                     \/ RemoveJob(j) \/ EnableJob(j) \/ DisableJob(j)
  \/ \E p \in Procs : Step(p)

Spec == Init /\ [][Next]_vars

(* The goroutines run; the executor is bounded by DefaultTimeout; the      *)
(* ticker fires.  RunJob and the operator's calls come when they like.     *)
Fairness ==
  /\ \A p \in Procs : /\ \A j \in Jobs : WF_vars(BeginExecution(p, j))
                      /\ WF_vars(EndExecution(p, TRUE) \/ EndExecution(p, FALSE))
                      /\ WF_vars(CollectJobs(p)) /\ WF_vars(SaveJobs(p))
  /\ WF_vars(Start) /\ WF_vars(StopDone) /\ WF_vars(TimerStop)
  /\ WF_vars(TakeTick) /\ WF_vars(CheckAndRunJobs) /\ WF_vars(Tick)

FairSpec == Spec /\ Fairness

-----------------------------------------------------------------------------
Executing(p, j) == pc[p] = "executing" /\ job[p] = j

\* A job is never executed by two goroutines at once, whether the timer and
\* RunJob meet, or the job is removed and put back meanwhile (executeJob, 365-378),
\* and in a process that loaded no marks from the store it is marked running
\* exactly while one executes it ("Set when job is running", types.go:102).
NoOverlap ==
  /\ \A p, q \in Procs, j \in Jobs : Executing(p, j) /\ Executing(q, j) => p = q
  /\ crashes = 0 => \A j \in jobs : IsRunning(j) <=> \E p \in Procs : Executing(p, j)

\* "One-shot jobs disable after any terminal status" (types.go:238): the timer
\* executes a one-shot job once, however often the job is disabled, enabled and
\* run by hand around its time.
OneShotOnce == \A j \in Jobs : OneShot(j) => timerRuns[j] <= 1

\* A job that is due is executed or stops being due, unless the timer ends.
DueJobRuns == \A j \in Jobs :
  (j \in jobs /\ pc[Timer] # "off" /\ ShouldRun(j))
    ~> (~ShouldRun(j) \/ j \notin jobs \/ pc[Timer] = "off" \/ stopping)

\* Stop returns, but for one that meets the timer goroutine where it waits for
\* jobsMutex or is about to: these two wait for each other (Stop, 116).
StopReturns == stopping ~> (~stopping \/ pc[Timer] \in {"ticked", "starting", "executing"})

\* The timer goroutine serves the jobs that are due, and Stop in all states but
\* those in which the two wait for each other.
TimerServes == DueJobRuns /\ StopReturns

\* After k errors in a row the timer finds the job due again no earlier than
\* the k-th delay (executeJob, 426-434), also when the job was enabled anew.
BackoffKept ==
  [][\A j \in due' \ due : ~OneShot(j) /\ state[j].errors > 0 =>
       now >= endedAt[j] + BackoffDelay(state[j].errors)]_vars
=============================================================================
