----------------------------- MODULE CronProofs -----------------------------
(***************************************************************************)
(* Proofs about CronService, for any jobs, goroutines, times, delays and   *)
(* kills: a job is never executed twice at once and its running mark is    *)
(* exact, the timer executes a one-shot job once in a process, and no job  *)
(* is due before its backoff is over.  At the end, proofs about CronStore, *)
(* which takes the saving of the jobs apart.                               *)
(***************************************************************************)
EXTENDS CronService, CronStore, SequenceTheorems, TLAPS

\* The assumption without the sequence of delays, which no step but DelayIsNat needs.
LEMMA Constants ==
  /\ Ats \subseteq Nat \ {0} /\ Every \in Nat \ {0}
  /\ Timer \notin Runners /\ NoJob \notin Jobs
  /\ MaxNow \in Nat \ {0} /\ MaxErrors \in Nat /\ Crashes \in Nat
BY CronAssumption

USE Constants

-----------------------------------------------------------------------------
(* The inductive invariant.                                                *)

\* A goroutine that executes a job, or is about to, has one that was added; the
\* mark of an executing job is set, and the first process has no other marks.  A
\* service that is not running has no timer goroutine.
Marks ==
  /\ \A p, q \in Procs : pc[p] = "executing" /\ pc[q] = "executing" /\ job[p] = job[q] => p = q
  /\ \A p \in Procs : pc[p] = "executing" => job[p] \in added /\ IsRunning(job[p])
  /\ \A p \in Runners : pc[p] = "starting" => job[p] \in added
  /\ ~running => pc[Timer] = "off"
  /\ crashes = 0 => \A j \in Jobs : IsRunning(j) => \E p \in Procs : Executing(p, j)

\* A one-shot job is due at its time or never, in the store as well.
Timed(s) == s.at # 0 => s.nextRunAt \in {0, s.at}

\* When the timer has executed a one-shot job its time is past, so whatever enables
\* it from then on leaves it without a next run; until then it is still executing.
OneShots ==
  /\ \A j \in Jobs : Timed(state[j]) /\ Timed(disk.state[j])
  /\ \A j \in Jobs \ added : timerRuns[j] = 0
  /\ \A j \in due : OneShot(j) => timerRuns[j] = 0 /\ state[j].at <= now
  /\ \A j \in Jobs : OneShot(j) /\ timerRuns[j] > 0 =>
       /\ timerRuns[j] = 1 /\ state[j].at <= now
       /\ Executing(Timer, j) \/ state[j].nextRunAt = 0

\* The end of the backoff is counted from the end of the last execution; of a state
\* loaded from the store that end is not known.
Delayed(s, from) == s.at = 0 /\ s.errors > 0 => s.backoffUntil >= from + BackoffDelay(s.errors)
Delays == \A j \in Jobs : Delayed(state[j], endedAt[j]) /\ Delayed(disk.state[j], 0)

IInv == TypeOK /\ Marks /\ OneShots /\ Delays

-----------------------------------------------------------------------------
(* Times, delays and states of jobs.                                       *)

\* Every delay is a number.
LEMMA DelayIsNat == \A n \in Nat : BackoffDelay(n) \in Nat
<1>1. Len(Backoffs) \in Nat /\ Len(Backoffs) # 0
  BY CronAssumption, LenProperties, EmptySeq
<1>2. \A i \in 1..Len(Backoffs) : Backoffs[i] \in Nat
  BY CronAssumption, ElementOfSeq
<1>q. QED
  BY <1>1, <1>2 DEF BackoffDelay

\* A job with nothing set.
LEMMA NoStateType == NoState \in JobState /\ Timed(NoState) /\ Delayed(NoState, 0)
BY DEF NoState, JobState, Timed, Delayed

\* The next run of a job is a number, and of a one-shot job its time or none.
LEMMA NextRunType ==
  ASSUME NEW at \in Ats \cup {0}, NEW from \in Nat
  PROVE  /\ NextRun(at, from) \in Nat
         /\ at # 0 => NextRun(at, from) \in {0, at}
         /\ at # 0 /\ at <= from => NextRun(at, from) = 0
BY DEF NextRun

\* The fields of the state of a job, as numbers.
LEMMA StateTypes ==
  ASSUME IInv
  PROVE  \A j \in Jobs : state[j] \in JobState /\ state[j].at \in Ats \cup {0} /\ state[j].at \in Nat
<1>1. \A j \in Jobs : state[j] \in JobState
  BY DEF IInv, TypeOK
<1>2. \A j \in Jobs : state[j].at \in Ats \cup {0}
  BY <1>1 DEF JobState
<1>3. Ats \cup {0} \subseteq Nat
  OBVIOUS
<1>q. QED
  BY <1>1, <1>2, <1>3

\* What the end of an execution makes of the state of a job.
LEMMA CompletedState ==
  ASSUME NEW j \in Jobs, state[j] \in JobState, NEW ok \in BOOLEAN, now \in 1..MaxNow
  PROVE  LET s == Completed(state[j], j, ok)
         IN /\ s \in JobState /\ s.at = state[j].at
            /\ s.runningAt = 0
            /\ s.at # 0 => s.nextRunAt = 0
            /\ Delayed(s, now)
<1> DEFINE errors == IF ok THEN 0
                     ELSE IF state[j].errors < MaxErrors THEN state[j].errors + 1 ELSE state[j].errors
           next == NextRun(state[j].at, now)
           until == now + BackoffDelay(errors)
<1>1. errors \in 0..MaxErrors
  BY DEF JobState
<1>2. next \in Nat
  <2>1. state[j].at \in Ats \cup {0}
    BY DEF JobState
  <2>2. now \in Nat
    OBVIOUS
  <2>3. NextRun(state[j].at, now) \in Nat
    BY <2>1, <2>2, NextRunType
  <2>q. QED
    BY <2>3
<1>3. until \in Nat
  <2>1. BackoffDelay(errors) \in Nat
    BY <1>1, DelayIsNat
  <2>q. QED
    BY <2>1
<1>4. until = now + BackoffDelay(errors)
  OBVIOUS
<1> HIDE DEF next
<1>5. CASE OneShot(j)
  <2>1. Completed(state[j], j, ok) =
         [at |-> state[j].at, enabled |-> FALSE, runningAt |-> 0, nextRunAt |-> 0,
          backoffUntil |-> state[j].backoffUntil, errors |-> errors]
    BY <1>5 DEF Completed, JobState, next
  <2> HIDE DEF errors, until
  <2>2. Completed(state[j], j, ok) \in JobState
    BY <1>1, <1>2, <1>3, <2>1 DEF JobState
  <2>3. Delayed(Completed(state[j], j, ok), now)
    BY <1>5, <2>1 DEF OneShot, Delayed
  <2>q. QED
    BY <1>5, <2>1, <2>2, <2>3 DEF OneShot
<1>6. CASE ~OneShot(j) /\ ok
  <2>1. Completed(state[j], j, ok) =
         [at |-> state[j].at, enabled |-> state[j].enabled, runningAt |-> 0, nextRunAt |-> next,
          backoffUntil |-> state[j].backoffUntil, errors |-> 0]
    BY <1>6 DEF Completed, JobState, next
  <2>2. state[j].at = 0
    BY <1>6 DEF OneShot
  <2> HIDE DEF errors, until
  <2>3. Completed(state[j], j, ok) \in JobState
    BY <1>1, <1>2, <1>3, <2>1 DEF JobState
  <2>4. Delayed(Completed(state[j], j, ok), now)
    BY <2>1, <2>2 DEF Delayed
  <2>q. QED
    BY <2>1, <2>2, <2>3, <2>4
<1>7. CASE ~OneShot(j) /\ ~ok
  <2> DEFINE later == IF next < until THEN until ELSE next
  <2>z. later \in Nat
    BY <1>2, <1>3
  <2>1. Completed(state[j], j, ok) =
         [at |-> state[j].at, enabled |-> state[j].enabled, runningAt |-> 0, nextRunAt |-> later,
          backoffUntil |-> until, errors |-> errors]
    BY <1>7 DEF Completed, JobState, next
  <2>2. state[j].at = 0
    BY <1>7 DEF OneShot
  <2> HIDE DEF errors, until, later
  <2>3. Completed(state[j], j, ok) \in JobState
    BY <1>1, <1>2, <1>3, <2>z, <2>1 DEF JobState
  <2>4. Delayed(Completed(state[j], j, ok), now)
    BY <1>1, <1>3, <1>4, DelayIsNat, <2>1, <2>2 DEF Delayed
  <2>q. QED
    BY <2>1, <2>2, <2>3, <2>4
<1>q. QED
  BY <1>5, <1>6, <1>7

\* What is saved is the state of a job, or nothing.
LEMMA SavedState ==
  ASSUME NEW js, NEW st \in [Jobs -> JobState],
         \A j \in Jobs : Timed(st[j]) /\ Delayed(st[j], 0)
  PROVE  /\ Saved(js, st).jobs = js /\ Saved(js, st).state \in [Jobs -> JobState]
         /\ \A j \in Jobs : Timed(Saved(js, st).state[j]) /\ Delayed(Saved(js, st).state[j], 0)
<1>1. \A j \in Jobs : Saved(js, st).state[j] \in {st[j], NoState}
  BY DEF Saved
<1>q. QED
  BY <1>1, NoStateType DEF Saved

-----------------------------------------------------------------------------
(* The initial states and the steps.                                       *)

LEMMA InitHolds == Init => IInv
<1> SUFFICES ASSUME Init PROVE IInv
  OBVIOUS
<1>1. TypeOK
  <2>1. state \in [Jobs -> JobState]
    BY NoStateType DEF Init
  <2>2. /\ pc \in [Procs -> {"off", "idle", "starting", "executing", "collecting", "saving"}]
        /\ job \in [Procs -> added \cup {NoJob}] /\ list \in [Procs -> SUBSET added]
    BY DEF Init
  <2>3. timerRuns \in [Jobs -> 0..2] /\ endedAt \in [Jobs -> 0..now]
    BY DEF Init
  <2>4. now \in 1..MaxNow /\ crashes \in 0..Crashes
    BY DEF Init
  <2>5. disk.jobs \subseteq added /\ disk.state = state
    BY DEF Init
  <2>q. QED
    BY <2>1, <2>2, <2>3, <2>4, <2>5, Zenon DEF Init, TypeOK
<1>2. Marks
  BY DEF Init, Marks, Procs, IsRunning, NoState
<1>3. OneShots
  BY NoStateType DEF Init, OneShots, OneShot, NoState
<1>4. Delays
  BY NoStateType DEF Init, Delays
<1>q. QED
  BY <1>1, <1>2, <1>3, <1>4 DEF IInv

LEMMA StartKeeps ==
  ASSUME IInv, Start
  PROVE  IInv'
<1> USE DEF Start, Marks
<1>1. TypeOK'
  BY DEF IInv, TypeOK, Procs, JobState
<1>2. Marks'
  BY DEF IInv, TypeOK, Marks, Procs, IsRunning, Executing
<1>3. OneShots'
  BY DEF IInv, TypeOK, JobState, OneShots, OneShot, Executing, Timed, Procs
<1>4. Delays'
  BY DEF IInv, TypeOK, JobState, Delays, Delayed
<1>q. QED
  BY <1>1, <1>2, <1>3, <1>4 DEF IInv

LEMMA StopKeeps ==
  ASSUME IInv, Stop
  PROVE  IInv'
<1> USE DEF Stop, goroutines
<1>1. TypeOK'
  BY DEF IInv, TypeOK, Procs, JobState
<1>2. Marks'
  BY DEF IInv, TypeOK, Marks, Procs, IsRunning, Executing
<1>3. OneShots'
  BY DEF IInv, TypeOK, JobState, OneShots, OneShot, Executing, Timed, Procs
<1>4. Delays'
  BY DEF IInv, TypeOK, JobState, Delays, Delayed
<1>q. QED
  BY <1>1, <1>2, <1>3, <1>4 DEF IInv

LEMMA TimerStopKeeps ==
  ASSUME IInv, TimerStop
  PROVE  IInv'
<1> USE DEF TimerStop
<1>1. TypeOK'
  BY DEF IInv, TypeOK, Procs, JobState
<1>2. Marks'
  BY DEF IInv, TypeOK, Marks, Procs, IsRunning, Executing
<1>3. OneShots'
  BY DEF IInv, TypeOK, JobState, OneShots, OneShot, Executing, Timed, Procs
<1>4. Delays'
  BY DEF IInv, TypeOK, JobState, Delays, Delayed
<1>q. QED
  BY <1>1, <1>2, <1>3, <1>4 DEF IInv

LEMMA TickKeeps ==
  ASSUME IInv, Tick
  PROVE  IInv'
<1>n. \A j \in Jobs : state[j].at <= now => state[j].at <= now'
  <2>1. now \in Nat /\ now' = now + 1
    BY DEF IInv, TypeOK, Tick
  <2>2. \A j \in Jobs : state[j].at \in Nat
    BY StateTypes
  <2>q. QED
    BY <2>1, <2>2
<1> USE DEF Tick, goroutines
<1>1. TypeOK'
  BY DEF IInv, TypeOK, Procs, JobState
<1>2. Marks'
  BY DEF IInv, TypeOK, Marks, Procs, IsRunning, Executing
<1>3. OneShots'
  BY <1>n DEF IInv, TypeOK, JobState, OneShots, OneShot, Executing, Timed, Procs
<1>4. Delays'
  BY DEF IInv, TypeOK, JobState, Delays, Delayed
<1>q. QED
  BY <1>1, <1>2, <1>3, <1>4 DEF IInv

LEMMA TakeTickKeeps ==
  ASSUME IInv, TakeTick
  PROVE  IInv'
<1> USE DEF TakeTick
<1>1. TypeOK'
  BY DEF IInv, TypeOK, Procs, JobState
<1>2. Marks'
  BY DEF IInv, TypeOK, Marks, Procs, IsRunning, Executing
<1>3. OneShots'
  BY DEF IInv, TypeOK, JobState, OneShots, OneShot, Executing, Timed, Procs
<1>4. Delays'
  BY DEF IInv, TypeOK, JobState, Delays, Delayed
<1>q. QED
  BY <1>1, <1>2, <1>3, <1>4 DEF IInv

LEMMA CheckAndRunJobsKeeps ==
  ASSUME IInv, CheckAndRunJobs
  PROVE  IInv'
<1> USE DEF CheckAndRunJobs, ShouldRun
<1>1. TypeOK'
  BY DEF IInv, TypeOK, Procs, JobState
<1>2. Marks'
  BY DEF IInv, TypeOK, Marks, Procs, IsRunning, Executing
<1>3. OneShots'
  BY DEF IInv, TypeOK, JobState, OneShots, OneShot, Executing, Timed, Procs
<1>4. Delays'
  BY DEF IInv, TypeOK, JobState, Delays, Delayed
<1>q. QED
  BY <1>1, <1>2, <1>3, <1>4 DEF IInv

LEMMA RunJobKeeps ==
  ASSUME IInv, NEW p \in Procs, NEW j \in Jobs, RunJob(p, j)
  PROVE  IInv'
<1> USE DEF RunJob
<1>1. TypeOK'
  BY DEF IInv, TypeOK, Procs, JobState
<1>2. Marks'
  BY DEF IInv, TypeOK, Marks, Procs, IsRunning, Executing
<1>3. OneShots'
  BY DEF IInv, TypeOK, JobState, OneShots, OneShot, Executing, Timed, Procs
<1>4. Delays'
  BY DEF IInv, TypeOK, JobState, Delays, Delayed
<1>q. QED
  BY <1>1, <1>2, <1>3, <1>4 DEF IInv

LEMMA CollectJobsKeeps ==
  ASSUME IInv, NEW p \in Procs, CollectJobs(p)
  PROVE  IInv'
<1> USE DEF CollectJobs
<1>1. TypeOK'
  BY DEF IInv, TypeOK, Procs, JobState
<1>2. Marks'
  BY DEF IInv, TypeOK, Marks, Procs, IsRunning, Executing
<1>3. OneShots'
  BY DEF IInv, TypeOK, JobState, OneShots, OneShot, Executing, Timed, Procs
<1>4. Delays'
  BY DEF IInv, TypeOK, JobState, Delays, Delayed
<1>q. QED
  BY <1>1, <1>2, <1>3, <1>4 DEF IInv

LEMMA CrashKeeps ==
  ASSUME IInv, Crash
  PROVE  IInv'
<1>n. /\ crashes' \in 0..Crashes /\ now' \in 1..MaxNow
      /\ timerRuns' \in [Jobs -> 0..2] /\ endedAt' \in [Jobs -> 0..now']
  BY DEF IInv, TypeOK, Crash
<1>m. /\ pc' \in [Procs -> {"off", "idle", "starting", "executing", "collecting", "saving"}]
      /\ job' \in [Procs -> added' \cup {NoJob}] /\ list' \in [Procs -> SUBSET added']
  BY DEF Crash
<1> USE DEF Crash
<1>1. TypeOK'
  BY <1>n, <1>m, Zenon DEF IInv, TypeOK, Procs, JobState
<1>2. Marks'
  BY DEF IInv, TypeOK, Marks, Procs, IsRunning, Executing
<1>3. OneShots'
  BY DEF IInv, TypeOK, JobState, OneShots, OneShot, Executing, Timed, Procs
<1>4. Delays'
  BY DEF IInv, TypeOK, JobState, Delays, Delayed
<1>q. QED
  BY <1>1, <1>2, <1>3, <1>4 DEF IInv

LEMMA StopDoneKeeps ==
  ASSUME IInv, StopDone
  PROVE  IInv'
<1>t. state' \in [Jobs -> JobState]
  BY DEF IInv, TypeOK, StopDone, goroutines
<1>s. \A k \in Jobs : Timed(state'[k]) /\ Delayed(state'[k], 0)
  BY DelayIsNat DEF IInv, TypeOK, JobState, OneShots, Delays, Timed, Delayed, StopDone, goroutines
<1>p. disk' = Saved(jobs', state')
  BY DEF StopDone, goroutines, Persist
<1>a. /\ disk'.jobs = jobs' /\ disk'.state \in [Jobs -> JobState]
      /\ \A k \in Jobs : Timed(disk'.state[k]) /\ Delayed(disk'.state[k], 0)
  BY <1>t, <1>s, <1>p, SavedState
<1> USE DEF StopDone, goroutines
<1>1. TypeOK'
  BY <1>a DEF IInv, TypeOK, Procs, JobState
<1>2. Marks'
  BY DEF IInv, TypeOK, Marks, Procs, IsRunning, Executing
<1>3. OneShots'
  BY <1>a DEF IInv, TypeOK, JobState, OneShots, OneShot, Executing, Timed, Procs
<1>4. Delays'
  BY <1>a DEF IInv, TypeOK, JobState, Delays, Delayed
<1>q. QED
  BY <1>1, <1>2, <1>3, <1>4 DEF IInv

LEMMA RemoveJobKeeps ==
  ASSUME IInv, NEW j \in Jobs, RemoveJob(j)
  PROVE  IInv'
<1>t. state' \in [Jobs -> JobState]
  BY DEF IInv, TypeOK, RemoveJob, goroutines
<1>s. \A k \in Jobs : Timed(state'[k]) /\ Delayed(state'[k], 0)
  BY DelayIsNat DEF IInv, TypeOK, JobState, OneShots, Delays, Timed, Delayed, RemoveJob, goroutines
<1>p. disk' = Saved(jobs', state')
  BY DEF RemoveJob, goroutines, Persist
<1>a. /\ disk'.jobs = jobs' /\ disk'.state \in [Jobs -> JobState]
      /\ \A k \in Jobs : Timed(disk'.state[k]) /\ Delayed(disk'.state[k], 0)
  BY <1>t, <1>s, <1>p, SavedState
<1> USE DEF RemoveJob, goroutines
<1>1. TypeOK'
  BY <1>a DEF IInv, TypeOK, Procs, JobState
<1>2. Marks'
  BY DEF IInv, TypeOK, Marks, Procs, IsRunning, Executing
<1>3. OneShots'
  BY <1>a DEF IInv, TypeOK, JobState, OneShots, OneShot, Executing, Timed, Procs
<1>4. Delays'
  BY <1>a DEF IInv, TypeOK, JobState, Delays, Delayed
<1>q. QED
  BY <1>1, <1>2, <1>3, <1>4 DEF IInv

LEMMA SaveJobsKeeps ==
  ASSUME IInv, NEW p \in Procs, SaveJobs(p)
  PROVE  IInv'
<1>t. state' \in [Jobs -> JobState]
  BY DEF IInv, TypeOK, SaveJobs, Goto, Rest
<1>s. \A k \in Jobs : Timed(state'[k]) /\ Delayed(state'[k], 0)
  BY DelayIsNat DEF IInv, TypeOK, JobState, OneShots, Delays, Timed, Delayed, SaveJobs, Goto, Rest
<1>p. disk' = Saved(list[p], state')
  BY DEF SaveJobs, Goto, Rest, Persist
<1>a. /\ disk'.jobs = list[p] /\ disk'.state \in [Jobs -> JobState]
      /\ \A k \in Jobs : Timed(disk'.state[k]) /\ Delayed(disk'.state[k], 0)
  BY <1>t, <1>s, <1>p, SavedState
<1> USE DEF SaveJobs, Goto, Rest
<1>1. TypeOK'
  BY <1>a DEF IInv, TypeOK, Procs, JobState
<1>2. Marks'
  BY DEF IInv, TypeOK, Marks, Procs, IsRunning, Executing
<1>3. OneShots'
  BY <1>a DEF IInv, TypeOK, JobState, OneShots, OneShot, Executing, Timed, Procs
<1>4. Delays'
  BY <1>a DEF IInv, TypeOK, JobState, Delays, Delayed
<1>q. QED
  BY <1>1, <1>2, <1>3, <1>4 DEF IInv

LEMMA AddJobKeeps ==
  ASSUME IInv, NEW j \in Jobs, NEW at \in Ats \cup {0}, NEW enabled \in BOOLEAN, AddJob(j, at, enabled)
  PROVE  IInv'
<1> DEFINE first == IF enabled THEN NextRun(at, now) ELSE 0
           new == [NoState EXCEPT !.at = at, !.enabled = enabled, !.nextRunAt = first]
<1>f. first \in Nat /\ (at # 0 => first \in {0, at})
  BY NextRunType DEF IInv, TypeOK
<1> HIDE DEF first
<1>n. /\ new \in JobState /\ Timed(new)
      /\ new.at = at /\ new.runningAt = 0 /\ new.errors = 0
  <2>1. new \in JobState
    BY <1>f, NoStateType DEF JobState
  <2>2. new.at = at /\ new.nextRunAt = first /\ new.runningAt = 0 /\ new.errors = 0
    BY DEF NoState
  <2> HIDE DEF new
  <2>q. QED
    BY <1>f, <2>1, <2>2 DEF Timed
<1> HIDE DEF new
<1>m. state' = [state EXCEPT ![j] = new]
  BY DEF AddJob, first, new
<1>k. state'[j] = new /\ \A k \in Jobs \ {j} : state'[k] = state[k]
  BY <1>m DEF IInv, TypeOK
<1>t. state' \in [Jobs -> JobState]
  BY <1>m, <1>n DEF IInv, TypeOK
<1>s. \A k \in Jobs : Timed(state'[k]) /\ Delayed(state'[k], 0)
  BY <1>n, <1>k, DelayIsNat DEF IInv, TypeOK, JobState, OneShots, Delays, Timed, Delayed
<1>p. disk' = Saved(jobs', state')
  BY DEF AddJob, goroutines, Persist
<1>a. /\ disk'.jobs = jobs' /\ disk'.state \in [Jobs -> JobState]
      /\ \A k \in Jobs : Timed(disk'.state[k]) /\ Delayed(disk'.state[k], 0)
  BY <1>t, <1>s, <1>p, SavedState
<1>u. /\ j \notin added /\ added' = added \cup {j} /\ jobs' = jobs \cup {j}
      /\ UNCHANGED <<now, running, stopping, pc, job, due, list, timerRuns, endedAt, crashes>>
  BY DEF AddJob, goroutines
<1>1. TypeOK'
  BY <1>a, <1>t, <1>u DEF IInv, TypeOK, Procs, JobState
<1>2. Marks'
  BY <1>n, <1>k, <1>u DEF IInv, TypeOK, Marks, Procs, IsRunning, Executing
<1>3. OneShots'
  <2>1. \A k \in Jobs : Timed(state'[k]) /\ Timed(disk'.state[k])
    BY <1>a, <1>s
  <2>2. timerRuns[j] = 0 /\ \A k \in added : state'[k] = state[k]
    BY <1>u, <1>k DEF IInv, TypeOK, OneShots
  <2>3. \A k \in Jobs \ added' : timerRuns'[k] = 0
    BY <1>u DEF IInv, OneShots
  <2>4. \A k \in due' : state'[k].at # 0 => timerRuns'[k] = 0 /\ state'[k].at <= now'
    BY <1>u, <2>2 DEF IInv, TypeOK, OneShots, OneShot
  <2>5. \A k \in Jobs : state'[k].at # 0 /\ timerRuns'[k] > 0 =>
          /\ timerRuns'[k] = 1 /\ state'[k].at <= now'
          /\ Executing(Timer, k)' \/ state'[k].nextRunAt = 0
    <3> SUFFICES ASSUME NEW k \in Jobs, k # j
                 PROVE  state[k].at # 0 /\ timerRuns[k] > 0 =>
                          /\ timerRuns[k] = 1 /\ state[k].at <= now
                          /\ Executing(Timer, k) \/ state[k].nextRunAt = 0
      BY <1>k, <1>u, <2>2 DEF Executing
    <3>q. QED
      BY DEF IInv, OneShots, OneShot
  <2>q. QED
    BY <2>1, <2>3, <2>4, <2>5 DEF OneShots, OneShot
<1>4. Delays'
  BY <1>a, <1>n, <1>k, <1>u DEF IInv, TypeOK, JobState, Delays, Delayed
<1>q. QED
  BY <1>1, <1>2, <1>3, <1>4 DEF IInv

LEMMA EnableJobKeeps ==
  ASSUME IInv, NEW j \in Jobs, EnableJob(j)
  PROVE  IInv'
<1> DEFINE next == NextRun(state[j].at, now)
           new == [state[j] EXCEPT !.enabled = TRUE, !.nextRunAt = next]
<1>f. /\ next \in Nat
      /\ state[j].at # 0 => next \in {0, state[j].at}
      /\ state[j].at # 0 /\ state[j].at <= now => next = 0
  <2>1. now \in Nat /\ state[j].at \in Ats \cup {0}
    BY StateTypes DEF IInv, TypeOK
  <2>q. QED
    BY <2>1, NextRunType
<1>m. state' = [state EXCEPT ![j] = new]
  BY DEF EnableJob, IInv, TypeOK
<1> HIDE DEF next
<1>n. /\ new \in JobState /\ new.at = state[j].at /\ new.nextRunAt = next
      /\ new.runningAt = state[j].runningAt
      /\ new.errors = state[j].errors /\ new.backoffUntil = state[j].backoffUntil
  BY <1>f, StateTypes DEF JobState
<1> HIDE DEF new
<1>k. state'[j] = new /\ \A k \in Jobs \ {j} : state'[k] = state[k]
  BY <1>m DEF IInv, TypeOK
<1>t. state' \in [Jobs -> JobState]
  BY <1>m, <1>n DEF IInv, TypeOK
<1>s. \A k \in Jobs : Timed(state'[k]) /\ Delayed(state'[k], 0)
  BY <1>f, <1>n, <1>k, DelayIsNat DEF IInv, TypeOK, JobState, OneShots, Delays, Timed, Delayed
<1>p. disk' \in {disk, Saved(jobs', state')}
  BY DEF EnableJob, goroutines, Persist
<1>a. /\ disk'.jobs \subseteq added /\ disk'.state \in [Jobs -> JobState]
      /\ \A k \in Jobs : Timed(disk'.state[k]) /\ Delayed(disk'.state[k], 0)
  <2>1. CASE disk' = disk
    BY <2>1, DelayIsNat DEF IInv, TypeOK, OneShots, Delays
  <2>2. CASE disk' = Saved(jobs', state')
    <3>1. jobs' \subseteq added
      BY DEF IInv, TypeOK, EnableJob, goroutines
    <3>q. QED
      BY <1>s, <1>t, <2>2, <3>1, SavedState
  <2>q. QED
    BY <1>p, <2>1, <2>2
<1> USE DEF EnableJob, goroutines
<1>1. TypeOK'
  BY <1>a, <1>t DEF IInv, TypeOK, Procs, JobState
<1>2. Marks'
  BY <1>n, <1>k DEF IInv, TypeOK, Marks, Procs, IsRunning, Executing
<1>3. OneShots'
  BY <1>a, <1>f, <1>n, <1>k DEF IInv, TypeOK, JobState, OneShots, OneShot, Executing, Timed, Procs
<1>4. Delays'
  BY <1>a, <1>n, <1>k DEF IInv, TypeOK, JobState, Delays, Delayed
<1>q. QED
  BY <1>1, <1>2, <1>3, <1>4 DEF IInv

LEMMA DisableJobKeeps ==
  ASSUME IInv, NEW j \in Jobs, DisableJob(j)
  PROVE  IInv'
<1> DEFINE next == 0
           new == [state[j] EXCEPT !.enabled = FALSE, !.nextRunAt = next]
<1>f. /\ next \in Nat
      /\ state[j].at # 0 => next \in {0, state[j].at}
      /\ state[j].at # 0 /\ state[j].at <= now => next = 0
  <2>1. now \in Nat /\ state[j].at \in Ats \cup {0}
    BY StateTypes DEF IInv, TypeOK
  <2>q. QED
    BY <2>1, NextRunType
<1>m. state' = [state EXCEPT ![j] = new]
  BY DEF DisableJob, IInv, TypeOK
<1> HIDE DEF next
<1>n. /\ new \in JobState /\ new.at = state[j].at /\ new.nextRunAt = next
      /\ new.runningAt = state[j].runningAt
      /\ new.errors = state[j].errors /\ new.backoffUntil = state[j].backoffUntil
  BY <1>f, StateTypes DEF JobState
<1> HIDE DEF new
<1>k. state'[j] = new /\ \A k \in Jobs \ {j} : state'[k] = state[k]
  BY <1>m DEF IInv, TypeOK
<1>t. state' \in [Jobs -> JobState]
  BY <1>m, <1>n DEF IInv, TypeOK
<1>s. \A k \in Jobs : Timed(state'[k]) /\ Delayed(state'[k], 0)
  BY <1>f, <1>n, <1>k, DelayIsNat DEF IInv, TypeOK, JobState, OneShots, Delays, Timed, Delayed
<1>p. disk' \in {disk, Saved(jobs', state')}
  BY DEF DisableJob, goroutines, Persist
<1>a. /\ disk'.jobs \subseteq added /\ disk'.state \in [Jobs -> JobState]
      /\ \A k \in Jobs : Timed(disk'.state[k]) /\ Delayed(disk'.state[k], 0)
  <2>1. CASE disk' = disk
    BY <2>1, DelayIsNat DEF IInv, TypeOK, OneShots, Delays
  <2>2. CASE disk' = Saved(jobs', state')
    <3>1. jobs' \subseteq added
      BY DEF IInv, TypeOK, DisableJob, goroutines
    <3>q. QED
      BY <1>s, <1>t, <2>2, <3>1, SavedState
  <2>q. QED
    BY <1>p, <2>1, <2>2
<1> USE DEF DisableJob, goroutines
<1>1. TypeOK'
  BY <1>a, <1>t DEF IInv, TypeOK, Procs, JobState
<1>2. Marks'
  BY <1>n, <1>k DEF IInv, TypeOK, Marks, Procs, IsRunning, Executing
<1>3. OneShots'
  BY <1>a, <1>f, <1>n, <1>k DEF IInv, TypeOK, JobState, OneShots, OneShot, Executing, Timed, Procs
<1>4. Delays'
  BY <1>a, <1>n, <1>k DEF IInv, TypeOK, JobState, Delays, Delayed
<1>q. QED
  BY <1>1, <1>2, <1>3, <1>4 DEF IInv

LEMMA BeginExecutionKeeps ==
  ASSUME IInv, NEW p \in Procs, NEW j \in Jobs, BeginExecution(p, j)
  PROVE  IInv'
<1>1. CASE IsRunning(j)
  <2>1. /\ pc[p] = "starting" /\ pc' = [pc EXCEPT ![p] = Goto(p)] /\ job' = [job EXCEPT ![p] = NoJob]
        /\ due' \subseteq due /\ Goto(p) \in {"starting", "idle"}
        /\ p # Timer => Goto(p) = "idle"
        /\ UNCHANGED <<state, jobs, timerRuns, now, added, disk, running, stopping, list, endedAt, crashes>>
    BY <1>1 DEF BeginExecution, Goto, Rest
  <2>2. TypeOK'
    BY <2>1 DEF IInv, TypeOK, Procs
  <2>3. Marks'
    BY <2>1 DEF IInv, TypeOK, Marks, Procs, IsRunning, Executing
  <2>4. OneShots'
    BY <2>1 DEF IInv, TypeOK, OneShots, OneShot, Executing, Timed, Procs
  <2>5. Delays'
    BY <2>1 DEF IInv, Delays
  <2>q. QED
    BY <2>2, <2>3, <2>4, <2>5 DEF IInv
<1>2. CASE ~IsRunning(j)
  <2>1. /\ pc[p] = "starting" /\ pc' = [pc EXCEPT ![p] = "executing"] /\ job' = [job EXCEPT ![p] = j]
        /\ j \in Candidates(p) /\ due' = IF p = Timer THEN due \ {j} ELSE due
        /\ state' = [state EXCEPT ![j].runningAt = now]
        /\ jobs' = jobs \cup {j}
        /\ timerRuns' = [timerRuns EXCEPT ![j] = IF p = Timer /\ timerRuns[j] < 2 THEN timerRuns[j] + 1
                                                 ELSE timerRuns[j]]
        /\ UNCHANGED <<now, added, disk, running, stopping, list, endedAt, crashes>>
    BY <1>2 DEF BeginExecution
  <2>2. j \in added
    BY <2>1 DEF IInv, TypeOK, Marks, Candidates, Procs
  <2>3. /\ state' \in [Jobs -> JobState] /\ now # 0
        /\ state'[j].at = state[j].at /\ state'[j].nextRunAt = state[j].nextRunAt
        /\ state'[j].runningAt = now
        /\ state'[j].errors = state[j].errors /\ state'[j].backoffUntil = state[j].backoffUntil
        /\ \A k \in Jobs \ {j} : state'[k] = state[k]
    <3>1. state[j] \in JobState /\ now \in 1..MaxNow /\ state \in [Jobs -> JobState]
      BY StateTypes DEF IInv, TypeOK
    <3>2. [state[j] EXCEPT !.runningAt = now] \in JobState
      BY <3>1 DEF JobState
    <3>3. state' = [state EXCEPT ![j] = [state[j] EXCEPT !.runningAt = now]]
      BY <2>1
    <3>q. QED
      BY <3>1, <3>2, <3>3 DEF JobState
  <2>4. /\ timerRuns' \in [Jobs -> 0..2]
        /\ p # Timer => timerRuns' = timerRuns
        /\ timerRuns[j] = 0 => timerRuns'[j] \in {0, 1}
        /\ \A k \in Jobs \ {j} : timerRuns'[k] = timerRuns[k]
    BY <2>1 DEF IInv, TypeOK
  <2>5. TypeOK'
    BY <2>1, <2>2, <2>3, <2>4 DEF IInv, TypeOK, Procs
  <2>6. Marks'
    <3>1. \A q \in Procs : pc[q] = "executing" => job[q] # j /\ q # p
      BY <1>2, <2>1 DEF IInv, Marks
    <3>q. QED
      BY <2>1, <2>2, <2>3, <3>1 DEF IInv, TypeOK, Marks, Procs, IsRunning, Executing
  <2>7. OneShots'
    <3>1. \A k \in Jobs : Timed(state'[k]) /\ Timed(disk'.state[k])
      BY <2>1, <2>3 DEF IInv, OneShots, Timed
    <3>2. \A k \in Jobs \ added' : timerRuns'[k] = 0
      BY <2>1, <2>2, <2>4 DEF IInv, OneShots
    <3>3. \A k \in due' : k \in due /\ k \in Jobs /\ (p = Timer => k # j)
      BY <2>1 DEF IInv, TypeOK
    <3>4. \A k \in due' : state'[k].at # 0 => timerRuns'[k] = 0 /\ state'[k].at <= now'
      BY <2>1, <2>3, <2>4, <3>3 DEF IInv, OneShots, OneShot
    <3>5. \A k \in Jobs : state'[k].at # 0 /\ timerRuns'[k] > 0 =>
            /\ timerRuns'[k] = 1 /\ state'[k].at <= now'
            /\ Executing(Timer, k)' \/ state'[k].nextRunAt = 0
      <4>1. CASE p = Timer
        <5>1. j \in due /\ (state[j].at # 0 => timerRuns[j] = 0 /\ state[j].at <= now)
          BY <2>1, <4>1 DEF IInv, OneShots, OneShot, Candidates
        <5>2. Executing(Timer, j)'
          BY <2>1, <4>1 DEF IInv, TypeOK, Executing, Procs
        <5>3. \A k \in Jobs : ~Executing(Timer, k)
          BY <2>1, <4>1 DEF Executing
        <5>q. QED
          BY <2>1, <2>3, <2>4, <5>1, <5>2, <5>3 DEF IInv, TypeOK, OneShots, OneShot
      <4>2. CASE p # Timer
        <5>1. \A k \in Jobs : Executing(Timer, k)' <=> Executing(Timer, k)
          BY <2>1, <4>2 DEF IInv, TypeOK, Executing, Procs
        <5>q. QED
          BY <2>1, <2>3, <2>4, <4>2, <5>1 DEF IInv, OneShots, OneShot
      <4>q. QED
        BY <4>1, <4>2
    <3>q. QED
      BY <3>1, <3>2, <3>4, <3>5 DEF OneShots, OneShot
  <2>8. Delays'
    BY <2>1, <2>3 DEF IInv, Delays, Delayed
  <2>q. QED
    BY <2>5, <2>6, <2>7, <2>8 DEF IInv
<1>q. QED
  BY <1>1, <1>2

LEMMA EndExecutionKeeps ==
  ASSUME IInv, NEW p \in Procs, NEW ok \in BOOLEAN, EndExecution(p, ok)
  PROVE  IInv'
<1> DEFINE j == job[p]
           new == Completed(state[j], j, ok)
<1>1. /\ pc[p] = "executing" /\ j \in added /\ j \in Jobs
      /\ state' = [state EXCEPT ![j] = new]
      /\ pc' = [pc EXCEPT ![p] = "collecting"] /\ jobs' = jobs \cup {j}
      /\ endedAt' = [endedAt EXCEPT ![j] = now]
      /\ UNCHANGED <<now, added, disk, running, stopping, job, due, list, timerRuns, crashes>>
  BY DEF EndExecution, IInv, TypeOK, Marks
<1>2. /\ new \in JobState /\ new.at = state[j].at /\ new.runningAt = 0
      /\ new.at # 0 => new.nextRunAt = 0
      /\ Delayed(new, now)
  <2>1. state[j] \in JobState /\ now \in 1..MaxNow
    BY <1>1, StateTypes DEF IInv, TypeOK
  <2>q. QED
    BY <1>1, <2>1, CompletedState
<1> HIDE DEF new
<1>3. /\ state' \in [Jobs -> JobState] /\ state'[j] = new
      /\ \A k \in Jobs \ {j} : state'[k] = state[k]
  BY <1>1, <1>2 DEF IInv, TypeOK
<1>4. /\ endedAt' \in [Jobs -> 0..now] /\ endedAt'[j] = now
      /\ \A k \in Jobs \ {j} : endedAt'[k] = endedAt[k]
  BY <1>1 DEF IInv, TypeOK
<1>5. \A q \in Procs : pc[q] = "executing" /\ job[q] = j => q = p
  BY <1>1 DEF IInv, Marks
<1> HIDE DEF j
<1>6. TypeOK'
  BY <1>1, <1>3, <1>4 DEF IInv, TypeOK
<1>7. Marks'
  BY <1>1, <1>2, <1>3, <1>5 DEF IInv, TypeOK, Marks, Procs, IsRunning, Executing, j
<1>8. OneShots'
  <2>1. \A k \in Jobs : Timed(state'[k]) /\ Timed(disk'.state[k])
    BY <1>1, <1>2, <1>3 DEF IInv, OneShots, Timed
  <2>2. \A k \in Jobs \ {j} : Executing(Timer, k)' <=> Executing(Timer, k)
    BY <1>1 DEF IInv, TypeOK, Executing, Procs, j
  <2>3. due \subseteq Jobs
    BY DEF IInv, TypeOK
  <2>q. QED
    BY <1>1, <1>2, <1>3, <2>1, <2>2, <2>3 DEF IInv, OneShots, OneShot
<1>9. Delays'
  BY <1>1, <1>2, <1>3, <1>4 DEF IInv, Delays
<1>q. QED
  BY <1>6, <1>7, <1>8, <1>9 DEF IInv

-----------------------------------------------------------------------------
(* The theorems.                                                           *)

LEMMA NextKeeps == IInv /\ [Next]_vars => IInv'
<1> SUFFICES ASSUME IInv, [Next]_vars PROVE IInv'
  OBVIOUS
<1>1. CASE UNCHANGED vars
  BY <1>1 DEF vars, goroutines, IInv, TypeOK, Marks, OneShots, Delays, Executing, OneShot, IsRunning
<1>2. CASE Start \/ Stop \/ StopDone \/ TimerStop \/ TakeTick \/ CheckAndRunJobs \/ Tick \/ Crash
  BY <1>2, StartKeeps, StopKeeps, StopDoneKeeps, TimerStopKeeps, TakeTickKeeps, CheckAndRunJobsKeeps,
     TickKeeps, CrashKeeps
<1>3. CASE \E j \in Jobs : \E at \in Ats \cup {0}, enabled \in BOOLEAN : AddJob(j, at, enabled)
  BY <1>3, AddJobKeeps
<1>4. CASE \E j \in Jobs : RemoveJob(j) \/ EnableJob(j) \/ DisableJob(j)
  BY <1>4, RemoveJobKeeps, EnableJobKeeps, DisableJobKeeps
<1>5. CASE \E p \in Procs : Step(p)
  <2> SUFFICES ASSUME NEW p \in Procs, Step(p) PROVE IInv'
    BY <1>5
  <2>1. CASE \E j \in Jobs : RunJob(p, j) \/ BeginExecution(p, j)
    BY <2>1, RunJobKeeps, BeginExecutionKeeps
  <2>2. CASE \E ok \in BOOLEAN : EndExecution(p, ok)
    BY <2>2, EndExecutionKeeps
  <2>3. CASE CollectJobs(p) \/ SaveJobs(p)
    BY <2>3, CollectJobsKeeps, SaveJobsKeeps
  <2>q. QED
    BY <2>1, <2>2, <2>3 DEF Step
<1>q. QED
  BY <1>1, <1>2, <1>3, <1>4, <1>5 DEF Next

\* Every reachable state satisfies the inductive invariant.
THEOREM Invariance == Spec => []IInv
<1>q. QED
  BY InitHolds, NextKeeps, PTL DEF Spec

\* The types; what a goroutine works on, has collected or found due was added.
THEOREM TypeCorrect == Spec => []TypeOK
<1>1. IInv => TypeOK
  BY DEF IInv
<1>q. QED
  BY <1>1, Invariance, PTL

\* No job is executed by two goroutines at once, and in the first process the
\* running mark is exact.
THEOREM NeverExecutedTwiceAtOnce == Spec => []NoOverlap
<1>1. IInv => NoOverlap
  <2> SUFFICES ASSUME IInv PROVE NoOverlap
    OBVIOUS
  <2>1. \A p, q \in Procs, j \in Jobs : Executing(p, j) /\ Executing(q, j) => p = q
    BY DEF IInv, Marks, Executing
  <2>2. jobs \subseteq Jobs
    BY DEF IInv, TypeOK
  <2>3. ASSUME crashes = 0 PROVE \A j \in jobs : IsRunning(j) <=> \E p \in Procs : Executing(p, j)
    BY <2>2, <2>3 DEF IInv, Marks, Executing
  <2>q. QED
    BY <2>1, <2>3 DEF NoOverlap
<1>q. QED
  BY <1>1, Invariance, PTL

\* The timer executes a one-shot job at most once in a process.
THEOREM OneShotsRunOnce == Spec => []OneShotOnce
<1>1. IInv => OneShotOnce
  <2> SUFFICES ASSUME IInv, NEW j \in Jobs, OneShot(j) PROVE timerRuns[j] <= 1
    BY DEF OneShotOnce
  <2>1. timerRuns[j] \in 0..2
    BY DEF IInv, TypeOK
  <2>q. QED
    BY <2>1 DEF IInv, OneShots
<1>q. QED
  BY <1>1, Invariance, PTL

\* The timer finds no job due before the delay after its errors is over.
THEOREM BackoffIsKept == Spec => BackoffKept
<1> DEFINE Kept == \A j \in due' \ due : ~OneShot(j) /\ state[j].errors > 0 =>
                     now >= endedAt[j] + BackoffDelay(state[j].errors)
<1>1. IInv /\ [Next]_vars => [Kept]_vars
  <2> SUFFICES ASSUME IInv, Next, NEW j \in due' \ due, ~OneShot(j), state[j].errors > 0
               PROVE  now >= endedAt[j] + BackoffDelay(state[j].errors)
    OBVIOUS
  <2>1. CheckAndRunJobs
    <3>1. Start \/ Stop \/ StopDone \/ TimerStop \/ TakeTick \/ Tick \/ Crash => due' \subseteq due
      BY DEF Start, Stop, StopDone, TimerStop, TakeTick, Tick, Crash, goroutines
    <3>2. ASSUME NEW k \in Jobs, NEW at, NEW enabled
          PROVE  AddJob(k, at, enabled) \/ RemoveJob(k) \/ EnableJob(k) \/ DisableJob(k) => due' = due
      BY DEF AddJob, RemoveJob, EnableJob, DisableJob, goroutines
    <3>3. ASSUME NEW p \in Procs, NEW k \in Jobs
          PROVE  RunJob(p, k) \/ BeginExecution(p, k) => due' \subseteq due
      BY DEF RunJob, BeginExecution
    <3>4. ASSUME NEW p \in Procs, NEW ok
          PROVE  EndExecution(p, ok) \/ CollectJobs(p) \/ SaveJobs(p) => due' = due
      BY DEF EndExecution, CollectJobs, SaveJobs
    <3>q. QED
      BY <3>1, <3>2, <3>3, <3>4 DEF Next, Step
  <2>2. j \in Jobs /\ now >= state[j].backoffUntil
    BY <2>1 DEF CheckAndRunJobs, ShouldRun, IInv, TypeOK
  <2>3. state[j].backoffUntil >= endedAt[j] + BackoffDelay(state[j].errors)
    BY <2>2 DEF IInv, Delays, Delayed, OneShot
  <2>4. /\ now \in Nat /\ state[j].backoffUntil \in Nat /\ endedAt[j] \in Nat
        /\ BackoffDelay(state[j].errors) \in Nat
    <3>1. state[j].errors \in Nat /\ state[j].backoffUntil \in Nat
      BY <2>2, StateTypes DEF JobState
    <3>2. now \in Nat /\ endedAt[j] \in Nat
      BY <2>2 DEF IInv, TypeOK
    <3>q. QED
      BY <3>1, <3>2, DelayIsNat
  <2>q. QED
    BY <2>2, <2>3, <2>4
<1>q. QED
  BY <1>1, Invariance, PTL DEF Spec, BackoffKept

-----------------------------------------------------------------------------
(* SaveJobs, taken apart in CronStore, for any number of saves, failed     *)
(* operations and kills: jobs.json always parses, and with two failures at *)
(* most it is never outdated and the list saved last is never lost.        *)

USE CronStoreAssumption

-----------------------------------------------------------------------------
(* The inductive invariant of the store.                                   *)

\* Only the temporary file is ever written in part.
Complete == \A f \in {"main", "bak"} : file[f] \in 1..version \cup {NoFile}

\* An outdated backup outlives a failed removal, and is put back only when keeping
\* the new one and the swap have failed as well.
BackupCurrent ==
  /\ acked > 0 => file["main"] # NoFile \/ file["bak"] # NoFile
  /\ faults <= 2 /\ file["main"] = NoFile => file["bak"] \in acked..version \cup {NoFile}
  /\ step = "unbacked" => file["main"] # NoFile /\ (file["bak"] = NoFile \/ faults >= 1)
  /\ step = "backed" => file["main"] = NoFile \/ file["bak"] = NoFile \/ faults >= 2
  /\ step = "restoring" => file["main"] = NoFile \/ file["bak"] = NoFile \/ faults >= 3

\* What SaveJobs has reached.
Saving ==
  /\ step \notin {"idle", "down"} => acked < version
  /\ step \in {"written", "unbacked", "backed", "restoring"} => file["tmp"] = version
  /\ step = "renamed" => file["main"] = version

\* In the first process, and with one failure at most, one of two files has the
\* list saved last at every step.
FirstProcess == kills = 0 /\ faults <= 1 /\ acked > 0 =>
  /\ step # "down"
  /\ step \in {"idle", "writing", "written", "unbacked"} => file["main"] = acked
  /\ step = "backed" => \/ file["main"] = NoFile /\ file["bak"] = acked
                        \/ file["main"] = acked /\ faults = 1
  /\ step = "restoring" => file["main"] = NoFile /\ file["bak"] = acked /\ faults = 1

StoreIInv == StoreTypeOK /\ AlwaysLoads /\ Complete /\ BackupCurrent /\ Saving /\ FirstProcess

LEMMA StoreInitHolds == ASSUME StoreInit PROVE StoreIInv
BY DEF StoreInit, StoreIInv, StoreTypeOK, AlwaysLoads, Complete, BackupCurrent, Saving,
       FirstProcess, Files, Steps, Content

-----------------------------------------------------------------------------
(* One lemma per step of SaveJobs.                                         *)

LEMMA BeginSaveKeeps == ASSUME StoreIInv, BeginSave PROVE StoreIInv'
<1> USE DEF StoreIInv, StoreTypeOK, Complete, Saving, Files, Steps, Content,
            BeginSave
<1>1. StoreTypeOK'
  OBVIOUS
<1>2. AlwaysLoads'
  BY DEF AlwaysLoads, BackupCurrent, FirstProcess
<1>3. Complete'
  OBVIOUS
<1>4. BackupCurrent'
  BY DEF BackupCurrent, AlwaysLoads
<1>5. Saving'
  OBVIOUS
<1>6. FirstProcess'
  BY DEF FirstProcess
<1>q. QED
  BY <1>1, <1>2, <1>3, <1>4, <1>5, <1>6

LEMMA WriteTmpKeeps == ASSUME StoreIInv, WriteTmp PROVE StoreIInv'
<1> USE DEF StoreIInv, StoreTypeOK, Complete, Saving, Files, Steps, Content,
            WriteTmp, StepTo, Succeed, Fail, CanFail
<1>1. StoreTypeOK'
  OBVIOUS
<1>2. AlwaysLoads'
  BY DEF AlwaysLoads, BackupCurrent, FirstProcess
<1>3. Complete'
  OBVIOUS
<1>4. BackupCurrent'
  BY DEF BackupCurrent, AlwaysLoads
<1>5. Saving'
  OBVIOUS
<1>6. FirstProcess'
  BY DEF FirstProcess
<1>q. QED
  BY <1>1, <1>2, <1>3, <1>4, <1>5, <1>6

LEMMA RemoveOldBackupKeeps == ASSUME StoreIInv, RemoveOldBackup PROVE StoreIInv'
<1> USE DEF StoreIInv, StoreTypeOK, Complete, Saving, Files, Steps, Content,
            RemoveOldBackup, Remove, StepTo, Succeed, Fail, CanFail
<1>1. StoreTypeOK'
  OBVIOUS
<1>2. AlwaysLoads'
  BY DEF AlwaysLoads, BackupCurrent, FirstProcess
<1>3. Complete'
  OBVIOUS
<1>4. BackupCurrent'
  BY DEF BackupCurrent, AlwaysLoads
<1>5. Saving'
  OBVIOUS
<1>6. FirstProcess'
  BY DEF FirstProcess
<1>q. QED
  BY <1>1, <1>2, <1>3, <1>4, <1>5, <1>6

LEMMA BackupKeeps == ASSUME StoreIInv, Backup PROVE StoreIInv'
<1> USE DEF StoreIInv, StoreTypeOK, Complete, Saving, Files, Steps, Content,
            Backup, Rename, StepTo, Succeed, Fail, CanFail
<1>1. StoreTypeOK'
  OBVIOUS
<1>2. AlwaysLoads'
  BY DEF AlwaysLoads, BackupCurrent, FirstProcess
<1>3. Complete'
  OBVIOUS
<1>4. BackupCurrent'
  BY DEF BackupCurrent, AlwaysLoads
<1>5. Saving'
  OBVIOUS
<1>6. FirstProcess'
  BY DEF FirstProcess
<1>q. QED
  BY <1>1, <1>2, <1>3, <1>4, <1>5, <1>6

LEMMA SwapKeeps == ASSUME StoreIInv, Swap PROVE StoreIInv'
<1> USE DEF StoreIInv, StoreTypeOK, Complete, Saving, Files, Steps, Content,
            Swap, Rename, StepTo, Succeed, Fail, CanFail
<1>1. StoreTypeOK'
  OBVIOUS
<1>2. AlwaysLoads'
  BY DEF AlwaysLoads, BackupCurrent, FirstProcess
<1>3. Complete'
  OBVIOUS
<1>4. BackupCurrent'
  BY DEF BackupCurrent, AlwaysLoads
<1>5. Saving'
  OBVIOUS
<1>6. FirstProcess'
  BY DEF FirstProcess
<1>q. QED
  BY <1>1, <1>2, <1>3, <1>4, <1>5, <1>6

LEMMA RestoreKeeps == ASSUME StoreIInv, Restore PROVE StoreIInv'
<1> USE DEF StoreIInv, StoreTypeOK, Complete, Saving, Files, Steps, Content,
            Restore, Rename, StepTo, Succeed, Fail, CanFail
<1>1. StoreTypeOK'
  OBVIOUS
<1>2. AlwaysLoads'
  BY DEF AlwaysLoads, BackupCurrent, FirstProcess
<1>3. Complete'
  OBVIOUS
<1>4. BackupCurrent'
  BY DEF BackupCurrent, AlwaysLoads
<1>5. Saving'
  OBVIOUS
<1>6. FirstProcess'
  BY DEF FirstProcess
<1>q. QED
  BY <1>1, <1>2, <1>3, <1>4, <1>5, <1>6

LEMMA DropBackupKeeps == ASSUME StoreIInv, DropBackup PROVE StoreIInv'
<1> USE DEF StoreIInv, StoreTypeOK, Complete, Saving, Files, Steps, Content,
            DropBackup, Remove, Succeed, Fail, CanFail
<1>1. StoreTypeOK'
  OBVIOUS
<1>2. AlwaysLoads'
  BY DEF AlwaysLoads, BackupCurrent, FirstProcess
<1>3. Complete'
  OBVIOUS
<1>4. BackupCurrent'
  BY DEF BackupCurrent, AlwaysLoads
<1>5. Saving'
  OBVIOUS
<1>6. FirstProcess'
  BY DEF FirstProcess
<1>q. QED
  BY <1>1, <1>2, <1>3, <1>4, <1>5, <1>6

LEMMA KillKeeps == ASSUME StoreIInv, Kill PROVE StoreIInv'
<1> USE DEF StoreIInv, StoreTypeOK, Complete, Saving, Files, Steps, Content,
            Kill
<1>1. StoreTypeOK'
  OBVIOUS
<1>2. AlwaysLoads'
  BY DEF AlwaysLoads, BackupCurrent, FirstProcess
<1>3. Complete'
  OBVIOUS
<1>4. BackupCurrent'
  BY DEF BackupCurrent, AlwaysLoads
<1>5. Saving'
  OBVIOUS
<1>6. FirstProcess'
  BY DEF FirstProcess
<1>q. QED
  BY <1>1, <1>2, <1>3, <1>4, <1>5, <1>6

LEMMA LoadJobsKeeps == ASSUME StoreIInv, LoadJobs PROVE StoreIInv'
<1> USE DEF StoreIInv, StoreTypeOK, Complete, Saving, Files, Steps, Content,
            LoadJobs
<1>1. StoreTypeOK'
  OBVIOUS
<1>2. AlwaysLoads'
  BY DEF AlwaysLoads, BackupCurrent, FirstProcess
<1>3. Complete'
  OBVIOUS
<1>4. BackupCurrent'
  BY DEF BackupCurrent, AlwaysLoads
<1>5. Saving'
  OBVIOUS
<1>6. FirstProcess'
  BY DEF FirstProcess
<1>q. QED
  BY <1>1, <1>2, <1>3, <1>4, <1>5, <1>6

-----------------------------------------------------------------------------
(* The theorems about the store.                                           *)

\* Every reachable state satisfies the inductive invariant.
THEOREM StoreInvariance == StoreSpec => []StoreIInv
<1>1. StoreIInv /\ [StoreNext]_storeVars => StoreIInv'
  <2> SUFFICES ASSUME StoreIInv, [StoreNext]_storeVars PROVE StoreIInv'
    OBVIOUS
  <2>1. CASE UNCHANGED storeVars
    BY <2>1 DEF storeVars, StoreIInv, StoreTypeOK, AlwaysLoads, Complete, BackupCurrent,
       Saving, FirstProcess
  <2>2. CASE StoreNext
    BY <2>2, BeginSaveKeeps, WriteTmpKeeps, RemoveOldBackupKeeps, BackupKeeps, SwapKeeps,
       RestoreKeeps, DropBackupKeeps, KillKeeps, LoadJobsKeeps DEF StoreNext
  <2>q. QED
    BY <2>1, <2>2
<1>q. QED
  BY <1>1, StoreInitHolds, PTL DEF StoreSpec

\* The version SaveJobs acknowledged is never ahead of the one it was given.
THEOREM StoreTypeCorrect == StoreSpec => []StoreTypeOK
<1>1. StoreIInv => StoreTypeOK
  BY DEF StoreIInv
<1>q. QED
  BY <1>1, StoreInvariance, PTL

\* A process killed anywhere in SaveJobs can be started again, and reads no
\* outdated list.
THEOREM StoreAlwaysLoads == StoreSpec => []AlwaysLoads
<1>1. StoreIInv => AlwaysLoads
  BY DEF StoreIInv
<1>q. QED
  BY <1>1, StoreInvariance, PTL

\* Neither two failed operations nor any number of kills lose the list saved last.
THEOREM NothingSavedIsLost == StoreSpec => []Recoverable
<1>1. StoreIInv => Recoverable
  BY DEF StoreIInv, StoreTypeOK, AlwaysLoads, BackupCurrent, Recoverable
<1>q. QED
  BY <1>1, StoreInvariance, PTL
=============================================================================
