---------------------------- MODULE CronService ----------------------------
(***************************************************************************)
(* The scheduler of cron jobs (cron/service/): a file of jobs, a copy of   *)
(* it in the memory of every service, and one timer per service.  All that *)
(* touches the copies runs under a lock that is chained per file, so one   *)
(* locked section is one action; the jobs themselves run outside the lock, *)
(* and their results are applied in a later section.                       *)
(*                                                                         *)
(* A service is the object built at boot and at every hot reload.  One     *)
(* that was replaced keeps the sections it has begun, and the one built at *)
(* boot still answers every request, from its own memory.  Time is a       *)
(* counter.  A job of OneShots is due once, at OneShotAt; any other at the *)
(* multiples of Period.  The timer may fire at any time while it is set:   *)
(* it fires at the latest after a minute, whatever is due.                 *)
(***************************************************************************)
EXTENDS Naturals, FiniteSets, FiniteSetsExt

CONSTANTS
  NumJobs,        \* jobs, in the order of the file
  InitialJobs,    \* those that are in the file at first
  OneShots, Kept, \* jobs with schedule "at", and those with deleteAfterRun off
  Period, OneShotAt,
  Backoff,        \* delay after an error
  Stagger,        \* delay between missed jobs that a start puts off
  Stuck,          \* STUCK_RUN_MS
  MaxAttempts,    \* retries of a one-shot job after transient errors
  MaxImmediate,   \* maxMissedJobsPerRestart
  Concurrency,    \* maxConcurrentRuns
  MaxTime,        \* bound: the clock
  MaxServices,    \* bound: services ever built
  MaxReloads,     \* bound: hot reloads among them; the others follow a crash
  MaxOverlaps,    \* bound: reloads that find the old service at work, and requests
                  \* that reach a service that has been replaced
  MaxManual,      \* bound: manual runs
  MaxEdits,       \* bound: updates and removals of jobs
  MaxErrors       \* bound: runs that fail

Jobs == 1 .. NumJobs
Services == 1 .. MaxServices
Manuals == 1 .. MaxManual
Batches == {"startup", "tick"}

ASSUME ConstantsAssumption ==
  /\ {NumJobs, OneShotAt, Backoff, Stagger, Stuck, MaxAttempts, MaxImmediate, MaxTime,
      MaxServices, MaxReloads, MaxOverlaps, MaxManual, MaxEdits, MaxErrors} \subseteq Nat
  /\ {Period, Concurrency, MaxTime} \subseteq Nat \ {0} /\ OneShotAt # 0
  /\ InitialJobs \subseteq Jobs /\ Kept \subseteq OneShots /\ OneShots \subseteq Jobs

VARIABLES
  now,       \* the clock; it starts at 1, and 0 stands for a missing time
  disk,      \* the jobs in the file: a record for each job that exists
  svc,       \* the services: how far their start() is, memory, timer, state.running
  batch,     \* the runs that the start and the tick of each service have claimed
  manual,    \* the manual runs
  known,     \* jobs that exist or existed; an id is never used again
  edits, reloads, errors,
  excused,   \* history: jobs whose marker was cleared while a run of it was claimed
  overlaps   \* history: reloads that came while the old service had work to do, and
             \* requests that reached a service that had been replaced

store == << disk, svc >>
counters == << known, edits, reloads, errors >>
history == << excused, overlaps >>
vars == << now, store, batch, manual, counters, history >>

Horizon == MaxTime + Period + Backoff + Stagger * NumJobs + OneShotAt
JobState == [ enabled : BOOLEAN, next : 0 .. Horizon, running : 0 .. MaxTime,
              last : 0 .. MaxTime, status : {"none", "ok", "error"}, failures : 0 .. MaxErrors ]
IsStore(jobs) == DOMAIN jobs \subseteq Jobs /\ \A j \in DOMAIN jobs : jobs[j] \in JobState
Outcomes == {"ok", "transient", "permanent"}
Stages == {"none", "claimed", "running", "ended"}
Run == [ stage : Stages, start : 0 .. MaxTime, outcome : Outcomes ]
NoRun == [stage |-> "none", start |-> 0, outcome |-> "ok"]
NoManual == [svc |-> 0, job |-> 0, forced |-> FALSE, stage |-> "new", at |-> 0, run |-> NoRun]

TypeOK ==
  /\ now \in 1 .. MaxTime
  /\ IsStore(disk)
  /\ \A s \in Services :
       /\ svc[s].phase \in {"none", "boot", "plan", "catchup", "arm", "on", "dead"}
       /\ IsStore(svc[s].mem)
       /\ {svc[s].timer, svc[s].ticking, svc[s].fresh} \subseteq BOOLEAN
       /\ svc[s].skip \subseteq Jobs /\ svc[s].deferred \in [Jobs -> 0 .. NumJobs]
  /\ batch \in [Services -> [Batches -> [Jobs -> Run]]]
  /\ manual \in [Manuals -> [ svc : {0} \cup Services, job : {0} \cup Jobs, forced : BOOLEAN,
                              stage : {"new", "inspected", "reserved", "over"},
                              at : 0 .. MaxTime, run : Run ]]
  /\ known \subseteq Jobs
  /\ edits \in 0 .. MaxEdits /\ reloads \in 0 .. MaxReloads /\ errors \in 0 .. MaxErrors
  /\ excused \subseteq Jobs /\ overlaps \in 0 .. MaxOverlaps

-----------------------------------------------------------------------------
(* The schedule.                                                           *)
NextSlot(t) == (t \div Period + 1) * Period
PreviousSlot(t) == ((t - 1) \div Period) * Period

\* computeJobNextRunAtMs
NextRun(j, job, t) ==
  CASE ~job.enabled -> 0
    [] job.enabled /\ j \notin OneShots -> NextSlot(t)
    [] job.enabled /\ j \in OneShots ->
         IF job.status = "ok" /\ job.last # 0 /\ OneShotAt <= job.last THEN 0 ELSE OneShotAt

Rescheduled(j, job, t) == [job EXCEPT !.next = NextRun(j, job, t)]

\* normalizeJobTickState: a disabled job has no times, and a marker that is too
\* old is dropped.
Normal(job, t) ==
  CASE ~job.enabled -> [job EXCEPT !.next = 0, !.running = 0]
    [] job.enabled /\ job.running # 0 /\ t - job.running > Stuck -> [job EXCEPT !.running = 0]
    [] OTHER -> job

\* Faulty variant: a full recompute, whatever was due is moved to its next slot.
MaintainedFully(jobs, t, expired) ==
  [ j \in DOMAIN jobs |->
      LET job == Normal(jobs[j], t)
      IN  IF job.enabled /\ job.next <= t THEN Rescheduled(j, job, t) ELSE job ]

\* recomputeNextRuns: what is due or has no time gets its next one.
Recomputed(jobs, t) ==
  [ j \in DOMAIN jobs |->
      LET job == Normal(jobs[j], t)
      IN  IF job.enabled /\ job.next <= t THEN Rescheduled(j, job, t) ELSE job ]

\* recomputeNextRunsForMaintenance: what is due stays, unless it was executed
\* and the caller says so.
Maintained(jobs, t, expired) ==
  [ j \in DOMAIN jobs |->
      LET job == Normal(jobs[j], t)
          served == expired /\ job.next <= t /\ job.running = 0 /\ job.last >= job.next
      IN  IF job.enabled /\ (job.next = 0 \/ served) THEN Rescheduled(j, job, t) ELSE job ]

\* nextWakeAtMs and armTimer: the timer is set if an enabled job has a time.
Armed(jobs) == \E j \in DOMAIN jobs : jobs[j].enabled /\ jobs[j].next # 0

\* isRunnableJob at a tick.
Runnable(job, t) == job.enabled /\ job.running = 0 /\ job.next # 0 /\ job.next <= t

\* isRunnableJob at a start: a one-shot that ended waits for its retry, a missed
\* slot of a recurring job counts although the time in the file is ahead.
Missed(j, job, t) ==
  /\ job.enabled /\ job.running = 0
  /\ \/ j \in OneShots /\ job.status # "none"
          /\ job.status = "error" /\ job.next > job.last /\ job.next <= t
     \/ ~(j \in OneShots /\ job.status # "none") /\ job.next # 0 /\ job.next <= t
     \/ /\ j \notin OneShots /\ (job.next = 0 \/ job.next > t)
        /\ ~(job.next # 0 /\ job.status = "error" /\ t < job.last + Backoff)
        /\ job.last # 0 /\ PreviousSlot(t) > job.last

\* Faulty variant: the run is dated with the time of the next one.
ResultDatedAhead(j, job, run, t) ==
  [job EXCEPT !.running = 0, !.last = t + Backoff, !.next = NextRun(j, job, t)]

\* applyJobResult: what becomes of a job after a run.
Result(j, job, run, t) ==
  LET ok == run.outcome = "ok"
      done == [job EXCEPT !.running = 0, !.last = run.start,
                          !.status = IF ok THEN "ok" ELSE "error",
                          !.failures = IF ok THEN 0 ELSE job.failures + 1]
      natural == NextRun(j, done, t)
  IN  CASE j \in OneShots /\ run.outcome = "transient" /\ done.failures <= MaxAttempts ->
             [done EXCEPT !.next = t + Backoff]
        [] j \in OneShots /\ ~(run.outcome = "transient" /\ done.failures <= MaxAttempts) ->
             [done EXCEPT !.enabled = FALSE, !.next = 0]
        [] j \notin OneShots /\ ~ok /\ job.enabled ->
             [done EXCEPT !.next = Max({natural, t + Backoff})]
        [] OTHER -> [done EXCEPT !.next = natural]

\* shouldDelete
Deleted(j, run) == j \in OneShots \ Kept /\ run.outcome = "ok"

\* The store after the results of some runs.
Settled(jobs, runs, t) ==
  [ j \in { i \in DOMAIN jobs : ~(runs[i].stage = "ended" /\ Deleted(i, runs[i])) } |->
      IF runs[j].stage = "ended" THEN Result(j, jobs[j], runs[j], t) ELSE jobs[j] ]

-----------------------------------------------------------------------------
NoService == [phase |-> "none", mem |-> << >>, timer |-> FALSE, ticking |-> FALSE,
              fresh |-> FALSE, skip |-> {}, deferred |-> [j \in Jobs |-> 0]]
Idle == [j \in Jobs |-> NoRun]
NewJob(j, t) == Rescheduled(j, [enabled |-> TRUE, next |-> 0, running |-> 0, last |-> 0,
                                status |-> "none", failures |-> 0], t)

Init ==
  /\ now = 1
  /\ disk \in { [j \in InitialJobs |-> [NewJob(j, 1) EXCEPT !.next = IF j \in late THEN 1 ELSE @]]
                : late \in SUBSET InitialJobs }
  /\ svc = [s \in Services |-> NoService]
  /\ batch = [s \in Services |-> [b \in Batches |-> Idle]]
  /\ manual = [m \in Manuals |-> NoManual]
  /\ known = InitialJobs
  /\ edits = 0 /\ reloads = 0 /\ errors = 0
  /\ excused = {} /\ overlaps = 0

Started == { s \in Services : svc[s].phase # "none" }
Alive == { s \in Started : svc[s].phase # "dead" }
Cur == Max(Started)

\* The service that answers requests, once it has loaded the file: the one built
\* at boot, which the request context holds through every reload.
Serving(s) == s \in Alive /\ (\A r \in Alive : s <= r) /\ svc[s].phase # "boot"

\* Whether a step makes the work of two services overlap.
Overlap(yes) ==
  /\ yes => overlaps < MaxOverlaps
  /\ overlaps' = IF yes THEN overlaps + 1 ELSE overlaps

\* Runs that some part of the process has claimed for a job, and those of them
\* that execute.
BatchRuns(j) == { r \in Services \X Batches : batch[r[1]][r[2]][j].stage # "none" }
ManualRuns(j) == { m \in Manuals : manual[m].stage = "reserved" /\ manual[m].job = j }
Executing(j) == Cardinality({ r \in BatchRuns(j) : batch[r[1]][r[2]][j].stage = "running" })
              + Cardinality({ m \in ManualRuns(j) : manual[m].run.stage = "running" })
Claimed(j) == BatchRuns(j) # {} \/ ManualRuns(j) # {}

\* The jobs whose marker a change of a store clears under a claimed run.
Cleared(old, new) ==
  { j \in DOMAIN old \cap DOMAIN new : old[j].running # 0 /\ new[j].running = 0 /\ Claimed(j) }

\* persist, by service s; a store that was reloaded has new job objects.
Persist(s, jobs, fresh) ==
  /\ disk' = jobs
  /\ svc' = [svc EXCEPT ![s].mem = jobs, ![s].fresh = fresh /\ @]
PersistAndArm(s, jobs, fresh) ==
  /\ disk' = jobs
  /\ svc' = [svc EXCEPT ![s].mem = jobs, ![s].fresh = fresh /\ @, ![s].timer = Armed(jobs)]

-----------------------------------------------------------------------------
Tick ==
  /\ now < MaxTime
  /\ now' = now + 1
  /\ UNCHANGED << store, batch, manual, counters, history >>

\* A service is built at boot, when none is left; start() waits for the lock.
Boot(s) ==
  /\ Alive = {} /\ s = Cardinality(Started) + 1
  /\ svc' = [svc EXCEPT ![s].phase = "boot"]
  /\ UNCHANGED << now, disk, batch, manual, counters, history >>

\* applyHotReload with restartCron: stop() clears the timer of the old service
\* and nothing else.
Busy(s) ==
  \/ svc[s].ticking \/ svc[s].phase # "on"
  \/ \E m \in Manuals : manual[m].svc = s /\ manual[m].stage \in {"inspected", "reserved"}

Reload(s) ==
  /\ Alive # {} /\ s = Cardinality(Started) + 1
  /\ reloads < MaxReloads
  /\ reloads' = reloads + 1
  /\ svc' = [svc EXCEPT ![s].phase = "boot", ![Cur].timer = FALSE]
  /\ Overlap(Busy(Cur))
  /\ UNCHANGED << now, disk, batch, manual, known, edits, errors, excused >>

\* The process dies with all that is in memory.
Crash ==
  /\ Alive # {} /\ Cardinality(Started) < MaxServices
  /\ svc' = [s \in Services |-> IF s \in Started THEN [NoService EXCEPT !.phase = "dead"]
                                                ELSE svc[s]]
  /\ batch' = [s \in Services |-> [b \in Batches |-> Idle]]
  /\ manual' = [m \in Manuals |-> IF manual[m].stage = "new" THEN manual[m]
                                   ELSE [NoManual EXCEPT !.stage = "over"]]
  /\ UNCHANGED << now, disk, counters, history >>

-----------------------------------------------------------------------------
(* start()                                                                 *)

\* Faulty variant: markers in the file are taken for those of live runs.
ClearNothing(s) ==
  /\ svc[s].phase = "boot"
  /\ svc' = [svc EXCEPT ![s].phase = "plan", ![s].mem = disk]
  /\ UNCHANGED << now, disk, batch, manual, counters, history >>

\* Its first section loads the file and clears every marker.
ClearMarkers(s) ==
  /\ svc[s].phase = "boot"
  /\ LET stale == { j \in DOMAIN disk : disk[j].running # 0 }
         jobs == [j \in DOMAIN disk |-> [disk[j] EXCEPT !.running = 0]]
     IN  /\ disk' = jobs
         /\ svc' = [svc EXCEPT ![s].phase = "plan", ![s].mem = jobs, ![s].skip = stale]
         /\ excused' = excused \cup Cleared(disk, jobs)
  /\ UNCHANGED << now, batch, manual, counters, overlaps >>

\* Missed jobs in the order they were due.
Before(jobs, i, j) == jobs[i].next < jobs[j].next \/ (jobs[i].next = jobs[j].next /\ i < j)
Rank(jobs, missed, j) == Cardinality({ i \in missed : Before(jobs, i, j) }) + 1

\* planStartupCatchup: the first of the missed jobs are claimed, the others put
\* off.
PlanCatchup(s) ==
  /\ svc[s].phase = "plan"
  /\ LET mem == svc[s].mem
         missed == { j \in DOMAIN mem \ svc[s].skip : Missed(j, mem[j], now) }
         first == { j \in missed : Rank(mem, missed, j) <= MaxImmediate }
         jobs == [j \in DOMAIN mem |-> IF j \in first THEN [mem[j] EXCEPT !.running = now] ELSE mem[j]]
     IN  /\ disk' = IF missed = {} THEN disk ELSE jobs
         /\ svc' = [svc EXCEPT
              ![s].phase = IF missed = {} THEN "arm" ELSE "catchup", ![s].mem = jobs,
              ![s].skip = {},
              ![s].deferred = [j \in Jobs |-> IF j \in missed \ first
                                              THEN Rank(mem, missed, j) - MaxImmediate ELSE 0]]
         /\ batch' = [batch EXCEPT ![s]["startup"] =
              [j \in Jobs |-> IF j \in first THEN [NoRun EXCEPT !.stage = "claimed"] ELSE NoRun]]
  /\ UNCHANGED << now, manual, counters, history >>

AllEnded(runs) == \A j \in Jobs : runs[j].stage \in {"none", "ended"}

\* applyStartupCatchupOutcomes
ApplyCatchup(s) ==
  /\ svc[s].phase = "catchup" /\ AllEnded(batch[s]["startup"])
  /\ LET settled == Settled(disk, batch[s]["startup"], now)
         late == { j \in DOMAIN settled : svc[s].deferred[j] # 0 /\ settled[j].enabled }
         place(j) == Cardinality({ i \in late : svc[s].deferred[i] <= svc[s].deferred[j] })
         jobs == [j \in DOMAIN settled |->
                   IF j \in late THEN [settled[j] EXCEPT !.next = now + Stagger * place(j)]
                   ELSE settled[j]]
         kept == Maintained(jobs, now, FALSE)
     IN  /\ disk' = kept
         /\ svc' = [svc EXCEPT ![s].phase = "arm", ![s].mem = kept, ![s].fresh = FALSE,
                               ![s].deferred = [j \in Jobs |-> 0]]
         /\ excused' = excused \cup Cleared(jobs, kept)
  /\ batch' = [batch EXCEPT ![s]["startup"] = Idle]
  /\ UNCHANGED << now, manual, counters, overlaps >>

\* The last section of start(): all times are computed anew.
Arm(s) ==
  /\ svc[s].phase = "arm"
  /\ LET jobs == Recomputed(disk, now)
     IN  /\ disk' = jobs
         /\ svc' = [svc EXCEPT ![s].phase = "on", ![s].mem = jobs, ![s].fresh = FALSE,
                               ![s].timer = Armed(jobs)]
         /\ excused' = excused \cup Cleared(disk, jobs)
  /\ UNCHANGED << now, batch, manual, counters, overlaps >>

-----------------------------------------------------------------------------
(* The timer.                                                              *)

\* Faulty variant: a timer that finds nothing due is not set again.
OnTimerSpent(s) ==
  /\ svc[s].timer /\ ~svc[s].ticking
  /\ LET due == { j \in DOMAIN disk : Runnable(disk[j], now) }
         jobs == [j \in DOMAIN disk |-> IF j \in due THEN [disk[j] EXCEPT !.running = now] ELSE disk[j]]
     IN  /\ disk' = jobs
         /\ svc' = [svc EXCEPT ![s].mem = jobs, ![s].ticking = due # {}, ![s].timer = due # {}]
         /\ batch' = [batch EXCEPT ![s]["tick"] =
              [j \in Jobs |-> IF j \in due THEN [NoRun EXCEPT !.stage = "claimed"] ELSE NoRun]]
  /\ UNCHANGED << now, manual, counters, history >>

\* onTimer: the file is read, due jobs are claimed.  A timer that fires during
\* a tick is only set again.
OnTimer(s) ==
  /\ svc[s].timer /\ ~svc[s].ticking
  /\ LET due == { j \in DOMAIN disk : Runnable(disk[j], now) }
         jobs == IF due = {} THEN Maintained(disk, now, TRUE)
                 ELSE [j \in DOMAIN disk |-> IF j \in due THEN [disk[j] EXCEPT !.running = now]
                                             ELSE disk[j]]
     IN  /\ disk' = jobs
         /\ svc' = [svc EXCEPT ![s].mem = jobs, ![s].ticking = due # {}, ![s].fresh = TRUE,
                               ![s].timer = due # {} \/ Armed(jobs)]
         /\ batch' = [batch EXCEPT ![s]["tick"] =
              [j \in Jobs |-> IF j \in due THEN [NoRun EXCEPT !.stage = "claimed"] ELSE NoRun]]
         /\ excused' = excused \cup Cleared(disk, jobs)
  /\ UNCHANGED << now, manual, counters, overlaps >>

\* Its second section, and the finally block.
ApplyTick(s) ==
  /\ svc[s].ticking /\ AllEnded(batch[s]["tick"])
  /\ LET settled == Settled(disk, batch[s]["tick"], now)
         jobs == Maintained(settled, now, FALSE)
     IN  /\ disk' = jobs
         /\ svc' = [svc EXCEPT ![s].mem = jobs, ![s].ticking = FALSE, ![s].fresh = FALSE,
                               ![s].timer = Armed(jobs)]
         /\ excused' = excused \cup Cleared(settled, jobs)
  /\ batch' = [batch EXCEPT ![s]["tick"] = Idle]
  /\ UNCHANGED << now, manual, counters, overlaps >>

\* A worker takes the next claimed job; a tick writes the marker of the job
\* object it holds once more.
Running(s, b) == { j \in Jobs : batch[s][b][j].stage = "running" }

BeginRun(s, b, j) ==
  /\ batch[s][b][j].stage = "claimed"
  /\ Cardinality(Running(s, b)) < (IF b = "tick" THEN Concurrency ELSE 1)
  /\ b = "tick" => \A i \in Jobs : i < j => batch[s][b][i].stage # "claimed"
  /\ batch' = [batch EXCEPT ![s][b][j] = [@ EXCEPT !.stage = "running", !.start = now]]
  /\ svc' = [svc EXCEPT ![s].mem =
       [i \in DOMAIN @ |-> IF i = j /\ b = "tick" /\ svc[s].fresh THEN [@[i] EXCEPT !.running = now]
                           ELSE @[i]]]
  /\ UNCHANGED << now, disk, manual, counters, history >>

EndRun(s, b, j, outcome) ==
  /\ batch[s][b][j].stage = "running"
  /\ outcome # "ok" => errors < MaxErrors
  /\ outcome = "permanent" => j \in OneShots
  /\ errors' = IF outcome = "ok" THEN errors ELSE errors + 1
  /\ batch' = [batch EXCEPT ![s][b][j] =
       [@ EXCEPT !.stage = "ended", !.outcome = outcome]]
  /\ UNCHANGED << now, store, manual, known, edits, reloads, history >>

-----------------------------------------------------------------------------
(* Requests.                                                               *)

Add(s, j) ==
  /\ Serving(s) /\ j \in Jobs \ known
  /\ known' = known \cup {j}
  /\ LET mem == svc[s].mem
         all == [i \in DOMAIN mem \cup {j} |-> IF i = j THEN NewJob(j, now) ELSE mem[i]]
         jobs == Recomputed(all, now)
     IN  /\ PersistAndArm(s, jobs, TRUE)
         /\ excused' = excused \cup Cleared(mem, jobs)
  /\ Overlap(s # Cur)
  /\ UNCHANGED << now, batch, manual, edits, reloads, errors >>

\* update with a patch of "enabled" or of the schedule.
Update(s, j, enabled) ==
  /\ Serving(s) /\ j \in DOMAIN svc[s].mem
  /\ edits < MaxEdits
  /\ edits' = edits + 1
  /\ LET mem == svc[s].mem
         job == [mem[j] EXCEPT !.enabled = enabled, !.running = IF enabled THEN @ ELSE 0]
         jobs == [mem EXCEPT ![j] = Rescheduled(j, job, now)]
     IN  /\ PersistAndArm(s, jobs, TRUE)
         /\ excused' = excused \cup Cleared(mem, jobs)
  /\ Overlap(s # Cur)
  /\ UNCHANGED << now, batch, manual, known, reloads, errors >>

\* remove saves and arms also when it does not know the job.
Remove(s, j) ==
  /\ Serving(s) /\ j \in Jobs
  /\ edits < MaxEdits
  /\ edits' = edits + 1
  /\ PersistAndArm(s, [i \in DOMAIN svc[s].mem \ {j} |-> svc[s].mem[i]], TRUE)
  /\ Overlap(s # Cur)
  /\ UNCHANGED << now, batch, manual, known, reloads, errors, excused >>

\* status, list, listPage: ensureLoadedForRead repairs, and saves the repair.
Read(s) ==
  /\ Serving(s)
  /\ LET jobs == Maintained(svc[s].mem, now, FALSE)
     IN  /\ jobs # svc[s].mem
         /\ Persist(s, jobs, TRUE)
         /\ excused' = excused \cup Cleared(svc[s].mem, jobs)
  /\ Overlap(s # Cur)
  /\ UNCHANGED << now, batch, manual, counters >>

\* inspectManualRunPreflight: what it repairs stays in memory.
Preflight(s) ==
  LET jobs == Maintained(svc[s].mem, now, FALSE)
  IN  /\ svc' = [svc EXCEPT ![s].mem = jobs]
      /\ excused' = excused \cup Cleared(svc[s].mem, jobs)

\* A preflight that leads no further: the first look of enqueueRun, or a job that
\* is unknown, marked or not due.
Look(s) ==
  /\ Serving(s) /\ Maintained(svc[s].mem, now, FALSE) # svc[s].mem
  /\ Preflight(s)
  /\ Overlap(s # Cur)
  /\ UNCHANGED << now, disk, batch, manual, counters >>

\* One that finds the job free to run.
Inspect(m, s, j, forced) ==
  /\ Serving(s) /\ manual[m].stage = "new" /\ (\A k \in Manuals : k < m => manual[k].stage # "new")
  /\ j \in DOMAIN svc[s].mem
  /\ LET job == Maintained(svc[s].mem, now, FALSE)[j]
     IN  job.running = 0 /\ (forced \/ Runnable(job, now))
  /\ Preflight(s)
  /\ Overlap(s # Cur)
  /\ manual' = [manual EXCEPT ![m] =
       [NoManual EXCEPT !.svc = s, !.job = j, !.forced = forced, !.stage = "inspected", !.at = now]]
  /\ UNCHANGED << now, disk, batch, counters >>

\* Faulty variant: the second section relies on what the first one saw.
ReserveUnchecked(m) ==
  LET s == manual[m].svc
      j == manual[m].job
      jobs == [svc[s].mem EXCEPT ![j].running = manual[m].at]
  IN  /\ manual[m].stage = "inspected" /\ j \in DOMAIN svc[s].mem
      /\ Persist(s, jobs, TRUE)
      /\ manual' = [manual EXCEPT ![m] =
                      [@ EXCEPT !.stage = "reserved",
                                 !.run = [NoRun EXCEPT !.stage = "running", !.start = manual[m].at]]]
      /\ UNCHANGED << now, batch, counters, history >>

\* prepareManualRun: the job is marked, unless it is gone or marked by now.
Reserve(m) ==
  LET s == manual[m].svc
      j == manual[m].job
      jobs == [svc[s].mem EXCEPT ![j].running = manual[m].at]
      free == j \in DOMAIN svc[s].mem /\ svc[s].mem[j].running = 0
  IN  /\ manual[m].stage = "inspected"
      /\ IF free
         THEN /\ Persist(s, jobs, TRUE)
              /\ manual' = [manual EXCEPT ![m] =
                     [@ EXCEPT !.stage = "reserved",
                                !.run = [NoRun EXCEPT !.stage = "running", !.start = manual[m].at]]]
         ELSE /\ manual' = [manual EXCEPT ![m] = [NoManual EXCEPT !.stage = "over"]]
              /\ UNCHANGED store
      /\ UNCHANGED << now, batch, counters, history >>

EndManual(m, outcome) ==
  /\ manual[m].stage = "reserved" /\ manual[m].run.stage = "running"
  /\ outcome # "ok" => errors < MaxErrors
  /\ outcome = "permanent" => manual[m].job \in OneShots
  /\ errors' = IF outcome = "ok" THEN errors ELSE errors + 1
  /\ manual' = [manual EXCEPT ![m].run = [@ EXCEPT !.stage = "ended", !.outcome = outcome]]
  /\ UNCHANGED << now, store, batch, known, edits, reloads, history >>

\* finishPreparedManualRun: the result is applied to the job in memory, and what
\* comes out is carried over into the file, read again.
FinishManual(m) ==
  LET s == manual[m].svc
      j == manual[m].job
      run == manual[m].run
      merged == [i \in (IF Deleted(j, run) THEN DOMAIN disk \ {j} ELSE DOMAIN disk) |->
                   IF i = j THEN Result(j, svc[s].mem[j], run, now) ELSE disk[i]]
      jobs == Maintained(merged, now, TRUE)
  IN  /\ manual[m].stage = "reserved" /\ run.stage = "ended"
      /\ manual' = [manual EXCEPT ![m] = [NoManual EXCEPT !.stage = "over"]]
      /\ IF j \in DOMAIN svc[s].mem
         THEN /\ PersistAndArm(s, jobs, FALSE)
              /\ excused' = excused \cup Cleared(merged, jobs)
         ELSE UNCHANGED << store, excused >>
      /\ UNCHANGED << now, batch, counters, overlaps >>

-----------------------------------------------------------------------------
Starting(s) == ClearMarkers(s) \/ PlanCatchup(s) \/ ApplyCatchup(s) \/ Arm(s)
Working(s) ==
  \E b \in Batches, j \in Jobs : BeginRun(s, b, j) \/ \E o \in Outcomes : EndRun(s, b, j, o)
Manually(m) == Reserve(m) \/ (\E o \in Outcomes : EndManual(m, o)) \/ FinishManual(m)
Request(s) ==
  \/ Read(s) \/ Look(s)
  \/ \E j \in Jobs :
       \/ Add(s, j) \/ Remove(s, j)
       \/ \E b \in BOOLEAN : Update(s, j, b) \/ (\E m \in Manuals : Inspect(m, s, j, b))

Next ==
  \/ Tick \/ Crash
  \/ \E s \in Services :
       Boot(s) \/ Reload(s) \/ Starting(s) \/ OnTimer(s) \/ ApplyTick(s) \/ Working(s) \/ Request(s)
  \/ \E m \in Manuals : Manually(m)

Spec == Init /\ [][Next]_vars

-----------------------------------------------------------------------------
(* Properties                                                              *)

\* A job is never executed twice at the same time: not by two ticks, a tick and
\* a manual run, or the runs of a start.  The causes that break this are named:
\* the marker of the job was cleared under a run (an update that disables the
\* job, a marker older than two hours), a reload came while the old service
\* still had work to do, or a request reached a service that had been replaced.
OneRunAtATime == \A j \in Jobs : Executing(j) > 1 => j \in excused \/ overlaps # 0

Due(j) == j \in DOMAIN disk /\ Runnable(disk[j], now)

\* A job that is due and that nobody has claimed stays due until it is claimed.
\* Maintenance, reads, ticks, the results of other jobs and manual runs never
\* move it to a later slot; only the recompute at the end of a start and in add
\* does, a start that puts off missed jobs, and an update of the job itself; or
\* services overlap, and one of them writes what it still has in memory.
DueSlotsAreKept ==
  [][ \A j \in Jobs :
        Due(j) /\ ~Claimed(j) /\ j \in DOMAIN disk' /\ ~Due(j)'
        => \/ Claimed(j)' \/ overlaps' # 0
           \/ \E s \in Services :
                \/ Arm(s) \/ (\E i \in Jobs : Add(s, i)) \/ (\E b \in BOOLEAN : Update(s, j, b))
                \/ ApplyCatchup(s) /\ svc[s].deferred[j] # 0 ]_vars

\* The scheduler does not stall: the newest service, once it has started and has
\* a job to wait for, has its timer set, whatever is asked of the one before it.
TimerIsSet ==
  \A s \in Started : s = Cur /\ svc[s].phase = "on" /\ Armed(svc[s].mem) => svc[s].timer

\* A marker in the file belongs to a run that somebody still has to settle, or
\* to a start that is about to clear it: no job is blocked by a run that is no
\* more, unless services have overlapped.
MarkerHasARun ==
  \A j \in DOMAIN disk :
    disk[j].running # 0 /\ Alive # {} => Claimed(j) \/ svc[Cur].phase = "boot" \/ overlaps # 0

\* What the comment on the running marker promises (ops.ts): that timer ticks
\* "cannot start the same job concurrently" with a manual run.
NeverConcurrent ==
  [][ \A s \in Services, j \in Jobs :
        batch[s]["tick"][j].stage = "none" /\ batch'[s]["tick"][j].stage = "claimed"
        => \A m \in ManualRuns(j) : manual[m].run.stage # "running" ]_vars
=============================================================================
