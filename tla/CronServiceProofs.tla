-------------------------- MODULE CronServiceProofs --------------------------
(***************************************************************************)
(* Proofs about CronService for any jobs, services, manual runs, schedules *)
(* and bounds: types, that a job is never executed twice at once, that a   *)
(* marker in the file has a run, that the timer is set, and that a job     *)
(* that is due stays due until it is claimed.                              *)
(***************************************************************************)
EXTENDS CronService, FiniteSetTheorems, TLAPS

-----------------------------------------------------------------------------
(* The invariant.                                                          *)

\* A job and a store as values; only the count of failures has no bound of its own.
Job == [ enabled : BOOLEAN, next : 0 .. Horizon, running : 0 .. MaxTime,
         last : 0 .. MaxTime, status : {"none", "ok", "error"}, failures : Nat ]
Stores == UNION { [D -> Job] : D \in SUBSET Jobs }
ServiceState ==
  [ phase : {"none", "boot", "plan", "catchup", "arm", "on", "dead"}, mem : Stores,
    timer : BOOLEAN, ticking : BOOLEAN, fresh : BOOLEAN,
    skip : SUBSET Jobs, deferred : [Jobs -> 0 .. NumJobs] ]
ManualState ==
  [ svc : {0} \cup Services, job : {0} \cup Jobs, forced : BOOLEAN,
    stage : {"new", "inspected", "reserved", "over"}, at : 0 .. MaxTime, run : Run ]

Types ==
  /\ now \in 1 .. MaxTime /\ disk \in Stores
  /\ svc \in [Services -> ServiceState]
  /\ batch \in [Services -> [Batches -> [Jobs -> Run]]]
  /\ manual \in [Manuals -> ManualState]
  /\ known \subseteq Jobs
  /\ edits \in 0 .. MaxEdits /\ reloads \in 0 .. MaxReloads /\ errors \in 0 .. MaxErrors
  /\ excused \subseteq Jobs /\ overlaps \in 0 .. MaxOverlaps

\* Services are built one after the other; the last one lives unless all are dead.
ServicesInOrder == \E k \in 0 .. MaxServices : Started = 1 .. k
CurIsAlive == Alive # {} => Cur \in Alive

\* Runs belong to the phase or the tick that claimed them, and all work to a service
\* that is alive.
AtWork == { m \in Manuals : manual[m].stage \in {"inspected", "reserved"} }
Owners ==
  /\ \A s \in Services, j \in Jobs :
       /\ batch[s]["startup"][j].stage # "none" => svc[s].phase = "catchup"
       /\ batch[s]["tick"][j].stage # "none" => svc[s].ticking
  /\ \A s \in Services \ Alive : ~svc[s].timer /\ ~svc[s].ticking
  /\ \A s \in Services \ Started : DOMAIN svc[s].mem = {}
  /\ \A m \in AtWork :
       /\ manual[m].svc \in Alive /\ svc[manual[m].svc].phase # "boot"
       /\ manual[m].job \in Jobs /\ manual[m].at # 0

\* Without overlaps a service that was replaced does nothing any more.
OldOnesAreQuiet ==
  /\ \A s \in Started \ {Cur} : svc[s].phase \in {"on", "dead"} /\ ~svc[s].timer /\ ~svc[s].ticking
  /\ \A m \in AtWork : manual[m].svc = Cur

IdsAreKnown ==
  /\ DOMAIN disk \subseteq known /\ \A s \in Services : DOMAIN svc[s].mem \subseteq known
  /\ \A j \in Jobs : Claimed(j) => j \in known

\* A claimed run is alone, and as long as the job is there its marker is set, in the
\* file and in the memory of the service.
Marked(jobs, j) == j \in DOMAIN jobs => jobs[j].running # 0
OneClaim(j) ==
  /\ \A r, q \in BatchRuns(j) : r = q
  /\ \A m, n \in ManualRuns(j) : m = n
  /\ BatchRuns(j) = {} \/ ManualRuns(j) = {}
ClaimIsMarked(j) ==
  j \notin excused => OneClaim(j) /\ (Claimed(j) => Marked(disk, j) /\ Marked(svc[Cur].mem, j))

\* Conversely, a marker in either of them belongs to a claimed run.
MarkIsClaimed(j) ==
  Alive # {} /\ svc[Cur].phase # "boot" =>
    /\ j \in DOMAIN svc[Cur].mem <=> j \in DOMAIN disk
    /\ j \in DOMAIN disk /\ (disk[j].running # 0 \/ svc[Cur].mem[j].running # 0) => Claimed(j)

\* An enabled job has a time, unless it is a one-shot that is done.  So maintenance
\* never gives a time to a store that had none, which would need a timer.
Timed(jobs) ==
  \A j \in DOMAIN jobs : jobs[j].enabled /\ jobs[j].next = 0 =>
    j \in OneShots /\ jobs[j].status = "ok" /\ jobs[j].last # 0 /\ OneShotAt <= jobs[j].last
AllTimed == Timed(disk) /\ \A s \in Services : Timed(svc[s].mem)

WithoutOverlaps ==
  overlaps = 0 /\ Started # {} =>
    OldOnesAreQuiet /\ \A j \in Jobs : ClaimIsMarked(j) /\ MarkIsClaimed(j)

IInv ==
  /\ Types /\ ServicesInOrder /\ CurIsAlive /\ Owners /\ IdsAreKnown /\ AllTimed
  /\ TimerIsSet /\ WithoutOverlaps

-----------------------------------------------------------------------------
(* Jobs and stores.                                                        *)

LEMMA Bounds ==
  /\ Horizon \in Nat /\ NumJobs \in Nat /\ MaxTime \in Nat \ {0} /\ Period \in Nat \ {0}
  /\ Backoff \in Nat /\ Stagger \in Nat /\ OneShotAt \in Nat \ {0} /\ MaxImmediate \in Nat
  /\ MaxServices \in Nat /\ MaxErrors \in Nat /\ MaxEdits \in Nat /\ MaxReloads \in Nat
  /\ MaxOverlaps \in Nat /\ Concurrency \in Nat /\ Stagger * NumJobs \in Nat
  /\ Horizon = MaxTime + Period + Backoff + Stagger * NumJobs + OneShotAt
<1>1. /\ NumJobs \in Nat /\ MaxTime \in Nat \ {0} /\ Period \in Nat \ {0}
      /\ Backoff \in Nat /\ Stagger \in Nat /\ OneShotAt \in Nat \ {0} /\ MaxImmediate \in Nat
      /\ MaxServices \in Nat /\ MaxErrors \in Nat /\ MaxEdits \in Nat /\ MaxReloads \in Nat
      /\ MaxOverlaps \in Nat /\ Concurrency \in Nat
  BY ConstantsAssumption
<1>2. Stagger * NumJobs \in Nat
  BY <1>1
<1> QED
  BY <1>1, <1>2 DEF Horizon

\* A store is a function from some of the jobs to their records, and any such function
\* is one.
LEMMA StoreElim ==
  ASSUME NEW jobs \in Stores
  PROVE  /\ DOMAIN jobs \subseteq Jobs /\ \A j \in DOMAIN jobs : jobs[j] \in Job
         /\ jobs = [j \in DOMAIN jobs |-> jobs[j]]
BY DEF Stores

LEMMA StoreIntro ==
  ASSUME NEW D \in SUBSET Jobs, NEW jobs, jobs \in [D -> Job]
  PROVE  jobs \in Stores /\ DOMAIN jobs = D
BY DEF Stores

\* The next slot of the schedule is ahead, and within the horizon.
LEMMA SlotAhead ==
  ASSUME NEW t \in 1 .. MaxTime
  PROVE  NextSlot(t) \in 1 .. MaxTime + Period
<1> DEFINE q == t \div Period
<1>1. t \in Nat /\ Period \in Nat /\ Period > 0 /\ MaxTime \in Nat
  BY Bounds
<1>2. q \in Nat /\ q * Period <= t /\ q * Period \in Nat
  BY <1>1
<1>3. (q + 1) * Period = q * Period + Period
  BY <1>1, <1>2
<1> QED
  BY <1>1, <1>2, <1>3 DEF NextSlot

\* An enabled job gets a time, unless it is a one-shot that is done.
LEMMA NextRunTimes ==
  ASSUME NEW j \in Jobs, NEW job \in Job, NEW t \in 1 .. MaxTime
  PROVE  /\ NextRun(j, job, t) \in 0 .. Horizon
         /\ job.enabled /\ NextRun(j, job, t) = 0 =>
              j \in OneShots /\ job.status = "ok" /\ job.last # 0 /\ OneShotAt <= job.last
<1>1. CASE ~job.enabled
  BY <1>1, Bounds DEF NextRun
<1>2. CASE job.enabled /\ j \notin OneShots
  <2>1. NextRun(j, job, t) = NextSlot(t)
    BY <1>2 DEF NextRun
  <2> QED
    BY <1>2, <2>1, SlotAhead, Bounds
<1>3. CASE job.enabled /\ j \in OneShots
  <2>1. NextRun(j, job, t) =
          IF job.status = "ok" /\ job.last # 0 /\ OneShotAt <= job.last THEN 0 ELSE OneShotAt
    BY <1>3 DEF NextRun
  <2> QED
    BY <1>3, <2>1, Bounds
<1> QED
  BY <1>1, <1>2, <1>3 DEF Job

LEMMA RescheduledJob ==
  ASSUME NEW j \in Jobs, NEW job \in Job, NEW t \in 1 .. MaxTime
  PROVE  /\ Rescheduled(j, job, t) \in Job
         /\ Rescheduled(j, job, t).running = job.running
         /\ Rescheduled(j, job, t).enabled = job.enabled
         /\ Rescheduled(j, job, t).status = job.status
         /\ Rescheduled(j, job, t).last = job.last
         /\ Rescheduled(j, job, t).failures = job.failures
         /\ Rescheduled(j, job, t).next = NextRun(j, job, t)
BY NextRunTimes DEF Rescheduled, Job

LEMMA NormalJob ==
  ASSUME NEW job \in Job, NEW t \in 1 .. MaxTime
  PROVE  /\ Normal(job, t) \in Job /\ Normal(job, t).running \in {job.running, 0}
         /\ Normal(job, t).enabled = job.enabled /\ Normal(job, t).failures = job.failures
         /\ Normal(job, t).status = job.status /\ Normal(job, t).last = job.last
         /\ job.enabled => Normal(job, t).next = job.next
<1>1. \/ ~job.enabled /\ Normal(job, t) = [job EXCEPT !.next = 0, !.running = 0]
      \/ Normal(job, t) = [job EXCEPT !.running = 0]
      \/ Normal(job, t) = job
  BY DEF Normal, Job
<1>2. 0 \in 0 .. Horizon /\ 0 \in 0 .. MaxTime
  BY Bounds
<1> QED
  BY <1>1, <1>2 DEF Job

\* What a pass over the store may do to the markers.
Tidied(old, new) ==
  /\ DOMAIN new = DOMAIN old
  /\ \A j \in DOMAIN old : new[j].running \in {old[j].running, 0} /\ new[j].failures = old[j].failures

LEMMA MaintainedStore ==
  ASSUME NEW jobs \in Stores, NEW t \in 1 .. MaxTime, NEW e \in BOOLEAN
  PROVE  /\ Maintained(jobs, t, e) \in Stores /\ Tidied(jobs, Maintained(jobs, t, e))
         /\ Timed(Maintained(jobs, t, e))
<1> DEFINE new == Maintained(jobs, t, e)
<1>1. DOMAIN jobs \subseteq Jobs /\ DOMAIN new = DOMAIN jobs
  BY StoreElim DEF Maintained
<1>2. ASSUME NEW j \in DOMAIN jobs
      PROVE  /\ new[j] \in Job /\ new[j].running \in {jobs[j].running, 0}
             /\ new[j].failures = jobs[j].failures
             /\ new[j].enabled /\ new[j].next = 0 =>
                  j \in OneShots /\ new[j].status = "ok" /\ new[j].last # 0 /\ OneShotAt <= new[j].last
  <2> DEFINE job == Normal(jobs[j], t)
             served == e /\ job.next <= t /\ job.running = 0 /\ job.last >= job.next
  <2>1. jobs[j] \in Job /\ j \in Jobs
    BY StoreElim
  <2>2. /\ job \in Job /\ job.running \in {jobs[j].running, 0} /\ job.failures = jobs[j].failures
    BY <2>1, NormalJob
  <2>3. new[j] = IF job.enabled /\ (job.next = 0 \/ served) THEN Rescheduled(j, job, t) ELSE job
    BY DEF Maintained
  <2> HIDE DEF job, served, new
  <2>4. CASE job.enabled /\ (job.next = 0 \/ served)
    BY <2>1, <2>2, <2>3, <2>4, RescheduledJob, NextRunTimes
  <2>5. CASE ~(job.enabled /\ (job.next = 0 \/ served))
    BY <2>2, <2>3, <2>5
  <2> QED
    BY <2>4, <2>5
<1>3. new = [j \in DOMAIN jobs |-> new[j]]
  BY DEF Maintained
<1> HIDE DEF new
<1>4. new \in Stores
  BY <1>1, <1>2, <1>3, StoreIntro
<1>5. Tidied(jobs, new) /\ Timed(new)
  BY <1>1, <1>2 DEF Tidied, Timed
<1> QED
  BY <1>4, <1>5 DEF new

\* Maintenance gives no time to a store in which no job had one.
LEMMA MaintainedArmed ==
  ASSUME NEW jobs \in Stores, NEW t \in 1 .. MaxTime, NEW e \in BOOLEAN,
         Timed(jobs), Armed(Maintained(jobs, t, e))
  PROVE  Armed(jobs)
<1> DEFINE new == Maintained(jobs, t, e)
<1>1. DOMAIN new = DOMAIN jobs
  BY DEF Maintained
<1>2. PICK j \in DOMAIN jobs : new[j].enabled /\ new[j].next # 0
  BY <1>1 DEF Armed
<1> DEFINE job == Normal(jobs[j], t)
           served == e /\ job.next <= t /\ job.running = 0 /\ job.last >= job.next
<1>3. jobs[j] \in Job /\ j \in Jobs
  BY StoreElim
<1>4. /\ job \in Job /\ job.enabled = jobs[j].enabled /\ job.status = jobs[j].status
      /\ job.last = jobs[j].last /\ (job.enabled => job.next = jobs[j].next)
  BY <1>3, NormalJob
<1>5. new[j] = IF job.enabled /\ (job.next = 0 \/ served) THEN Rescheduled(j, job, t) ELSE job
  BY DEF Maintained
<1> HIDE DEF job, served, new
<1>6. jobs[j].enabled
  BY <1>2, <1>3, <1>4, <1>5, RescheduledJob
<1>7. CASE jobs[j].next = 0
  <2>1. j \in OneShots /\ job.status = "ok" /\ job.last # 0 /\ OneShotAt <= job.last
    BY <1>4, <1>6, <1>7 DEF Timed
  <2>2. NextRun(j, job, t) = 0
    BY <1>4, <1>6, <2>1 DEF NextRun
  <2>3. new[j].next = 0
    BY <1>3, <1>4, <1>5, <1>6, <1>7, <2>2, RescheduledJob
  <2> QED
    BY <1>2, <2>3
<1>8. CASE jobs[j].next # 0
  BY <1>6, <1>8 DEF Armed
<1> QED
  BY <1>7, <1>8

LEMMA RecomputedStore ==
  ASSUME NEW jobs \in Stores, NEW t \in 1 .. MaxTime
  PROVE  /\ Recomputed(jobs, t) \in Stores /\ Tidied(jobs, Recomputed(jobs, t))
         /\ Timed(Recomputed(jobs, t))
<1> DEFINE new == Recomputed(jobs, t)
<1>1. DOMAIN jobs \subseteq Jobs /\ DOMAIN new = DOMAIN jobs
  BY StoreElim DEF Recomputed
<1>2. ASSUME NEW j \in DOMAIN jobs
      PROVE  /\ new[j] \in Job /\ new[j].running \in {jobs[j].running, 0}
             /\ new[j].failures = jobs[j].failures
             /\ new[j].enabled /\ new[j].next = 0 =>
                  j \in OneShots /\ new[j].status = "ok" /\ new[j].last # 0 /\ OneShotAt <= new[j].last
  <2> DEFINE job == Normal(jobs[j], t)
  <2>1. jobs[j] \in Job /\ j \in Jobs
    BY StoreElim
  <2>2. /\ job \in Job /\ job.running \in {jobs[j].running, 0} /\ job.failures = jobs[j].failures
    BY <2>1, NormalJob
  <2>3. new[j] = IF job.enabled /\ job.next <= t THEN Rescheduled(j, job, t) ELSE job
    BY DEF Recomputed
  <2> HIDE DEF job, new
  <2>4. CASE job.enabled /\ job.next <= t
    BY <2>1, <2>2, <2>3, <2>4, RescheduledJob, NextRunTimes
  <2>5. CASE ~(job.enabled /\ job.next <= t)
    BY <2>2, <2>3, <2>5, Bounds DEF Job
  <2> QED
    BY <2>4, <2>5
<1>3. new = [j \in DOMAIN jobs |-> new[j]]
  BY DEF Recomputed
<1> HIDE DEF new
<1>4. new \in Stores
  BY <1>1, <1>2, <1>3, StoreIntro
<1>5. Tidied(jobs, new) /\ Timed(new)
  BY <1>1, <1>2 DEF Tidied, Timed
<1> QED
  BY <1>4, <1>5 DEF new

\* A result clears the marker.
LEMMA ResultJob ==
  ASSUME NEW j \in Jobs, NEW job \in Job, NEW run \in Run, NEW t \in 1 .. MaxTime
  PROVE  /\ Result(j, job, run, t) \in Job /\ Result(j, job, run, t).running = 0
         /\ Result(j, job, run, t).failures <= job.failures + (IF run.outcome = "ok" THEN 0 ELSE 1)
<1> DEFINE ok == run.outcome = "ok"
           done == [job EXCEPT !.running = 0, !.last = run.start,
                               !.status = IF ok THEN "ok" ELSE "error",
                               !.failures = IF ok THEN 0 ELSE job.failures + 1]
           natural == NextRun(j, done, t)
<1>1. /\ done \in Job /\ done.running = 0
      /\ done.failures <= job.failures + (IF run.outcome = "ok" THEN 0 ELSE 1)
  <2>1. 0 \in 0 .. MaxTime /\ run.start \in 0 .. MaxTime
    BY Bounds DEF Run
  <2>2. job.failures \in Nat /\ job.failures + 1 \in Nat
    BY DEF Job
  <2> DEFINE d(status, n) == [job EXCEPT !.running = 0, !.last = run.start, !.status = status, !.failures = n]
  <2>3. ASSUME NEW status \in {"ok", "error"}, NEW n \in Nat
        PROVE  d(status, n) \in Job /\ d(status, n).running = 0 /\ d(status, n).failures = n
    BY <2>1 DEF Job
  <2>4. done = IF ok THEN d("ok", 0) ELSE d("error", job.failures + 1)
    OBVIOUS
  <2> HIDE DEF d, done
  <2> QED
    BY <2>2, <2>3, <2>4
<1>2. natural \in 0 .. Horizon
  BY <1>1, NextRunTimes
<1>3. t + Backoff \in 0 .. Horizon
  BY Bounds
<1>4. Max({natural, t + Backoff}) \in 0 .. Horizon
  BY <1>2, <1>3, Bounds DEF Max
<1>5. \/ Result(j, job, run, t) = [done EXCEPT !.next = t + Backoff]
      \/ Result(j, job, run, t) = [done EXCEPT !.enabled = FALSE, !.next = 0]
      \/ Result(j, job, run, t) = [done EXCEPT !.next = Max({natural, t + Backoff})]
      \/ Result(j, job, run, t) = [done EXCEPT !.next = natural]
  BY DEF Result
<1>6. 0 \in 0 .. Horizon
  BY Bounds
<1> HIDE DEF done, natural
<1> QED
  BY <1>1, <1>2, <1>3, <1>4, <1>5, <1>6 DEF Job

\* The results of the runs that ended clear their markers and touch nothing else.
LEMMA SettledStore ==
  ASSUME NEW jobs \in Stores, NEW runs \in [Jobs -> Run], NEW t \in 1 .. MaxTime
  PROVE  /\ Settled(jobs, runs, t) \in Stores /\ DOMAIN Settled(jobs, runs, t) \subseteq DOMAIN jobs
         /\ \A j \in DOMAIN jobs : runs[j].stage # "ended" =>
              j \in DOMAIN Settled(jobs, runs, t) /\ Settled(jobs, runs, t)[j] = jobs[j]
         /\ \A j \in DOMAIN Settled(jobs, runs, t) : runs[j].stage = "ended" =>
              /\ Settled(jobs, runs, t)[j].running = 0
              /\ Settled(jobs, runs, t)[j].failures
                   <= jobs[j].failures + (IF runs[j].outcome = "ok" THEN 0 ELSE 1)
<1> DEFINE new == Settled(jobs, runs, t)
           D == { i \in DOMAIN jobs : ~(runs[i].stage = "ended" /\ Deleted(i, runs[i])) }
<1>1. DOMAIN jobs \subseteq Jobs /\ DOMAIN new = D /\ new = [j \in D |-> new[j]]
  BY StoreElim DEF Settled
<1>2. \A j \in D : new[j] = IF runs[j].stage = "ended" THEN Result(j, jobs[j], runs[j], t) ELSE jobs[j]
  BY DEF Settled
<1>3. \A j \in DOMAIN jobs : jobs[j] \in Job /\ runs[j] \in Run /\ j \in Jobs
  BY StoreElim
<1>4. D \subseteq DOMAIN jobs /\ \A j \in DOMAIN jobs : runs[j].stage # "ended" => j \in D
  OBVIOUS
<1> HIDE DEF new, D
<1>5. \A j \in D :
        /\ new[j] \in Job
        /\ runs[j].stage = "ended" =>
             /\ new[j].running = 0
             /\ new[j].failures <= jobs[j].failures + (IF runs[j].outcome = "ok" THEN 0 ELSE 1)
  BY <1>2, <1>3, <1>4, ResultJob
<1>6. new \in Stores
  <2>1. D \in SUBSET Jobs
    BY <1>1, <1>4
  <2>2. new \in [D -> Job]
    BY <1>1, <1>5
  <2> QED
    BY <2>1, <2>2, StoreIntro
<1>7. \A j \in DOMAIN jobs : runs[j].stage # "ended" => j \in D /\ new[j] = jobs[j]
  BY <1>2, <1>4
<1> QED
  BY <1>1, <1>4, <1>5, <1>6, <1>7 DEF new

\* A pass that changes markers only.
LEMMA RemarkedStore ==
  ASSUME NEW jobs \in Stores, NEW new, new = [j \in DOMAIN jobs |-> new[j]],
         \A j \in DOMAIN jobs :
           new[j] = jobs[j] \/ \E t \in 0 .. MaxTime : new[j] = [jobs[j] EXCEPT !.running = t]
  PROVE  /\ new \in Stores /\ DOMAIN new = DOMAIN jobs
         /\ \A j \in DOMAIN jobs : new[j].failures = jobs[j].failures
         /\ Timed(jobs) => Timed(new)
         /\ Armed(new) <=> Armed(jobs)
<1>1. DOMAIN jobs \subseteq Jobs /\ DOMAIN new = DOMAIN jobs /\ \A j \in DOMAIN jobs : jobs[j] \in Job
  BY StoreElim
<1>2. ASSUME NEW j \in DOMAIN jobs
      PROVE  /\ new[j] \in Job /\ new[j].failures = jobs[j].failures /\ new[j].enabled = jobs[j].enabled
             /\ new[j].next = jobs[j].next /\ new[j].status = jobs[j].status /\ new[j].last = jobs[j].last
  BY <1>1 DEF Job
<1>3. new \in Stores
  BY <1>1, <1>2, StoreIntro
<1>4. Timed(jobs) => Timed(new)
  BY <1>1, <1>2 DEF Timed
<1>5. Armed(new) <=> Armed(jobs)
  BY <1>1, <1>2 DEF Armed
<1> QED
  BY <1>1, <1>2, <1>3, <1>4, <1>5

LEMMA NewJobs ==
  ASSUME NEW j \in Jobs, NEW t \in 1 .. MaxTime
  PROVE  /\ NewJob(j, t) \in Job /\ NewJob(j, t).running = 0 /\ NewJob(j, t).failures = 0
         /\ NewJob(j, t).enabled /\ NewJob(j, t).next # 0
<1> DEFINE job == [enabled |-> TRUE, next |-> 0, running |-> 0, last |-> 0, status |-> "none", failures |-> 0]
<1>1. job \in Job
  BY Bounds DEF Job
<1>2. NewJob(j, t) = Rescheduled(j, job, t)
  BY DEF NewJob
<1> QED
  BY <1>1, <1>2, RescheduledJob, NextRunTimes

\* A pass that tidies a store loses no marker of a claimed run, except those that are
\* excused by it.
LEMMA TidyKeeps ==
  ASSUME NEW old, NEW new, Tidied(old, new), excused' = excused \cup Cleared(old, new),
         NEW j \in Jobs, j \notin excused', Claimed(j), Marked(old, j)
  PROVE  Marked(new, j)
BY DEF Tidied, Cleared, Marked

-----------------------------------------------------------------------------
(* Services.                                                               *)

\* The service built last is the current one.
LEMMA CurIsLast ==
  ASSUME NEW k \in Nat \ {0}, Started = 1 .. k
  PROVE  Cur = k
BY DEF Cur, Max

\* The next one to be built has the next number.
LEMMA NextIsNew ==
  ASSUME NEW k \in 0 .. MaxServices, Started = 1 .. k
  PROVE  Cardinality(Started) + 1 = k + 1 /\ k + 1 \notin Started /\ k \in Nat
<1>1. k \in Nat
  BY Bounds
<1>2. Cardinality(1 .. k) = k
  <2>1. 1 \in Int /\ k \in Int
    BY <1>1
  <2>2. Cardinality(1 .. k) = IF 1 > k THEN 0 ELSE k - 1 + 1
    BY ONLY <2>1, FS_Interval
  <2> QED
    BY <1>1, <2>2
<1> QED
  BY <1>1, <1>2

LEMMA CurIsStarted ==
  ASSUME ServicesInOrder, Started # {}
  PROVE  Cur \in Started
<1>1. PICK k \in 0 .. MaxServices : Started = 1 .. k
  BY DEF ServicesInOrder
<1>2. k \in Nat \ {0}
  BY <1>1, Bounds
<1> QED
  BY <1>1, <1>2, CurIsLast

\* Without overlaps only the current service does anything.
LEMMA OnlyCurActs ==
  ASSUME IInv, overlaps = 0, NEW s \in Alive,
         \/ svc[s].phase # "on" \/ svc[s].timer \/ svc[s].ticking
         \/ \E m \in AtWork : manual[m].svc = s
  PROVE  s = Cur
BY DEF IInv, WithoutOverlaps, OldOnesAreQuiet, Alive, Started

\* A step of a service that lives on.
Acts(s) ==
  /\ s \in Alive /\ \A r \in Services \ {s} : svc'[r] = svc[r]
  /\ svc'[s].phase = svc[s].phase \/ svc'[s].phase \notin {"none", "boot", "dead"}

LEMMA ActsServices ==
  ASSUME NEW s, Acts(s)
  PROVE  /\ Started' = Started /\ Alive' = Alive /\ Cur' = Cur /\ s \in Started /\ s \in Services
         /\ \A r \in Services : svc[r].phase # "boot" => svc'[r].phase # "boot"
<1>1. /\ \A r \in Services : (svc'[r].phase = "none") <=> (svc[r].phase = "none")
      /\ \A r \in Services : (svc'[r].phase = "dead") <=> (svc[r].phase = "dead")
      /\ \A r \in Services : svc[r].phase # "boot" => svc'[r].phase # "boot"
      /\ s \in Started /\ s \in Services
  BY DEF Acts, Alive, Started
<1>2. Started' = Started
  BY <1>1 DEF Started
<1>3. Alive' = Alive
  <2>1. \A r \in Started : r \in Services
    BY DEF Started
  <2> QED
    BY <1>1, <1>2, <2>1 DEF Alive
<1> QED
  BY <1>1, <1>2, <1>3 DEF Cur

LEMMA ServiceChanges ==
  ASSUME Types, NEW s \in Services, NEW x \in ServiceState, svc' = [svc EXCEPT ![s] = x]
  PROVE  /\ svc' \in [Services -> ServiceState] /\ svc'[s] = x
         /\ \A r \in Services \ {s} : svc'[r] = svc[r]
BY DEF Types

\* Steps that claim no run and settle none.
LEMMA SameClaims ==
  ASSUME \A r \in Services, b \in Batches, j \in Jobs :
           (batch'[r][b][j].stage = "none") <=> (batch[r][b][j].stage = "none"),
         \A m \in Manuals :
           /\ (manual'[m].stage = "reserved") <=> (manual[m].stage = "reserved")
           /\ manual[m].stage = "reserved" => manual'[m].job = manual[m].job
  PROVE  \A j \in Jobs :
           /\ BatchRuns(j)' = BatchRuns(j) /\ ManualRuns(j)' = ManualRuns(j)
           /\ (Claimed(j)' <=> Claimed(j)) /\ (OneClaim(j)' <=> OneClaim(j))
<1> SUFFICES ASSUME NEW j \in Jobs
             PROVE  /\ BatchRuns(j)' = BatchRuns(j) /\ ManualRuns(j)' = ManualRuns(j)
                    /\ (Claimed(j)' <=> Claimed(j)) /\ (OneClaim(j)' <=> OneClaim(j))
  OBVIOUS
<1>1. BatchRuns(j)' = BatchRuns(j)
  BY DEF BatchRuns
<1>2. ManualRuns(j)' = ManualRuns(j)
  BY DEF ManualRuns
<1> QED
  BY <1>1, <1>2 DEF Claimed, OneClaim

\* Work keeps its owner when no run is claimed and the service goes on with its own.
LEMMA OwnersKept ==
  ASSUME IInv, NEW s, Acts(s),
         \A r \in Services, b \in Batches, j \in Jobs :
           (batch'[r][b][j].stage = "none") <=> (batch[r][b][j].stage = "none"),
         \A m \in AtWork' :
           \/ /\ m \in AtWork /\ manual'[m].svc = manual[m].svc
              /\ manual'[m].job = manual[m].job /\ manual'[m].at = manual[m].at
           \/ /\ manual'[m].svc = s /\ svc[s].phase # "boot"
              /\ manual'[m].job \in Jobs /\ manual'[m].at # 0,
         svc[s].phase = "catchup" => svc'[s].phase = "catchup",
         svc[s].ticking => svc'[s].ticking
  PROVE  Owners'
<1>1. /\ Started' = Started /\ Alive' = Alive /\ s \in Alive /\ s \in Services
      /\ \A r \in Services : svc[r].phase # "boot" => svc'[r].phase # "boot"
  BY ActsServices DEF Acts
<1>2. Owners /\ \A r \in Services : r # s => svc'[r] = svc[r]
  BY DEF IInv, Acts
<1>3. \A r \in Services, j \in Jobs :
        /\ batch'[r]["startup"][j].stage # "none" => svc'[r].phase = "catchup"
        /\ batch'[r]["tick"][j].stage # "none" => svc'[r].ticking
  BY <1>1, <1>2 DEF Owners, Batches
<1>4. /\ \A r \in Services \ Alive : ~svc'[r].timer /\ ~svc'[r].ticking
      /\ \A r \in Services \ Started : DOMAIN svc'[r].mem = {}
  BY <1>1, <1>2 DEF Owners, Alive
<1>5. \A m \in AtWork' :
        /\ manual'[m].svc \in Alive /\ svc'[manual'[m].svc].phase # "boot"
        /\ manual'[m].job \in Jobs /\ manual'[m].at # 0
  <2>1. \A r \in Alive : r \in Services
    BY DEF Alive, Started
  <2> QED
    BY <1>1, <1>2, <2>1 DEF Owners
<1> QED
  BY <1>1, <1>3, <1>4, <1>5 DEF Owners

\* What is left to show for a step of a service.
LEMMA ActsKeeps ==
  ASSUME IInv, NEW s, Acts(s), Types', Owners',
         overlaps' = 0 => overlaps = 0, known \subseteq known',
         DOMAIN disk' \subseteq known', DOMAIN svc'[s].mem \subseteq known',
         \A j \in Jobs : Claimed(j)' => Claimed(j) \/ j \in known',
         Timed(disk'), Timed(svc'[s].mem),
         s = Cur /\ svc'[s].phase = "on" /\ Armed(svc'[s].mem) => svc'[s].timer,
         overlaps' = 0 =>
           /\ s = Cur /\ (\A m \in AtWork' : manual'[m].svc = s)
           /\ \A j \in Jobs : ClaimIsMarked(j)' /\ MarkIsClaimed(j)'
  PROVE  IInv'
<1>1. /\ Started' = Started /\ Alive' = Alive /\ Cur' = Cur /\ s \in Started /\ s \in Services
  BY ActsServices
<1>2. ServicesInOrder' /\ CurIsAlive'
  BY <1>1 DEF IInv, ServicesInOrder, CurIsAlive
<1>3. IdsAreKnown'
  <2>1. \A r \in Services : DOMAIN svc'[r].mem \subseteq known'
    BY DEF Acts, IInv, IdsAreKnown
  <2> QED
    BY <2>1 DEF IInv, IdsAreKnown
<1>4. AllTimed'
  <2>1. \A r \in Services : Timed(svc'[r].mem)
    BY DEF Acts, IInv, AllTimed
  <2> QED
    BY <2>1 DEF AllTimed, Timed
<1>5. TimerIsSet'
  <2>1. \A r \in Started : r = Cur /\ svc'[r].phase = "on" /\ Armed(svc'[r].mem) => svc'[r].timer
    BY DEF Acts, IInv, TimerIsSet, Started
  <2> QED
    BY <1>1, <2>1 DEF TimerIsSet, Armed
<1>6. WithoutOverlaps'
  <2> SUFFICES ASSUME overlaps' = 0
               PROVE  OldOnesAreQuiet' /\ \A j \in Jobs : ClaimIsMarked(j)' /\ MarkIsClaimed(j)'
    BY DEF WithoutOverlaps
  <2>1. OldOnesAreQuiet
    BY <1>1 DEF IInv, WithoutOverlaps
  <2>2. OldOnesAreQuiet'
    BY <1>1, <2>1 DEF OldOnesAreQuiet, Acts, Started, AtWork
  <2> QED
    BY <2>2
<1> QED
  BY <1>2, <1>3, <1>4, <1>5, <1>6 DEF IInv

\* Without overlaps, for a step of the current service that claims and settles no run.
LEMMA SameClaimsSound ==
  ASSUME IInv, NEW s, Acts(s), overlaps = 0, s = Cur,
         \A j \in Jobs : (Claimed(j)' <=> Claimed(j)) /\ (OneClaim(j)' <=> OneClaim(j)),
         excused \subseteq excused',
         \A m \in AtWork' : manual'[m].svc = s \/ (m \in AtWork /\ manual'[m].svc = manual[m].svc),
         \A j \in Jobs \ excused' : Claimed(j) /\ Marked(disk, j) /\ Marked(svc[s].mem, j) =>
           Marked(disk', j) /\ Marked(svc'[s].mem, j),
         \A j \in Jobs : svc'[s].phase # "boot" =>
           /\ j \in DOMAIN svc'[s].mem <=> j \in DOMAIN disk'
           /\ j \in DOMAIN disk' /\ (disk'[j].running # 0 \/ svc'[s].mem[j].running # 0) => Claimed(j)
  PROVE  /\ \A m \in AtWork' : manual'[m].svc = s
         /\ \A j \in Jobs : ClaimIsMarked(j)' /\ MarkIsClaimed(j)'
<1>1. Cur' = Cur /\ s \in Started
  BY ActsServices
<1>2. OldOnesAreQuiet /\ \A j \in Jobs : ClaimIsMarked(j)
  BY <1>1 DEF IInv, WithoutOverlaps
<1>3. \A j \in Jobs : ClaimIsMarked(j)'
  BY <1>1, <1>2 DEF ClaimIsMarked, Marked
<1>4. \A j \in Jobs : MarkIsClaimed(j)'
  BY <1>1 DEF MarkIsClaimed
<1>5. \A m \in AtWork' : manual'[m].svc = s
  BY <1>2 DEF OldOnesAreQuiet
<1> QED
  BY <1>3, <1>4, <1>5

-----------------------------------------------------------------------------
(* start()                                                                 *)

LEMMA ClearMarkersStep ==
  ASSUME IInv, NEW s \in Services, ClearMarkers(s)
  PROVE  IInv'
<1> DEFINE stale == { j \in DOMAIN disk : disk[j].running # 0 }
           jobs == [j \in DOMAIN disk |-> [disk[j] EXCEPT !.running = 0]]
<1>1. Types /\ disk \in Stores
  BY DEF IInv, Types
<1>2. /\ svc[s].phase = "boot" /\ disk' = jobs
      /\ svc' = [svc EXCEPT ![s].phase = "plan", ![s].mem = jobs, ![s].skip = stale]
      /\ excused' = excused \cup Cleared(disk, jobs)
      /\ UNCHANGED << now, batch, manual, counters, overlaps >>
  BY DEF ClearMarkers
<1>3. jobs \in Stores /\ DOMAIN jobs = DOMAIN disk /\ Timed(jobs)
  <2>1. jobs = [j \in DOMAIN disk |-> jobs[j]]
    OBVIOUS
  <2>2. \A j \in DOMAIN disk : jobs[j] = [disk[j] EXCEPT !.running = 0]
    OBVIOUS
  <2>3. 0 \in 0 .. MaxTime /\ Timed(disk)
    BY Bounds DEF IInv, AllTimed
  <2> HIDE DEF jobs
  <2> QED
    BY <1>1, <2>1, <2>2, <2>3, RemarkedStore
<1>4. \A j \in DOMAIN disk : jobs[j].running = 0 /\ j \in Jobs
  BY <1>1, StoreElim DEF Job
<1>5. stale \subseteq Jobs /\ Cleared(disk, jobs) \subseteq Jobs
  BY <1>4 DEF Cleared
<1> HIDE DEF jobs, stale
<1>6. /\ svc' \in [Services -> ServiceState] /\ \A r \in Services \ {s} : svc'[r] = svc[r]
      /\ svc'[s].phase = "plan" /\ svc'[s].mem = jobs
      /\ svc'[s].timer = svc[s].timer /\ svc'[s].ticking = svc[s].ticking
  <2> DEFINE x == [svc[s] EXCEPT !.phase = "plan", !.mem = jobs, !.skip = stale]
  <2>1. /\ x \in ServiceState /\ x.phase = "plan" /\ x.mem = jobs
        /\ x.timer = svc[s].timer /\ x.ticking = svc[s].ticking
    BY <1>1, <1>3, <1>5 DEF Types, ServiceState
  <2>2. svc' = [svc EXCEPT ![s] = x]
    BY <1>2
  <2> HIDE DEF x
  <2>3. svc' \in [Services -> ServiceState] /\ svc'[s] = x /\ \A r \in Services \ {s} : svc'[r] = svc[r]
    BY <1>1, <2>1, <2>2, ServiceChanges
  <2> QED
    BY <2>1, <2>3
<1>7. Types'
  BY <1>1, <1>2, <1>3, <1>5, <1>6 DEF Types, counters
<1>8. Acts(s)
  BY <1>2, <1>6 DEF Acts, Alive, Started
<1>9. AtWork' = AtWork /\ manual' = manual /\ batch' = batch
  BY <1>2 DEF AtWork
<1>10. Owners'
  BY <1>2, <1>6, <1>8, <1>9, OwnersKept
<1>11. \A j \in Jobs : (Claimed(j)' <=> Claimed(j)) /\ (OneClaim(j)' <=> OneClaim(j))
  BY <1>9, SameClaims
<1>12. DOMAIN disk' \subseteq known' /\ DOMAIN svc'[s].mem \subseteq known' /\ known' = known
  BY <1>2, <1>3, <1>6 DEF IInv, IdsAreKnown, counters
<1>13. ASSUME overlaps = 0
       PROVE  /\ s = Cur /\ (\A m \in AtWork' : manual'[m].svc = s)
              /\ \A j \in Jobs : ClaimIsMarked(j)' /\ MarkIsClaimed(j)'
  <2>1. s = Cur
    BY <1>2, <1>8, <1>13, OnlyCurActs DEF Acts
  <2>2. \A j \in Jobs \ excused' : Claimed(j) /\ Marked(disk, j) => j \notin DOMAIN jobs
    BY <1>2, <1>3, <1>4 DEF Cleared, Marked
  <2> QED
    BY <1>2, <1>3, <1>4, <1>6, <1>8, <1>9, <1>11, <1>13, <2>1, <2>2, SameClaimsSound DEF Marked
<1> QED
  BY <1>2, <1>3, <1>6, <1>7, <1>8, <1>10, <1>11, <1>12, <1>13, ActsKeeps

LEMMA ArmStep ==
  ASSUME IInv, NEW s \in Services, Arm(s)
  PROVE  IInv'
<1> DEFINE jobs == Recomputed(disk, now)
<1>1. Types /\ disk \in Stores /\ now \in 1 .. MaxTime
  BY DEF IInv, Types
<1>2. /\ svc[s].phase = "arm" /\ disk' = jobs
      /\ svc' = [svc EXCEPT ![s].phase = "on", ![s].mem = jobs, ![s].fresh = FALSE, ![s].timer = Armed(jobs)]
      /\ excused' = excused \cup Cleared(disk, jobs)
      /\ UNCHANGED << now, batch, manual, counters, overlaps >>
  BY DEF Arm
<1>3. jobs \in Stores /\ Tidied(disk, jobs) /\ Timed(jobs)
  BY <1>1, RecomputedStore
<1>4. DOMAIN jobs = DOMAIN disk /\ DOMAIN jobs \subseteq Jobs /\ Cleared(disk, jobs) \subseteq Jobs
  BY <1>1, <1>3, StoreElim DEF Tidied, Cleared
<1> HIDE DEF jobs
<1>5. Armed(jobs) \in BOOLEAN
  BY DEF Armed
<1>6. /\ svc' \in [Services -> ServiceState] /\ \A r \in Services \ {s} : svc'[r] = svc[r]
      /\ svc'[s].phase = "on" /\ svc'[s].mem = jobs
      /\ svc'[s].timer = Armed(jobs) /\ svc'[s].ticking = svc[s].ticking
  <2> DEFINE x == [svc[s] EXCEPT !.phase = "on", !.mem = jobs, !.fresh = FALSE, !.timer = Armed(jobs)]
  <2>1. /\ x \in ServiceState /\ x.phase = "on" /\ x.mem = jobs
        /\ x.timer = Armed(jobs) /\ x.ticking = svc[s].ticking
    BY <1>1, <1>3, <1>5 DEF Types, ServiceState
  <2>2. svc' = [svc EXCEPT ![s] = x]
    BY <1>2
  <2> HIDE DEF x
  <2>3. svc' \in [Services -> ServiceState] /\ svc'[s] = x /\ \A r \in Services \ {s} : svc'[r] = svc[r]
    BY <1>1, <2>1, <2>2, ServiceChanges
  <2> QED
    BY <2>1, <2>3
<1>7. Types'
  BY <1>1, <1>2, <1>3, <1>4, <1>6 DEF Types, counters
<1>8. Acts(s)
  BY <1>2, <1>6 DEF Acts, Alive, Started
<1>9. AtWork' = AtWork /\ manual' = manual /\ batch' = batch
  BY <1>2 DEF AtWork
<1>10. Owners'
  BY <1>2, <1>6, <1>8, <1>9, OwnersKept
<1>11. \A j \in Jobs : (Claimed(j)' <=> Claimed(j)) /\ (OneClaim(j)' <=> OneClaim(j))
  BY <1>9, SameClaims
<1>12. DOMAIN disk' \subseteq known' /\ DOMAIN svc'[s].mem \subseteq known' /\ known' = known
  BY <1>2, <1>4, <1>6 DEF IInv, IdsAreKnown, counters
<1>13. ASSUME overlaps = 0
       PROVE  /\ s = Cur /\ (\A m \in AtWork' : manual'[m].svc = s)
              /\ \A j \in Jobs : ClaimIsMarked(j)' /\ MarkIsClaimed(j)'
  <2>1. s = Cur
    BY <1>2, <1>8, <1>13, OnlyCurActs DEF Acts
  <2>2. \A j \in Jobs \ excused' : Claimed(j) /\ Marked(disk, j) => Marked(jobs, j)
    BY <1>2, <1>3, TidyKeeps
  <2>3. \A j \in Jobs : j \in DOMAIN jobs /\ jobs[j].running # 0 => Claimed(j)
    BY <1>2, <1>3, <1>4, <1>8, <1>13, <2>1 DEF Tidied, IInv, WithoutOverlaps, MarkIsClaimed, Acts, Alive
  <2> QED
    BY <1>2, <1>4, <1>6, <1>8, <1>9, <1>11, <1>13, <2>1, <2>2, <2>3, SameClaimsSound
<1> QED
  BY <1>2, <1>3, <1>6, <1>7, <1>8, <1>10, <1>11, <1>12, <1>13, ActsKeeps

-----------------------------------------------------------------------------
(* Requests.                                                               *)

\* A request that does not make the work of two services overlap reaches the current
\* one.
LEMMA ServingIsCur ==
  ASSUME IInv, NEW s, Serving(s), Overlap(s # Cur)
  PROVE  /\ s \in Alive /\ svc[s].phase # "boot" /\ overlaps' \in 0 .. MaxOverlaps
         /\ overlaps' = 0 => s = Cur /\ overlaps = 0
<1>1. overlaps \in 0 .. MaxOverlaps
  BY DEF IInv, Types
<1> QED
  BY <1>1, Bounds DEF Serving, Overlap

\* A service writes a store to its memory and to the file, and claims and settles no
\* run.
LEMMA WriteKeeps ==
  ASSUME IInv, NEW s \in Services, NEW jobs \in Stores, NEW timer \in BOOLEAN, NEW fresh \in BOOLEAN,
         Serving(s), Overlap(s # Cur),
         disk' = jobs, svc' = [svc EXCEPT ![s].mem = jobs, ![s].fresh = fresh, ![s].timer = timer],
         UNCHANGED << now, batch, manual >>,
         known \subseteq known', known' \subseteq Jobs, DOMAIN jobs \subseteq known',
         edits' \in 0 .. MaxEdits, reloads' \in 0 .. MaxReloads, errors' \in 0 .. MaxErrors,
         excused \subseteq excused', excused' \subseteq Jobs,
         Timed(jobs), s = Cur /\ svc[s].phase = "on" /\ Armed(jobs) => timer,
         \A j \in Jobs \ excused' : Claimed(j) /\ Marked(svc[s].mem, j) => Marked(jobs, j),
         \A j \in DOMAIN jobs : jobs[j].running # 0 => j \in DOMAIN svc[s].mem /\ svc[s].mem[j].running # 0
  PROVE  IInv'
<1>1. Types
  BY DEF IInv
<1>2. /\ s \in Alive /\ svc[s].phase # "boot" /\ overlaps' \in 0 .. MaxOverlaps
      /\ overlaps' = 0 => s = Cur /\ overlaps = 0
  BY ServingIsCur
<1>3. /\ svc' \in [Services -> ServiceState] /\ \A r \in Services \ {s} : svc'[r] = svc[r]
      /\ svc'[s].phase = svc[s].phase /\ svc'[s].mem = jobs
      /\ svc'[s].timer = timer /\ svc'[s].ticking = svc[s].ticking
  <2> DEFINE x == [svc[s] EXCEPT !.mem = jobs, !.fresh = fresh, !.timer = timer]
  <2>1. /\ x \in ServiceState /\ x.phase = svc[s].phase /\ x.mem = jobs
        /\ x.timer = timer /\ x.ticking = svc[s].ticking
    <3>1. svc[s] \in ServiceState
      BY <1>1 DEF Types
    <3>2. jobs \in Stores /\ timer \in BOOLEAN /\ fresh \in BOOLEAN
      OBVIOUS
    <3> QED
      BY ONLY <3>1, <3>2 DEF ServiceState
  <2>2. svc' = [svc EXCEPT ![s] = x]
    OBVIOUS
  <2> HIDE DEF x
  <2>3. svc' \in [Services -> ServiceState] /\ svc'[s] = x /\ \A r \in Services \ {s} : svc'[r] = svc[r]
    BY <1>1, <2>1, <2>2, ServiceChanges
  <2> QED
    BY <2>1, <2>3
<1>4. Types'
  BY <1>1, <1>2, <1>3 DEF Types
<1>5. Acts(s)
  BY <1>2, <1>3 DEF Acts
<1>6. AtWork' = AtWork /\ manual' = manual /\ batch' = batch
  BY DEF AtWork
<1>7. Owners'
  BY <1>3, <1>5, <1>6, OwnersKept
<1>8. \A j \in Jobs : (Claimed(j)' <=> Claimed(j)) /\ (OneClaim(j)' <=> OneClaim(j))
  BY <1>6, SameClaims
<1>9. DOMAIN disk' \subseteq known' /\ DOMAIN svc'[s].mem \subseteq known'
  BY <1>3
<1>10. ASSUME overlaps' = 0
       PROVE  /\ s = Cur /\ (\A m \in AtWork' : manual'[m].svc = s)
              /\ \A j \in Jobs : ClaimIsMarked(j)' /\ MarkIsClaimed(j)'
  <2>1. s = Cur /\ overlaps = 0
    BY <1>2, <1>10
  <2>2. \A j \in Jobs : MarkIsClaimed(j)
    BY <1>2, <2>1 DEF IInv, WithoutOverlaps, Alive
  <2>3. \A j \in Jobs : j \in DOMAIN jobs /\ jobs[j].running # 0 => Claimed(j)
    BY <1>2, <2>1, <2>2 DEF MarkIsClaimed
  <2>4. svc'[s].mem = jobs /\ disk' = jobs /\ excused \subseteq excused'
    BY <1>3
  <2> QED
    BY <1>5, <1>6, <1>8, <2>1, <2>3, <2>4, SameClaimsSound
<1> QED
  BY <1>2, <1>3, <1>4, <1>5, <1>7, <1>8, <1>9, <1>10, ActsKeeps

LEMMA AddStep ==
  ASSUME IInv, NEW s \in Services, NEW j \in Jobs, Add(s, j)
  PROVE  IInv'
<1> DEFINE mem == svc[s].mem
           all == [i \in DOMAIN mem \cup {j} |-> IF i = j THEN NewJob(j, now) ELSE mem[i]]
           jobs == Recomputed(all, now)
<1>1. Types /\ mem \in Stores /\ now \in 1 .. MaxTime /\ svc[s].fresh \in BOOLEAN
  BY DEF IInv, Types, ServiceState
<1>2. /\ Serving(s) /\ j \in Jobs \ known /\ known' = known \cup {j}
      /\ PersistAndArm(s, jobs, TRUE) /\ excused' = excused \cup Cleared(mem, jobs)
      /\ Overlap(s # Cur) /\ UNCHANGED << now, batch, manual, edits, reloads, errors >>
  BY DEF Add
<1>3. DOMAIN mem \subseteq known /\ ~Claimed(j) /\ known \subseteq Jobs
  BY <1>1, <1>2 DEF IInv, IdsAreKnown, Types
<1>4. all \in Stores /\ DOMAIN all = DOMAIN mem \cup {j} /\ all[j].running = 0
  <2>1. DOMAIN mem \cup {j} \in SUBSET Jobs
    BY <1>3
  <2>2. \A i \in DOMAIN mem \cup {j} : (IF i = j THEN NewJob(j, now) ELSE mem[i]) \in Job
    BY <1>1, StoreElim, NewJobs
  <2>3. all \in [DOMAIN mem \cup {j} -> Job]
    BY <2>2
  <2>4. all[j] = NewJob(j, now)
    OBVIOUS
  <2> HIDE DEF all, mem
  <2> QED
    BY <1>1, <2>1, <2>3, <2>4, StoreIntro, NewJobs
<1>5. \A i \in DOMAIN mem : i # j => all[i] = mem[i]
  OBVIOUS
<1>6. jobs \in Stores /\ Tidied(all, jobs) /\ Timed(jobs)
  BY <1>1, <1>4, RecomputedStore
<1> HIDE DEF mem, all, jobs
<1>7. /\ DOMAIN jobs = DOMAIN mem \cup {j} /\ DOMAIN jobs \subseteq known' /\ j \notin DOMAIN mem
      /\ excused' \subseteq Jobs /\ known' \subseteq Jobs
  BY <1>1, <1>2, <1>3, <1>4, <1>6 DEF Tidied, Cleared, Types
<1>8. \A i \in Jobs \ excused' : Claimed(i) /\ Marked(mem, i) => Marked(jobs, i)
  BY <1>2, <1>3, <1>4, <1>5, <1>6, <1>7 DEF Tidied, Cleared, Marked
<1>9. \A i \in DOMAIN jobs : jobs[i].running # 0 => i \in DOMAIN mem /\ mem[i].running # 0
  BY <1>4, <1>5, <1>6, <1>7 DEF Tidied
<1>10. /\ disk' = jobs
       /\ svc' = [svc EXCEPT ![s].mem = jobs, ![s].fresh = svc[s].fresh, ![s].timer = Armed(jobs)]
  BY <1>1, <1>2 DEF PersistAndArm, Types
<1>11. Armed(jobs) \in BOOLEAN
  BY DEF Armed
<1>12. /\ edits' \in 0 .. MaxEdits /\ reloads' \in 0 .. MaxReloads /\ errors' \in 0 .. MaxErrors
  BY <1>1, <1>2 DEF Types
<1> QED
  BY <1>1, <1>2, <1>6, <1>7, <1>8, <1>9, <1>10, <1>11, <1>12, WriteKeeps DEF mem

LEMMA UpdateStep ==
  ASSUME IInv, NEW s \in Services, NEW j \in Jobs, NEW enabled \in BOOLEAN, Update(s, j, enabled)
  PROVE  IInv'
<1> DEFINE mem == svc[s].mem
           job == [mem[j] EXCEPT !.enabled = enabled, !.running = IF enabled THEN @ ELSE 0]
           new == Rescheduled(j, job, now)
           jobs == [mem EXCEPT ![j] = new]
<1>1. Types /\ mem \in Stores /\ now \in 1 .. MaxTime /\ svc[s].fresh \in BOOLEAN /\ Timed(mem)
  BY DEF IInv, Types, ServiceState, AllTimed
<1>2. /\ Serving(s) /\ j \in DOMAIN mem /\ edits < MaxEdits /\ edits' = edits + 1
      /\ PersistAndArm(s, jobs, TRUE) /\ excused' = excused \cup Cleared(mem, jobs)
      /\ Overlap(s # Cur) /\ UNCHANGED << now, batch, manual, known, reloads, errors >>
  BY DEF Update
<1>3. DOMAIN mem \subseteq known /\ known \subseteq Jobs
  BY <1>1 DEF IInv, IdsAreKnown, Types
<1>4. job \in Job /\ (job.running = mem[j].running \/ job.running = 0)
  <2>1. mem[j] \in Job /\ 0 \in 0 .. MaxTime
    BY <1>1, <1>2, StoreElim, Bounds
  <2> HIDE DEF mem
  <2> QED
    BY <2>1 DEF Job
<1>5. /\ new \in Job /\ (new.running = mem[j].running \/ new.running = 0)
      /\ new.enabled /\ new.next = 0 =>
           j \in OneShots /\ new.status = "ok" /\ new.last # 0 /\ OneShotAt <= new.last
  <2> HIDE DEF job, mem
  <2> QED
    BY <1>1, <1>4, RescheduledJob, NextRunTimes
<1> HIDE DEF new, job
<1>6. /\ DOMAIN jobs = DOMAIN mem /\ jobs[j] = new /\ \A i \in DOMAIN mem : i # j => jobs[i] = mem[i]
  BY <1>1, <1>2, StoreElim
<1>7. jobs \in Stores
  <2>1. jobs \in [DOMAIN mem -> Job]
    BY <1>1, <1>2, <1>5, StoreElim
  <2>2. DOMAIN mem \in SUBSET Jobs
    BY <1>3
  <2> QED
    BY <2>1, <2>2, StoreIntro
<1> HIDE DEF mem, jobs
<1>8. Timed(jobs)
  BY <1>1, <1>5, <1>6 DEF Timed
<1>9. DOMAIN jobs \subseteq known' /\ excused' \subseteq Jobs /\ known' \subseteq Jobs
  BY <1>1, <1>2, <1>3, <1>6 DEF Cleared, Types
<1>10. \A i \in Jobs \ excused' : Claimed(i) /\ Marked(mem, i) => Marked(jobs, i)
  BY <1>2, <1>6 DEF Cleared, Marked
<1>11. \A i \in DOMAIN jobs : jobs[i].running # 0 => i \in DOMAIN mem /\ mem[i].running # 0
  BY <1>5, <1>6
<1>12. /\ disk' = jobs
       /\ svc' = [svc EXCEPT ![s].mem = jobs, ![s].fresh = svc[s].fresh, ![s].timer = Armed(jobs)]
  BY <1>1, <1>2 DEF PersistAndArm, Types
<1>13. Armed(jobs) \in BOOLEAN
  BY DEF Armed
<1>14. /\ edits' \in 0 .. MaxEdits /\ reloads' \in 0 .. MaxReloads /\ errors' \in 0 .. MaxErrors
  BY <1>1, <1>2, Bounds DEF Types
<1> QED
  BY <1>1, <1>2, <1>7, <1>8, <1>9, <1>10, <1>11, <1>12, <1>13, <1>14, WriteKeeps DEF mem

LEMMA RemoveStep ==
  ASSUME IInv, NEW s \in Services, NEW j \in Jobs, Remove(s, j)
  PROVE  IInv'
<1> DEFINE mem == svc[s].mem
           jobs == [i \in DOMAIN mem \ {j} |-> mem[i]]
<1>1. Types /\ mem \in Stores /\ svc[s].fresh \in BOOLEAN /\ Timed(mem)
  BY DEF IInv, Types, ServiceState, AllTimed
<1>2. /\ Serving(s) /\ edits < MaxEdits /\ edits' = edits + 1
      /\ PersistAndArm(s, jobs, TRUE) /\ Overlap(s # Cur)
      /\ UNCHANGED << now, batch, manual, known, reloads, errors, excused >>
  BY DEF Remove
<1>3. DOMAIN mem \subseteq known /\ known \subseteq Jobs
  BY <1>1 DEF IInv, IdsAreKnown, Types
<1>4. DOMAIN jobs = DOMAIN mem \ {j} /\ \A i \in DOMAIN jobs : jobs[i] = mem[i]
  OBVIOUS
<1>5. jobs \in Stores
  <2>1. jobs \in [DOMAIN mem \ {j} -> Job]
    BY <1>1, StoreElim
  <2>2. DOMAIN mem \ {j} \in SUBSET Jobs
    BY <1>3
  <2> QED
    BY <2>1, <2>2, StoreIntro
<1> HIDE DEF mem, jobs
<1>6. Timed(jobs)
  BY <1>1, <1>4 DEF Timed
<1>7. DOMAIN jobs \subseteq known' /\ excused' \subseteq Jobs /\ known' \subseteq Jobs
  BY <1>1, <1>2, <1>3, <1>4 DEF Types
<1>8. \A i \in Jobs \ excused' : Claimed(i) /\ Marked(mem, i) => Marked(jobs, i)
  BY <1>4 DEF Marked
<1>9. \A i \in DOMAIN jobs : jobs[i].running # 0 => i \in DOMAIN mem /\ mem[i].running # 0
  BY <1>4
<1>10. /\ disk' = jobs
       /\ svc' = [svc EXCEPT ![s].mem = jobs, ![s].fresh = svc[s].fresh, ![s].timer = Armed(jobs)]
  BY <1>1, <1>2 DEF PersistAndArm, Types
<1>11. Armed(jobs) \in BOOLEAN
  BY DEF Armed
<1>12. /\ edits' \in 0 .. MaxEdits /\ reloads' \in 0 .. MaxReloads /\ errors' \in 0 .. MaxErrors
  BY <1>1, <1>2, Bounds DEF Types
<1> QED
  BY <1>1, <1>2, <1>5, <1>6, <1>7, <1>8, <1>9, <1>10, <1>11, <1>12, WriteKeeps DEF mem

LEMMA ReadStep ==
  ASSUME IInv, NEW s \in Services, Read(s)
  PROVE  IInv'
<1> DEFINE mem == svc[s].mem
           jobs == Maintained(mem, now, FALSE)
<1>1. /\ Types /\ mem \in Stores /\ now \in 1 .. MaxTime /\ Timed(mem)
      /\ svc[s].fresh \in BOOLEAN /\ svc[s].timer \in BOOLEAN
  BY DEF IInv, Types, ServiceState, AllTimed
<1>2. /\ Serving(s) /\ Persist(s, jobs, TRUE) /\ excused' = excused \cup Cleared(mem, jobs)
      /\ Overlap(s # Cur) /\ UNCHANGED << now, batch, manual, counters >>
  BY DEF Read
<1>3. DOMAIN mem \subseteq known /\ known \subseteq Jobs /\ s \in Started
  BY <1>1, <1>2 DEF IInv, IdsAreKnown, Types, Serving, Alive
<1>4. jobs \in Stores /\ Tidied(mem, jobs) /\ Timed(jobs)
  BY <1>1, MaintainedStore
<1>5. s = Cur /\ svc[s].phase = "on" /\ Armed(jobs) => svc[s].timer
  <2>1. Armed(jobs) => Armed(mem)
    BY <1>1, MaintainedArmed
  <2> QED
    BY <1>3, <2>1 DEF IInv, TimerIsSet
<1> HIDE DEF mem, jobs
<1>6. DOMAIN jobs \subseteq known' /\ excused' \subseteq Jobs /\ known' = known
  BY <1>1, <1>2, <1>3, <1>4 DEF Tidied, Cleared, Types, counters
<1>7. \A i \in Jobs \ excused' : Claimed(i) /\ Marked(mem, i) => Marked(jobs, i)
  BY <1>2, <1>4, TidyKeeps
<1>8. \A i \in DOMAIN jobs : jobs[i].running # 0 => i \in DOMAIN mem /\ mem[i].running # 0
  BY <1>4 DEF Tidied
<1>9. /\ disk' = jobs
      /\ svc' = [svc EXCEPT ![s].mem = jobs, ![s].fresh = svc[s].fresh, ![s].timer = svc[s].timer]
  <2>1. svc' = [svc EXCEPT ![s].mem = jobs, ![s].fresh = svc[s].fresh]
    BY <1>1, <1>2 DEF Persist, Types
  <2>2. svc[s] \in ServiceState
    BY <1>1 DEF Types
  <2>3. [svc[s] EXCEPT !.mem = jobs, !.fresh = svc[s].fresh]
          = [svc[s] EXCEPT !.mem = jobs, !.fresh = svc[s].fresh, !.timer = svc[s].timer]
    BY <2>2 DEF ServiceState
  <2> QED
    BY <1>2, <2>1, <2>3 DEF Persist
<1>10. /\ edits' \in 0 .. MaxEdits /\ reloads' \in 0 .. MaxReloads /\ errors' \in 0 .. MaxErrors
  BY <1>1, <1>2 DEF Types, counters
<1> QED
  BY <1>1, <1>2, <1>3, <1>4, <1>5, <1>6, <1>7, <1>8, <1>9, <1>10, WriteKeeps DEF mem

\* A step that leaves the stores and the services alone, and claims and settles no run.
LEMMA StillKeeps ==
  ASSUME IInv, Types', UNCHANGED << disk, svc, known, excused, overlaps >>,
         \A r \in Services, b \in Batches, j \in Jobs :
           (batch'[r][b][j].stage = "none") <=> (batch[r][b][j].stage = "none"),
         \A m \in Manuals : (manual'[m].stage = "reserved") <=> (manual[m].stage = "reserved"),
         \A m \in AtWork' : /\ m \in AtWork /\ manual'[m].svc = manual[m].svc
                            /\ manual'[m].job = manual[m].job /\ manual'[m].at = manual[m].at
  PROVE  IInv'
<1>1. Started' = Started /\ Alive' = Alive /\ Cur' = Cur
  BY DEF Started, Alive, Cur
<1>2. ServicesInOrder' /\ CurIsAlive'
  BY <1>1 DEF IInv, ServicesInOrder, CurIsAlive
<1>3. Owners'
  BY <1>1 DEF IInv, Owners, Batches
<1>4. \A j \in Jobs : (Claimed(j)' <=> Claimed(j)) /\ (OneClaim(j)' <=> OneClaim(j))
  <2>1. \A m \in Manuals : manual[m].stage = "reserved" => manual'[m].job = manual[m].job
    BY DEF AtWork
  <2> QED
    BY <2>1, SameClaims
<1>5. IdsAreKnown'
  BY <1>4 DEF IInv, IdsAreKnown
<1>6. AllTimed'
  BY DEF IInv, AllTimed, Timed
<1>7. TimerIsSet'
  BY <1>1 DEF IInv, TimerIsSet, Armed
<1>8. WithoutOverlaps'
  <2> SUFFICES ASSUME overlaps = 0, Started # {}
               PROVE  OldOnesAreQuiet' /\ \A j \in Jobs : ClaimIsMarked(j)' /\ MarkIsClaimed(j)'
    BY <1>1 DEF WithoutOverlaps
  <2>1. OldOnesAreQuiet /\ \A j \in Jobs : ClaimIsMarked(j) /\ MarkIsClaimed(j)
    BY DEF IInv, WithoutOverlaps
  <2>2. OldOnesAreQuiet'
    BY <1>1, <2>1 DEF OldOnesAreQuiet
  <2>3. \A j \in Jobs : ClaimIsMarked(j)' /\ MarkIsClaimed(j)'
    BY <1>1, <1>4, <2>1 DEF ClaimIsMarked, MarkIsClaimed, Marked
  <2> QED
    BY <2>2, <2>3
<1> QED
  BY <1>2, <1>3, <1>5, <1>6, <1>7, <1>8 DEF IInv

LEMMA TickStep ==
  ASSUME IInv, Tick
  PROVE  IInv'
<1>1. /\ now' \in 1 .. MaxTime
      /\ UNCHANGED << disk, svc, batch, manual, known, edits, reloads, errors, excused, overlaps >>
  BY Bounds DEF Tick, IInv, Types, store, counters, history
<1>2. Types'
  BY <1>1 DEF IInv, Types
<1> QED
  BY <1>1, <1>2, StillKeeps DEF AtWork

LEMMA EndRunStep ==
  ASSUME IInv, NEW s \in Services, NEW b \in Batches, NEW j \in Jobs, NEW outcome \in Outcomes,
         EndRun(s, b, j, outcome)
  PROVE  IInv'
<1> DEFINE run == [batch[s][b][j] EXCEPT !.stage = "ended", !.outcome = outcome]
<1>1. Types
  BY DEF IInv
<1>2. /\ batch[s][b][j].stage = "running" /\ batch' = [batch EXCEPT ![s][b][j] = run]
      /\ UNCHANGED << now, disk, svc, manual, known, edits, reloads, excused, overlaps >>
  BY DEF EndRun, store, history
<1>3. run \in Run /\ run.stage = "ended"
  <2>1. batch[s][b][j] \in Run
    BY <1>1 DEF Types
  <2> QED
    BY <2>1 DEF Run, Stages
<1>4. errors' \in 0 .. MaxErrors
  BY <1>1, Bounds DEF EndRun, Types
<1> HIDE DEF run
<1>5. /\ batch' \in [Services -> [Batches -> [Jobs -> Run]]]
      /\ \A r \in Services, c \in Batches, i \in Jobs :
           batch'[r][c][i] = IF r = s /\ c = b /\ i = j THEN run ELSE batch[r][c][i]
  BY <1>1, <1>2, <1>3 DEF Types
<1>6. Types'
  BY <1>1, <1>2, <1>4, <1>5 DEF Types
<1> QED
  BY <1>2, <1>3, <1>5, <1>6, StillKeeps DEF AtWork

LEMMA EndManualStep ==
  ASSUME IInv, NEW m \in Manuals, NEW outcome \in Outcomes, EndManual(m, outcome)
  PROVE  IInv'
<1> DEFINE run == [manual[m].run EXCEPT !.stage = "ended", !.outcome = outcome]
           x == [manual[m] EXCEPT !.run = run]
<1>1. Types
  BY DEF IInv
<1>2. /\ manual' = [manual EXCEPT ![m] = x]
      /\ UNCHANGED << now, disk, svc, batch, known, edits, reloads, excused, overlaps >>
  BY DEF EndManual, store, history
<1>3. run \in Run
  <2>1. manual[m].run \in Run
    BY <1>1 DEF Types, ManualState
  <2> QED
    BY <2>1 DEF Run, Stages
<1>4. x \in ManualState /\ x.stage = manual[m].stage /\ x.svc = manual[m].svc /\ x.job = manual[m].job
      /\ x.at = manual[m].at
  <2> HIDE DEF run
  <2> QED
    BY <1>1, <1>3 DEF Types, ManualState
<1>5. errors' \in 0 .. MaxErrors
  BY <1>1, Bounds DEF EndManual, Types
<1> HIDE DEF x, run
<1>6. /\ manual' \in [Manuals -> ManualState]
      /\ \A k \in Manuals : manual'[k] = IF k = m THEN x ELSE manual[k]
  BY <1>1, <1>2, <1>4 DEF Types
<1>7. Types'
  BY <1>1, <1>2, <1>5, <1>6 DEF Types
<1> QED
  BY <1>2, <1>4, <1>6, <1>7, StillKeeps DEF AtWork

LEMMA BeginRunStep ==
  ASSUME IInv, NEW s \in Services, NEW b \in Batches, NEW j \in Jobs, BeginRun(s, b, j)
  PROVE  IInv'
<1> DEFINE run == [batch[s][b][j] EXCEPT !.stage = "running", !.start = now]
           mem == svc[s].mem
           jobs == [i \in DOMAIN mem |-> IF i = j /\ b = "tick" /\ svc[s].fresh
                                         THEN [mem[i] EXCEPT !.running = now] ELSE mem[i]]
           x == [svc[s] EXCEPT !.mem = jobs]
<1>1. Types /\ mem \in Stores /\ Timed(mem) /\ now \in 0 .. MaxTime /\ now # 0
  BY DEF IInv, Types, AllTimed, ServiceState
<1>2. /\ batch[s][b][j].stage = "claimed" /\ batch' = [batch EXCEPT ![s][b][j] = run]
      /\ svc' = [svc EXCEPT ![s] = x]
      /\ UNCHANGED << now, disk, manual, known, edits, reloads, errors, excused, overlaps >>
  <2>1. /\ batch[s][b][j].stage = "claimed"
        /\ UNCHANGED << now, disk, manual, known, edits, reloads, errors, excused, overlaps >>
    BY DEF BeginRun, counters, history
  <2>2. svc' = [svc EXCEPT ![s] = x]
    BY DEF BeginRun
  <2>3. batch' = [batch EXCEPT ![s][b][j] = run]
    BY DEF BeginRun
  <2> QED
    BY <2>1, <2>2, <2>3
<1>3. run \in Run /\ run.stage = "running"
  <2>1. batch[s][b][j] \in Run
    BY <1>1 DEF Types
  <2> QED
    BY <1>1, <2>1 DEF Run, Stages
<1>4. /\ \A i \in DOMAIN mem : jobs[i] = mem[i] \/ (i = j /\ jobs[i] = [mem[i] EXCEPT !.running = now])
      /\ jobs = [i \in DOMAIN mem |-> jobs[i]]
  OBVIOUS
<1> HIDE DEF run, jobs, mem
<1>5. /\ jobs \in Stores /\ DOMAIN jobs = DOMAIN mem /\ Timed(jobs) /\ (Armed(jobs) <=> Armed(mem))
  BY <1>1, <1>4, RemarkedStore
<1>6. \A i \in DOMAIN mem : jobs[i].running = mem[i].running \/ (i = j /\ jobs[i].running = now)
  BY <1>1, <1>4, StoreElim DEF Job
<1>7. /\ x \in ServiceState /\ x.mem = jobs
      /\ x.phase = svc[s].phase /\ x.timer = svc[s].timer /\ x.ticking = svc[s].ticking
  BY <1>1, <1>5 DEF Types, ServiceState
<1> HIDE DEF x
<1>8. svc' \in [Services -> ServiceState] /\ svc'[s] = x /\ \A r \in Services \ {s} : svc'[r] = svc[r]
  BY <1>1, <1>2, <1>7, ServiceChanges
<1>9. /\ batch' \in [Services -> [Batches -> [Jobs -> Run]]]
      /\ \A r \in Services, c \in Batches, i \in Jobs :
           batch'[r][c][i] = IF r = s /\ c = b /\ i = j THEN run ELSE batch[r][c][i]
  BY <1>1, <1>2, <1>3 DEF Types
<1>10. Types'
  BY <1>1, <1>2, <1>8, <1>9 DEF Types
<1>11. svc[s].phase = "catchup" \/ svc[s].ticking
  <2>1. b = "startup" \/ b = "tick"
    BY DEF Batches
  <2> QED
    BY <1>2, <2>1 DEF IInv, Owners
<1>12. Acts(s)
  BY <1>7, <1>8, <1>11 DEF Acts, IInv, Owners, Alive, Started
<1>13. \A r \in Services, c \in Batches, i \in Jobs :
         (batch'[r][c][i].stage = "none") <=> (batch[r][c][i].stage = "none")
  BY <1>2, <1>3, <1>9
<1>14. Owners'
  BY <1>2, <1>7, <1>8, <1>12, <1>13, OwnersKept DEF AtWork
<1>15. /\ \A i \in Jobs : (Claimed(i)' <=> Claimed(i)) /\ (OneClaim(i)' <=> OneClaim(i))
       /\ Claimed(j)
  <2>1. << s, b >> \in BatchRuns(j)
    BY <1>2 DEF BatchRuns
  <2>2. Claimed(j)
    BY <2>1 DEF Claimed
  <2> QED
    BY <1>2, <1>13, <2>2, SameClaims
<1>16. DOMAIN disk' \subseteq known' /\ DOMAIN svc'[s].mem \subseteq known' /\ known' = known
  BY <1>2, <1>5, <1>7, <1>8 DEF IInv, IdsAreKnown, mem
<1>17. Timed(disk') /\ Timed(svc'[s].mem)
  BY <1>2, <1>5, <1>7, <1>8 DEF IInv, AllTimed
<1>18. s = Cur /\ svc'[s].phase = "on" /\ Armed(svc'[s].mem) => svc'[s].timer
  BY <1>5, <1>7, <1>8, <1>12 DEF IInv, TimerIsSet, mem, Acts, Alive
<1>19. ASSUME overlaps = 0
       PROVE  /\ s = Cur /\ (\A m \in AtWork' : manual'[m].svc = s)
              /\ \A i \in Jobs : ClaimIsMarked(i)' /\ MarkIsClaimed(i)'
  <2>1. s = Cur /\ s \in Alive
    BY <1>11, <1>12, <1>19, OnlyCurActs DEF Acts
  <2>2. \A i \in Jobs : MarkIsClaimed(i)
    BY <1>19, <2>1 DEF IInv, WithoutOverlaps, Alive
  <2>3. svc[s].phase # "boot" =>
          \A i \in Jobs :
            /\ i \in DOMAIN mem <=> i \in DOMAIN disk
            /\ i \in DOMAIN disk /\ (disk[i].running # 0 \/ mem[i].running # 0) => Claimed(i)
    BY <2>1, <2>2 DEF MarkIsClaimed, mem
  <2>4. \A i \in Jobs : svc'[s].phase # "boot" =>
          /\ i \in DOMAIN svc'[s].mem <=> i \in DOMAIN disk'
          /\ i \in DOMAIN disk' /\ (disk'[i].running # 0 \/ svc'[s].mem[i].running # 0) => Claimed(i)
    BY <1>2, <1>5, <1>6, <1>7, <1>8, <1>15, <2>3
  <2>5. \A i \in Jobs : Marked(mem, i) => Marked(jobs, i)
    BY <1>1, <1>5, <1>6 DEF Marked
  <2>6. \A i \in Jobs \ excused' : Claimed(i) /\ Marked(disk, i) /\ Marked(svc[s].mem, i) =>
          Marked(disk', i) /\ Marked(svc'[s].mem, i)
    BY <1>2, <1>7, <1>8, <2>5 DEF mem
  <2> QED
    BY <1>2, <1>12, <1>15, <1>19, <2>1, <2>4, <2>6, SameClaimsSound DEF AtWork
<1> QED
  BY <1>2, <1>10, <1>12, <1>14, <1>15, <1>16, <1>17, <1>18, <1>19, ActsKeeps

LEMMA NoRuns ==
  /\ NoRun \in Run /\ NoRun.stage = "none" /\ Idle \in [Jobs -> Run]
  /\ NoManual \in ManualState /\ [NoManual EXCEPT !.stage = "over"] \in ManualState
  /\ [NoManual EXCEPT !.stage = "over"].stage = "over"
<1>1. NoRun \in Run /\ NoRun.stage = "none"
  BY Bounds DEF NoRun, Run, Stages, Outcomes
<1>2. Idle \in [Jobs -> Run]
  BY <1>1 DEF Idle
<1>3. NoManual \in ManualState
  BY <1>1, Bounds DEF NoManual, ManualState
<1>4. /\ [NoManual EXCEPT !.stage = "over"] \in ManualState
      /\ [NoManual EXCEPT !.stage = "over"].stage = "over"
  BY <1>3 DEF ManualState
<1> QED
  BY <1>1, <1>2, <1>3, <1>4

\* A service repairs its memory in a preflight, which may note a manual run.
LEMMA PreflightKeeps ==
  ASSUME IInv, NEW s \in Services, Serving(s), Preflight(s), Overlap(s # Cur),
         UNCHANGED << now, disk, batch, counters >>, manual' \in [Manuals -> ManualState],
         \A k \in Manuals : /\ (manual'[k].stage = "reserved") <=> (manual[k].stage = "reserved")
                            /\ manual[k].stage = "reserved" => manual'[k].job = manual[k].job,
         \A k \in AtWork' :
           \/ k \in AtWork /\ manual'[k] = manual[k]
           \/ manual'[k].svc = s /\ manual'[k].job \in Jobs /\ manual'[k].at # 0
  PROVE  IInv'
<1> DEFINE mem == svc[s].mem
           jobs == Maintained(mem, now, FALSE)
           x == [svc[s] EXCEPT !.mem = jobs]
<1>1. Types /\ mem \in Stores /\ Timed(mem) /\ now \in 1 .. MaxTime /\ svc[s] \in ServiceState
  BY DEF IInv, Types, AllTimed, ServiceState
<1>2. /\ svc' = [svc EXCEPT ![s] = x] /\ excused' = excused \cup Cleared(mem, jobs)
      /\ UNCHANGED << now, disk, batch, known, edits, reloads, errors >>
  BY DEF Preflight, counters
<1>3. /\ s \in Alive /\ svc[s].phase # "boot" /\ overlaps' \in 0 .. MaxOverlaps
      /\ overlaps' = 0 => s = Cur /\ overlaps = 0
  BY ServingIsCur
<1>4. jobs \in Stores /\ Tidied(mem, jobs) /\ Timed(jobs)
  BY <1>1, MaintainedStore
<1>5. Armed(jobs) => Armed(mem)
  BY <1>1, MaintainedArmed
<1> HIDE DEF mem, jobs
<1>6. /\ x \in ServiceState /\ x.mem = jobs
      /\ x.phase = svc[s].phase /\ x.timer = svc[s].timer /\ x.ticking = svc[s].ticking
  BY <1>1, <1>4 DEF ServiceState
<1> HIDE DEF x
<1>7. svc' \in [Services -> ServiceState] /\ svc'[s] = x /\ \A r \in Services \ {s} : svc'[r] = svc[r]
  BY <1>1, <1>2, <1>6, ServiceChanges
<1>8. /\ DOMAIN jobs = DOMAIN mem /\ DOMAIN mem \subseteq known /\ known \subseteq Jobs
      /\ excused' \subseteq Jobs
  BY <1>1, <1>2, <1>4 DEF IInv, IdsAreKnown, Types, Tidied, Cleared, mem
<1>9. Types'
  BY <1>1, <1>2, <1>3, <1>7, <1>8 DEF Types
<1>10. Acts(s)
  BY <1>3, <1>6, <1>7 DEF Acts
<1>11. Owners'
  BY <1>2, <1>3, <1>6, <1>7, <1>10, OwnersKept
<1>12. \A i \in Jobs : (Claimed(i)' <=> Claimed(i)) /\ (OneClaim(i)' <=> OneClaim(i))
  BY <1>2, SameClaims
<1>13. DOMAIN disk' \subseteq known' /\ DOMAIN svc'[s].mem \subseteq known'
  BY <1>2, <1>6, <1>7, <1>8 DEF IInv, IdsAreKnown
<1>14. Timed(disk') /\ Timed(svc'[s].mem)
  BY <1>2, <1>4, <1>6, <1>7 DEF IInv, AllTimed
<1>15. s = Cur /\ svc'[s].phase = "on" /\ Armed(svc'[s].mem) => svc'[s].timer
  BY <1>3, <1>5, <1>6, <1>7 DEF IInv, TimerIsSet, mem, Alive
<1>16. ASSUME overlaps' = 0
       PROVE  /\ s = Cur /\ (\A k \in AtWork' : manual'[k].svc = s)
              /\ \A i \in Jobs : ClaimIsMarked(i)' /\ MarkIsClaimed(i)'
  <2>1. s = Cur /\ overlaps = 0
    BY <1>3, <1>16
  <2>2. \A i \in Jobs : MarkIsClaimed(i)
    BY <1>3, <2>1 DEF IInv, WithoutOverlaps, Alive
  <2>3. \A i \in Jobs : svc'[s].phase # "boot" =>
          /\ i \in DOMAIN svc'[s].mem <=> i \in DOMAIN disk'
          /\ i \in DOMAIN disk' /\ (disk'[i].running # 0 \/ svc'[s].mem[i].running # 0) => Claimed(i)
    BY <1>2, <1>3, <1>4, <1>6, <1>7, <1>8, <2>1, <2>2 DEF MarkIsClaimed, Tidied, mem
  <2>4. \A i \in Jobs \ excused' : Claimed(i) /\ Marked(mem, i) => Marked(jobs, i)
    BY <1>2, <1>4, TidyKeeps
  <2>5. \A i \in Jobs \ excused' : Claimed(i) /\ Marked(disk, i) /\ Marked(svc[s].mem, i) =>
          Marked(disk', i) /\ Marked(svc'[s].mem, i)
    BY <1>2, <1>6, <1>7, <2>4 DEF mem
  <2>6. \A k \in AtWork' : manual'[k].svc = s \/ (k \in AtWork /\ manual'[k].svc = manual[k].svc)
    OBVIOUS
  <2>7. excused \subseteq excused'
    BY <1>2
  <2> QED
    BY <1>10, <1>12, <2>1, <2>3, <2>5, <2>6, <2>7, SameClaimsSound
<1> QED
  BY <1>2, <1>3, <1>9, <1>10, <1>11, <1>12, <1>13, <1>14, <1>15, <1>16, ActsKeeps

LEMMA LookStep ==
  ASSUME IInv, NEW s \in Services, Look(s)
  PROVE  IInv'
<1>1. /\ Serving(s) /\ Preflight(s) /\ Overlap(s # Cur)
      /\ UNCHANGED << now, disk, batch, manual, counters >>
  BY DEF Look
<1>2. manual \in [Manuals -> ManualState]
  BY DEF IInv, Types
<1> QED
  BY <1>1, <1>2, PreflightKeeps DEF AtWork

LEMMA InspectStep ==
  ASSUME IInv, NEW m \in Manuals, NEW s \in Services, NEW j \in Jobs, NEW forced \in BOOLEAN,
         Inspect(m, s, j, forced)
  PROVE  IInv'
<1> DEFINE y == [NoManual EXCEPT !.svc = s, !.job = j, !.forced = forced, !.stage = "inspected", !.at = now]
<1>1. /\ Serving(s) /\ Preflight(s) /\ Overlap(s # Cur) /\ UNCHANGED << now, disk, batch, counters >>
      /\ manual[m].stage = "new" /\ manual' = [manual EXCEPT ![m] = y]
  BY DEF Inspect
<1>2. manual \in [Manuals -> ManualState] /\ now \in 1 .. MaxTime
  BY DEF IInv, Types
<1>3. y \in ManualState /\ y.svc = s /\ y.job = j /\ y.at # 0 /\ y.stage = "inspected"
  <2>1. NoManual \in ManualState /\ now \in 0 .. MaxTime /\ now # 0
    BY <1>2, NoRuns
  <2> QED
    BY <2>1 DEF ManualState
<1> HIDE DEF y
<1>4. /\ manual' \in [Manuals -> ManualState]
      /\ \A k \in Manuals : manual'[k] = IF k = m THEN y ELSE manual[k]
  BY <1>1, <1>2, <1>3
<1>5. /\ \A k \in Manuals : /\ (manual'[k].stage = "reserved") <=> (manual[k].stage = "reserved")
                            /\ manual[k].stage = "reserved" => manual'[k].job = manual[k].job
      /\ \A k \in AtWork' : \/ k \in AtWork /\ manual'[k] = manual[k]
                            \/ manual'[k].svc = s /\ manual'[k].job \in Jobs /\ manual'[k].at # 0
  BY <1>1, <1>3, <1>4 DEF AtWork
<1> QED
  BY <1>1, <1>4, <1>5, PreflightKeeps

\* A manual run that claims a job which nobody has claimed has it alone.
LEMMA ReserveClaims ==
  ASSUME NEW m \in Manuals, NEW j \in Jobs, UNCHANGED batch,
         manual[m].stage # "reserved", manual'[m].stage = "reserved", manual'[m].job = j,
         \A k \in Manuals \ {m} : manual'[k] = manual[k]
  PROVE  /\ Claimed(j)' /\ (~Claimed(j) => OneClaim(j)')
         /\ \A i \in Jobs \ {j} : (Claimed(i)' <=> Claimed(i)) /\ (OneClaim(i)' <=> OneClaim(i))
<1>1. \A i \in Jobs : BatchRuns(i)' = BatchRuns(i)
  BY DEF BatchRuns
<1>2. ManualRuns(j)' = ManualRuns(j) \cup {m}
  BY DEF ManualRuns
<1>3. \A i \in Jobs \ {j} : ManualRuns(i)' = ManualRuns(i)
  BY DEF ManualRuns
<1>4. Claimed(j)' /\ (~Claimed(j) => OneClaim(j)')
  <2>1. m \in ManualRuns(j)'
    BY <1>2
  <2>2. ~Claimed(j) => BatchRuns(j)' = {} /\ ManualRuns(j)' = {m}
    BY <1>1, <1>2 DEF Claimed
  <2> QED
    BY <2>1, <2>2 DEF Claimed, OneClaim
<1>5. \A i \in Jobs \ {j} : (Claimed(i)' <=> Claimed(i)) /\ (OneClaim(i)' <=> OneClaim(i))
  BY <1>1, <1>3 DEF Claimed, OneClaim
<1> QED
  BY <1>4, <1>5

LEMMA ReserveStep ==
  ASSUME IInv, NEW m \in Manuals, Reserve(m)
  PROVE  IInv'
<1>0. /\ Types /\ manual[m] \in ManualState /\ manual[m].stage = "inspected"
      /\ manual[m].svc \in Services /\ manual[m].job \in Jobs
  <2>1. manual[m].stage = "inspected" /\ m \in AtWork
    BY DEF Reserve, AtWork
  <2> QED
    BY <2>1 DEF IInv, Types, Owners, Alive, Started
<1> PICK s \in Services, j \in Jobs, at \in 0 .. MaxTime :
           s = manual[m].svc /\ j = manual[m].job /\ at = manual[m].at
  BY <1>0 DEF ManualState
<1> DEFINE mem == svc[s].mem
           jobs == [mem EXCEPT ![j].running = at]
           free == j \in DOMAIN mem /\ mem[j].running = 0
           run == [NoRun EXCEPT !.stage = "running", !.start = at]
           y == [manual[m] EXCEPT !.stage = "reserved", !.run = run]
           over == [NoManual EXCEPT !.stage = "over"]
           x == [svc[s] EXCEPT !.mem = jobs]
<1>1. Types /\ manual[m] \in ManualState /\ manual \in [Manuals -> ManualState]
  BY DEF IInv, Types
<1>2. /\ manual[m].stage = "inspected" /\ UNCHANGED << now, batch, counters, history >>
      /\ free => Persist(s, jobs, TRUE) /\ manual' = [manual EXCEPT ![m] = y]
      /\ ~free => UNCHANGED store /\ manual' = [manual EXCEPT ![m] = over]
  BY DEF Reserve
<1>3. m \in AtWork /\ s \in Alive /\ svc[s].phase # "boot" /\ at # 0
  BY <1>2 DEF IInv, Owners, AtWork, Alive, Started
<1>4. UNCHANGED << now, batch, known, edits, reloads, errors, excused, overlaps >>
  BY <1>2 DEF counters, history
<1>5. CASE ~free
  <2>1. UNCHANGED << disk, svc >> /\ manual' = [manual EXCEPT ![m] = over]
    BY <1>2, <1>5 DEF store
  <2>2. over \in ManualState /\ over.stage = "over"
    BY NoRuns
  <2> HIDE DEF over, free, mem, jobs, y
  <2>3. /\ manual' \in [Manuals -> ManualState]
        /\ \A k \in Manuals : manual'[k] = IF k = m THEN over ELSE manual[k]
    BY <1>1, <2>1, <2>2
  <2>4. Types'
    BY <1>1, <1>4, <2>1, <2>3 DEF Types
  <2>5. \A k \in Manuals : (manual'[k].stage = "reserved") <=> (manual[k].stage = "reserved")
    BY <1>2, <2>2, <2>3
  <2>6. \A k \in AtWork' : k \in AtWork /\ manual'[k] = manual[k]
    BY <2>2, <2>3 DEF AtWork
  <2> QED
    BY <1>4, <2>1, <2>4, <2>5, <2>6, StillKeeps
<1>6. CASE free
  <2>1. disk' = jobs /\ manual' = [manual EXCEPT ![m] = y]
    BY <1>2, <1>6 DEF Persist
  <2>2. /\ mem \in Stores /\ Timed(mem) /\ svc[s] \in ServiceState /\ svc \in [Services -> ServiceState]
    BY <1>1, <1>3 DEF IInv, AllTimed, Types, ServiceState, ManualState
  <2>3. j \in DOMAIN mem /\ mem[j].running = 0
    BY <1>6
  <2>4. run \in Run
    <3>1. NoRun \in Run /\ at \in 0 .. MaxTime
      BY <2>2, NoRuns
    <3> QED
      BY <3>1 DEF Run, Stages
  <2>5. y \in ManualState /\ y.stage = "reserved" /\ y.svc = s /\ y.job = j /\ y.at = at
    <3> HIDE DEF run
    <3> QED
      BY <1>1, <2>4 DEF ManualState
  <2>6. svc' = [svc EXCEPT ![s] = x]
    <3>1. svc' = [svc EXCEPT ![s].mem = jobs, ![s].fresh = svc[s].fresh]
      BY <1>2, <1>6, <2>2 DEF Persist, ServiceState
    <3>2. [svc[s] EXCEPT !.mem = jobs, !.fresh = svc[s].fresh] = x
      BY <2>2 DEF ServiceState
    <3>3. svc' = [svc EXCEPT ![s] = [svc[s] EXCEPT !.mem = jobs, !.fresh = svc[s].fresh]]
      BY <3>1
    <3> QED
      BY <3>2, <3>3
  <2> HIDE DEF y, run, free, over, mem
  <2>7. /\ DOMAIN jobs = DOMAIN mem /\ jobs = [i \in DOMAIN mem |-> jobs[i]]
        /\ \A i \in DOMAIN mem : jobs[i] = IF i = j THEN [mem[j] EXCEPT !.running = at] ELSE mem[i]
    <3>1. mem = [i \in DOMAIN mem |-> mem[i]] /\ DOMAIN mem \subseteq Jobs /\ mem[j] \in Job
      BY <2>2, <2>3, StoreElim
    <3> QED
      BY <2>3, <3>1
  <2> HIDE DEF jobs
  <2>8. jobs \in Stores /\ Timed(jobs) /\ (Armed(jobs) <=> Armed(mem))
    <3>1. \A i \in DOMAIN mem :
            jobs[i] = mem[i] \/ \E t \in 0 .. MaxTime : jobs[i] = [mem[i] EXCEPT !.running = t]
      <4>1. \A i \in DOMAIN mem : jobs[i] = mem[i] \/ jobs[i] = [mem[i] EXCEPT !.running = at]
        BY <2>7
      <4> QED
        BY <4>1
    <3> QED
      BY <2>2, <2>7, <3>1, RemarkedStore
  <2>9. \A i \in DOMAIN mem : jobs[i].running = IF i = j THEN at ELSE mem[i].running
    BY <2>2, <2>7, StoreElim DEF Job
  <2>10. /\ x \in ServiceState /\ x.mem = jobs
         /\ x.phase = svc[s].phase /\ x.timer = svc[s].timer /\ x.ticking = svc[s].ticking
    BY <2>2, <2>8 DEF ServiceState
  <2> HIDE DEF x
  <2>11. svc' \in [Services -> ServiceState] /\ svc'[s] = x /\ \A r \in Services \ {s} : svc'[r] = svc[r]
    BY <1>1, <1>3, <2>6, <2>10, ServiceChanges
  <2>12. /\ manual' \in [Manuals -> ManualState]
         /\ \A k \in Manuals : manual'[k] = IF k = m THEN y ELSE manual[k]
    BY <1>1, <2>1, <2>5
  <2>13. Types'
    BY <1>1, <1>4, <2>1, <2>8, <2>11, <2>12 DEF Types
  <2>14. Acts(s)
    BY <1>3, <2>10, <2>11 DEF Acts
  <2>15. \A k \in AtWork' : /\ k \in AtWork /\ manual'[k].svc = manual[k].svc
                            /\ manual'[k].job = manual[k].job /\ manual'[k].at = manual[k].at
    BY <1>3, <2>5, <2>12 DEF AtWork
  <2>16. Owners'
    BY <1>4, <2>10, <2>11, <2>14, <2>15, OwnersKept
  <2>17. /\ Claimed(j)' /\ (~Claimed(j) => OneClaim(j)')
         /\ \A i \in Jobs \ {j} : (Claimed(i)' <=> Claimed(i)) /\ (OneClaim(i)' <=> OneClaim(i))
    <3>1. manual[m].stage # "reserved" /\ manual'[m].stage = "reserved" /\ manual'[m].job = j
      BY <1>2, <2>5, <2>12
    <3>2. \A k \in Manuals \ {m} : manual'[k] = manual[k]
      BY <2>12
    <3> QED
      BY <1>3, <1>4, <3>1, <3>2, ReserveClaims
  <2>18. DOMAIN mem \subseteq known
    BY <1>3 DEF IInv, IdsAreKnown, mem
  <2>19. /\ DOMAIN disk' \subseteq known' /\ DOMAIN svc'[s].mem \subseteq known'
         /\ \A i \in Jobs : Claimed(i)' => Claimed(i) \/ i \in known'
    BY <1>4, <2>1, <2>3, <2>7, <2>10, <2>11, <2>17, <2>18
  <2>20. Timed(disk') /\ Timed(svc'[s].mem)
    BY <2>1, <2>8, <2>10, <2>11
  <2>21. s = Cur /\ svc'[s].phase = "on" /\ Armed(svc'[s].mem) => svc'[s].timer
    BY <1>3, <2>8, <2>10, <2>11 DEF IInv, TimerIsSet, mem, Alive
  <2>22. ASSUME overlaps = 0
         PROVE  /\ s = Cur /\ (\A k \in AtWork' : manual'[k].svc = s)
                /\ \A i \in Jobs : ClaimIsMarked(i)' /\ MarkIsClaimed(i)'
    <3>1. s = Cur /\ Cur' = Cur /\ Alive # {}
      BY <1>3, <2>14, <2>22, OnlyCurActs, ActsServices
    <3>2. OldOnesAreQuiet /\ \A i \in Jobs : ClaimIsMarked(i) /\ MarkIsClaimed(i)
      BY <1>3, <2>22 DEF IInv, WithoutOverlaps, Alive
    <3>3. j \notin excused => ~Claimed(j)
      BY <1>3, <2>3, <3>1, <3>2 DEF ClaimIsMarked, Marked, mem
    <3>4. ASSUME NEW i \in Jobs PROVE ClaimIsMarked(i)'
      <4>1. CASE i = j
        <5>1. Marked(disk, j)' /\ Marked(svc[Cur].mem, j)'
          BY <1>3, <2>1, <2>3, <2>9, <2>10, <2>11, <3>1 DEF Marked
        <5>2. j \notin excused' => OneClaim(j)'
          BY <1>4, <2>17, <3>3
        <5>3. ClaimIsMarked(j)'
          BY <5>1, <5>2 DEF ClaimIsMarked
        <5> QED
          BY <4>1, <5>3
      <4>2. CASE i # j
        <5>1. Marked(svc[Cur].mem, i) => Marked(jobs, i)
          BY <2>7, <2>9, <3>1, <4>2 DEF Marked, mem
        <5>2. Marked(jobs, i) => Marked(disk, i)' /\ Marked(svc[Cur].mem, i)'
          BY <2>1, <2>10, <2>11, <3>1 DEF Marked
        <5> QED
          BY <1>4, <2>17, <3>2, <4>2, <5>1, <5>2 DEF ClaimIsMarked
      <4> QED
        BY <4>1, <4>2
    <3>5. ASSUME NEW i \in Jobs PROVE MarkIsClaimed(i)'
      <4>1. disk' = jobs /\ svc'[Cur'].mem = jobs
        BY <2>1, <2>10, <2>11, <3>1
      <4>2. i \in DOMAIN jobs /\ jobs[i].running # 0 => Claimed(i)'
        <5>1. i \in DOMAIN mem /\ mem[i].running # 0 => Claimed(i)
          BY <1>3, <3>1, <3>2 DEF MarkIsClaimed, mem
        <5>2. i # j => (Claimed(i)' <=> Claimed(i))
          BY <2>17
        <5> QED
          BY <2>7, <2>9, <2>17, <5>1, <5>2
      <4> QED
        BY <4>1, <4>2 DEF MarkIsClaimed
    <3>6. \A k \in AtWork' : manual'[k].svc = s
      BY <2>15, <3>1, <3>2 DEF OldOnesAreQuiet
    <3> QED
      BY <3>1, <3>4, <3>5, <3>6
  <2> QED
    BY <1>4, <2>13, <2>14, <2>16, <2>19, <2>20, <2>21, <2>22, ActsKeeps
<1> QED
  BY <1>5, <1>6

\* A manual run that ends leaves a job unclaimed, if it was the only one that claimed it.
LEMMA ManualSettles ==
  ASSUME NEW m \in Manuals, NEW j \in Jobs, UNCHANGED batch,
         manual[m].stage = "reserved", manual[m].job = j, manual'[m].stage # "reserved",
         \A k \in Manuals \ {m} : manual'[k] = manual[k]
  PROVE  /\ Claimed(j) /\ (OneClaim(j) => OneClaim(j)' /\ ~Claimed(j)')
         /\ \A i \in Jobs \ {j} : (Claimed(i)' <=> Claimed(i)) /\ (OneClaim(i)' <=> OneClaim(i))
<1>1. \A i \in Jobs : BatchRuns(i)' = BatchRuns(i)
  BY DEF BatchRuns
<1>2. m \in ManualRuns(j) /\ ManualRuns(j)' = ManualRuns(j) \ {m}
  BY DEF ManualRuns
<1>3. \A i \in Jobs \ {j} : ManualRuns(i)' = ManualRuns(i)
  BY DEF ManualRuns
<1>4. Claimed(j) /\ (OneClaim(j) => OneClaim(j)' /\ ~Claimed(j)')
  <2>1. Claimed(j)
    BY <1>2 DEF Claimed
  <2>2. OneClaim(j) => BatchRuns(j)' = {} /\ ManualRuns(j)' = {}
    BY <1>1, <1>2 DEF OneClaim
  <2> QED
    BY <2>1, <2>2 DEF Claimed, OneClaim
<1>5. \A i \in Jobs \ {j} : (Claimed(i)' <=> Claimed(i)) /\ (OneClaim(i)' <=> OneClaim(i))
  BY <1>1, <1>3 DEF Claimed, OneClaim
<1> QED
  BY <1>4, <1>5

\* A manual run of service s ends, and the marker of its job is in no store of s any more.
EndsManually(m, s, j) ==
  /\ manual[m].stage = "reserved" /\ manual[m].svc = s /\ manual[m].job = j
  /\ manual' = [manual EXCEPT ![m] = [NoManual EXCEPT !.stage = "over"]]
  /\ UNCHANGED << now, batch, known, edits, reloads, errors, overlaps >>
  /\ excused \subseteq excused' /\ excused' \subseteq Jobs
  /\ disk' \in Stores /\ Timed(disk') /\ DOMAIN disk' \subseteq known
  /\ svc' \in [Services -> ServiceState] /\ \A r \in Services \ {s} : svc'[r] = svc[r]
  /\ svc'[s].phase = svc[s].phase /\ svc'[s].ticking = svc[s].ticking
  /\ Timed(svc'[s].mem) /\ DOMAIN svc'[s].mem \subseteq known
  /\ s = Cur /\ svc[s].phase = "on" /\ Armed(svc'[s].mem) => svc'[s].timer
  /\ \A i \in Jobs \ (excused' \cup {j}) : Claimed(i) /\ Marked(disk, i) /\ Marked(svc[s].mem, i) =>
       Marked(disk', i) /\ Marked(svc'[s].mem, i)
  /\ overlaps = 0 /\ s = Cur => \A i \in Jobs :
       /\ i \in DOMAIN svc'[s].mem <=> i \in DOMAIN disk'
       /\ i \in DOMAIN disk' /\ (disk'[i].running # 0 \/ svc'[s].mem[i].running # 0) =>
            i # j /\ Claimed(i)

LEMMA EndsManuallyKeeps ==
  ASSUME IInv, NEW m \in Manuals, NEW s \in Services, NEW j \in Jobs, EndsManually(m, s, j)
  PROVE  IInv'
<1> DEFINE over == [NoManual EXCEPT !.stage = "over"]
<1>1. Types
  BY DEF IInv
<1> USE DEF EndsManually
<1>2. m \in AtWork /\ s \in Alive /\ svc[s].phase # "boot"
  BY DEF AtWork, IInv, Owners
<1>3. over \in ManualState /\ over.stage = "over"
  BY NoRuns
<1> HIDE DEF over
<1>4. /\ manual' \in [Manuals -> ManualState]
      /\ \A k \in Manuals : manual'[k] = IF k = m THEN over ELSE manual[k]
  BY <1>1, <1>3 DEF Types, over
<1>5. Types'
  BY <1>1, <1>4 DEF Types
<1>6. Acts(s)
  BY <1>2 DEF Acts
<1>7. \A k \in AtWork' : k \in AtWork /\ manual'[k] = manual[k]
  BY <1>3, <1>4 DEF AtWork
<1>8. Owners'
  <2>1. \A k \in AtWork' : /\ k \in AtWork /\ manual'[k].svc = manual[k].svc
                           /\ manual'[k].job = manual[k].job /\ manual'[k].at = manual[k].at
    BY <1>7
  <2>2. /\ svc[s].phase = "catchup" => svc'[s].phase = "catchup"
        /\ svc[s].ticking => svc'[s].ticking
        /\ \A r \in Services, b \in Batches, i \in Jobs :
             (batch'[r][b][i].stage = "none") <=> (batch[r][b][i].stage = "none")
    OBVIOUS
  <2> QED
    BY ONLY IInv, <1>6, <2>1, <2>2, OwnersKept
<1>9. /\ Claimed(j) /\ (OneClaim(j) => OneClaim(j)' /\ ~Claimed(j)')
      /\ \A i \in Jobs \ {j} : (Claimed(i)' <=> Claimed(i)) /\ (OneClaim(i)' <=> OneClaim(i))
  BY <1>3, <1>4, ManualSettles
<1>10. \A i \in Jobs : Claimed(i)' => Claimed(i) \/ i \in known'
  BY <1>9
<1>11. ASSUME overlaps = 0
       PROVE  /\ s = Cur /\ (\A k \in AtWork' : manual'[k].svc = s)
              /\ \A i \in Jobs : ClaimIsMarked(i)' /\ MarkIsClaimed(i)'
  <2>1. s = Cur /\ Cur' = Cur /\ Alive # {}
    BY <1>2, <1>6, <1>11, OnlyCurActs, ActsServices
  <2>2. OldOnesAreQuiet /\ \A i \in Jobs : ClaimIsMarked(i) /\ MarkIsClaimed(i)
    BY <1>2, <1>11 DEF IInv, WithoutOverlaps, Alive
  <2>3. ASSUME NEW i \in Jobs PROVE ClaimIsMarked(i)'
    <3>1. CASE i = j
      BY <1>9, <2>2, <3>1 DEF ClaimIsMarked
    <3>2. CASE i # j
      <4>1. i \notin excused' /\ Claimed(i) => Marked(disk, i) /\ Marked(svc[s].mem, i) /\ OneClaim(i)
        BY <2>1, <2>2 DEF ClaimIsMarked
      <4>2. i \notin excused' /\ Claimed(i) => Marked(disk', i) /\ Marked(svc'[s].mem, i)
        BY <3>2, <4>1
      <4>3. i \notin excused' => OneClaim(i)'
        BY <1>9, <2>2, <3>2 DEF ClaimIsMarked
      <4> QED
        BY <1>9, <2>1, <3>2, <4>2, <4>3 DEF ClaimIsMarked, Marked
    <3> QED
      BY <3>1, <3>2
  <2>4. ASSUME NEW i \in Jobs PROVE MarkIsClaimed(i)'
    BY <1>9, <1>11, <2>1 DEF MarkIsClaimed
  <2>5. ASSUME NEW k \in AtWork' PROVE manual'[k].svc = s
    <3>1. k \in AtWork /\ manual'[k] = manual[k]
      BY <1>7
    <3> QED
      BY ONLY <2>1, <2>2, <3>1 DEF OldOnesAreQuiet
  <2> QED
    BY <2>1, <2>3, <2>4, <2>5
<1> QED
  BY <1>5, <1>6, <1>8, <1>10, <1>11, ActsKeeps

LEMMA FinishManualStep ==
  ASSUME IInv, NEW m \in Manuals, FinishManual(m)
  PROVE  IInv'
<1>1. /\ Types /\ manual[m] \in ManualState /\ manual[m].stage = "reserved" /\ m \in AtWork
      /\ manual[m].svc \in Services /\ manual[m].job \in Jobs /\ manual[m].run \in Run
  <2>1. manual[m].stage = "reserved" /\ m \in AtWork
    BY DEF FinishManual, AtWork
  <2> QED
    BY <2>1 DEF IInv, Types, Owners, Alive, Started, ManualState
<1> PICK s \in Services, j \in Jobs, run \in Run :
           s = manual[m].svc /\ j = manual[m].job /\ run = manual[m].run
  BY <1>1
<1> DEFINE mem == svc[s].mem
           new == Result(j, mem[j], run, now)
           D == IF Deleted(j, run) THEN DOMAIN disk \ {j} ELSE DOMAIN disk
           merged == [i \in D |-> IF i = j THEN new ELSE disk[i]]
           jobs == Maintained(merged, now, TRUE)
           over == [NoManual EXCEPT !.stage = "over"]
<1>2. /\ manual' = [manual EXCEPT ![m] = over]
      /\ UNCHANGED << now, batch, known, edits, reloads, errors, overlaps >>
      /\ j \in DOMAIN mem => PersistAndArm(s, jobs, FALSE) /\ excused' = excused \cup Cleared(merged, jobs)
      /\ j \notin DOMAIN mem => UNCHANGED << disk, svc, excused >>
  <2> DEFINE s0 == manual[m].svc
             j0 == manual[m].job
             run0 == manual[m].run
             D0 == IF Deleted(j0, run0) THEN DOMAIN disk \ {j0} ELSE DOMAIN disk
             new0 == Result(j0, svc[s0].mem[j0], run0, now)
             merged0 == [i \in D0 |-> IF i = j0 THEN new0 ELSE disk[i]]
             jobs0 == Maintained(merged0, now, TRUE)
  <2>1. /\ manual' = [manual EXCEPT ![m] = over]
        /\ UNCHANGED << now, batch, known, edits, reloads, errors, overlaps >>
    BY DEF FinishManual, counters
  <2>2. /\ j0 \in DOMAIN svc[s0].mem =>
             PersistAndArm(s0, jobs0, FALSE) /\ excused' = excused \cup Cleared(merged0, jobs0)
        /\ j0 \notin DOMAIN svc[s0].mem => UNCHANGED << disk, svc, excused >>
    BY DEF FinishManual, store
  <2>3. D0 = D /\ new0 = new
    OBVIOUS
  <2>4. merged0 = merged
    <3> HIDE DEF D0, D, new0, new
    <3> QED
      BY <2>3
  <2>5. jobs0 = jobs
    BY <2>4
  <2> HIDE DEF jobs0, merged0, jobs, merged, over
  <2> QED
    BY <2>1, <2>2, <2>4, <2>5
<1>3. /\ s \in Alive /\ svc[s].phase # "boot" /\ svc \in [Services -> ServiceState]
      /\ disk \in Stores /\ mem \in Stores /\ now \in 1 .. MaxTime /\ Timed(disk) /\ Timed(mem)
      /\ DOMAIN disk \subseteq known /\ DOMAIN mem \subseteq known /\ known \subseteq Jobs
      /\ excused \subseteq Jobs /\ svc[s] \in ServiceState
  BY <1>1 DEF IInv, Owners, Types, AllTimed, IdsAreKnown, ServiceState
<1>4. ASSUME overlaps = 0, s = Cur, NEW i \in Jobs
      PROVE  /\ i \in DOMAIN mem <=> i \in DOMAIN disk
             /\ i \in DOMAIN disk /\ (disk[i].running # 0 \/ mem[i].running # 0) => Claimed(i)
  BY <1>3, <1>4 DEF IInv, WithoutOverlaps, MarkIsClaimed, Alive
<1>5. CASE j \notin DOMAIN mem
  <2> HIDE DEF over, jobs, merged, D, new
  <2>1. UNCHANGED << disk, svc, excused >>
    BY <1>2, <1>5
  <2>2. s = Cur /\ svc[s].phase = "on" /\ Armed(svc[s].mem) => svc[s].timer
    BY <1>3 DEF IInv, TimerIsSet, Alive
  <2>3. overlaps = 0 /\ s = Cur => \A i \in Jobs :
          /\ i \in DOMAIN mem <=> i \in DOMAIN disk
          /\ i \in DOMAIN disk /\ (disk[i].running # 0 \/ mem[i].running # 0) => i # j /\ Claimed(i)
    BY <1>4, <1>5
  <2> HIDE DEF mem
  <2> QED
    <3>1. EndsManually(m, s, j)
      BY <1>1, <1>2, <1>3, <2>1, <2>2, <2>3 DEF over, mem, EndsManually
    <3> QED
      BY <3>1, EndsManuallyKeeps
<1>6. CASE j \in DOMAIN mem
  <2>1. PersistAndArm(s, jobs, FALSE) /\ excused' = excused \cup Cleared(merged, jobs)
    BY <1>2, <1>6
  <2>2. new \in Job /\ new.running = 0
    <3>1. mem[j] \in Job
      BY <1>3, <1>6, StoreElim
    <3> HIDE DEF mem
    <3> QED
      BY <1>3, <3>1, ResultJob
  <2>3. merged \in Stores /\ DOMAIN merged = D
    <3>1. D \in SUBSET Jobs /\ D \subseteq DOMAIN disk /\ \A i \in DOMAIN disk : disk[i] \in Job
      BY <1>3, StoreElim
    <3> HIDE DEF new, D
    <3>2. merged \in [D -> Job]
      BY <2>2, <3>1
    <3> HIDE DEF merged
    <3> QED
      BY <3>1, <3>2, StoreIntro
  <2>4. \A i \in D : i \in DOMAIN disk /\ merged[i] = IF i = j THEN new ELSE disk[i]
    OBVIOUS
  <2>5. \A i \in DOMAIN disk : i # j => i \in D
    OBVIOUS
  <2> HIDE DEF over, new, D, merged, mem
  <2>6. jobs \in Stores /\ Tidied(merged, jobs) /\ Timed(jobs)
    BY <1>3, <2>3, MaintainedStore
  <2> HIDE DEF jobs
  <2>7. /\ DOMAIN jobs = D /\ DOMAIN jobs \subseteq known /\ excused' \subseteq Jobs
    BY <1>3, <2>1, <2>3, <2>4, <2>6 DEF Tidied, Cleared
  <2>8. /\ disk' = jobs /\ svc' \in [Services -> ServiceState] /\ \A r \in Services \ {s} : svc'[r] = svc[r]
        /\ svc'[s].phase = svc[s].phase /\ svc'[s].ticking = svc[s].ticking
        /\ svc'[s].mem = jobs /\ svc'[s].timer = Armed(jobs)
    <3> DEFINE x == [svc[s] EXCEPT !.mem = jobs, !.fresh = FALSE, !.timer = Armed(jobs)]
    <3>1. Armed(jobs) \in BOOLEAN
      BY DEF Armed
    <3>2. disk' = jobs /\ svc' = [svc EXCEPT ![s] = x]
      BY <2>1 DEF PersistAndArm
    <3>3. /\ x \in ServiceState /\ x.phase = svc[s].phase /\ x.ticking = svc[s].ticking
          /\ x.mem = jobs /\ x.timer = Armed(jobs)
      BY <1>3, <2>6, <3>1 DEF ServiceState
    <3> HIDE DEF x
    <3>4. svc' \in [Services -> ServiceState] /\ svc'[s] = x /\ \A r \in Services \ {s} : svc'[r] = svc[r]
      BY <1>1, <3>2, <3>3, ServiceChanges
    <3> QED
      BY <3>2, <3>3, <3>4
  <2>9. \A i \in Jobs \ (excused' \cup {j}) : Claimed(i) /\ Marked(disk, i) => Marked(jobs, i)
    <3>1. \A i \in Jobs \ {j} : Marked(disk, i) => Marked(merged, i)
      BY <2>3, <2>4 DEF Marked
    <3> QED
      BY <2>1, <2>6, <3>1, TidyKeeps
  <2>10. \A i \in DOMAIN jobs : jobs[i].running # 0 => i # j /\ i \in DOMAIN disk /\ disk[i].running # 0
    BY <2>2, <2>3, <2>4, <2>6, <2>7 DEF Tidied
  <2>11. overlaps = 0 /\ s = Cur => \A i \in Jobs :
           i \in DOMAIN jobs /\ jobs[i].running # 0 => i # j /\ Claimed(i)
    BY <1>4, <2>10
  <2> QED
    <3>1. /\ disk' \in Stores /\ Timed(disk') /\ DOMAIN disk' \subseteq known
          /\ Timed(svc'[s].mem) /\ DOMAIN svc'[s].mem \subseteq known
          /\ excused \subseteq excused' /\ excused' \subseteq Jobs
      BY <2>1, <2>6, <2>7, <2>8
    <3>2. s = Cur /\ svc[s].phase = "on" /\ Armed(svc'[s].mem) => svc'[s].timer
      BY <2>8
    <3>3. \A i \in Jobs \ (excused' \cup {j}) : Claimed(i) /\ Marked(disk, i) /\ Marked(svc[s].mem, i) =>
            Marked(disk', i) /\ Marked(svc'[s].mem, i)
      BY <2>8, <2>9
    <3>4. overlaps = 0 /\ s = Cur => \A i \in Jobs :
            /\ i \in DOMAIN svc'[s].mem <=> i \in DOMAIN disk'
            /\ i \in DOMAIN disk' /\ (disk'[i].running # 0 \/ svc'[s].mem[i].running # 0) =>
                 i # j /\ Claimed(i)
      BY <2>8, <2>11
    <3>5. /\ manual[m].stage = "reserved" /\ manual[m].svc = s /\ manual[m].job = j
          /\ manual' = [manual EXCEPT ![m] = [NoManual EXCEPT !.stage = "over"]]
          /\ UNCHANGED << now, batch, known, edits, reloads, errors, overlaps >>
      BY <1>1, <1>2 DEF over
    <3>6. /\ svc' \in [Services -> ServiceState] /\ \A r \in Services \ {s} : svc'[r] = svc[r]
          /\ svc'[s].phase = svc[s].phase /\ svc'[s].ticking = svc[s].ticking
      BY <2>8
    <3> QED
      <4>1. EndsManually(m, s, j)
        BY <3>1, <3>2, <3>3, <3>4, <3>5, <3>6 DEF EndsManually
      <4> QED
        BY <4>1, EndsManuallyKeeps
<1> QED
  BY <1>5, <1>6

-----------------------------------------------------------------------------
(* Batches of runs.                                                        *)

Claiming(due) == [j \in Jobs |-> IF j \in due THEN [NoRun EXCEPT !.stage = "claimed"] ELSE NoRun]
Claims(s, b, due) ==
  /\ \A j \in Jobs : batch[s][b][j].stage = "none"
  /\ batch' = [batch EXCEPT ![s][b] = Claiming(due)] /\ manual' = manual
Settles(s, b) == batch' = [batch EXCEPT ![s][b] = Idle] /\ manual' = manual

\* A batch claims some jobs; a job that nobody has claimed belongs to it alone then.
LEMMA BatchClaims ==
  ASSUME NEW s \in Services, NEW b \in Batches, NEW due \in SUBSET Jobs,
         batch \in [Services -> [Batches -> [Jobs -> Run]]], Claims(s, b, due)
  PROVE  /\ batch' \in [Services -> [Batches -> [Jobs -> Run]]]
         /\ \A r \in Services, c \in Batches, j \in Jobs :
              batch'[r][c][j].stage = IF r = s /\ c = b /\ j \in due THEN "claimed" ELSE batch[r][c][j].stage
         /\ \A j \in due : Claimed(j)' /\ (~Claimed(j) => OneClaim(j)')
         /\ \A j \in Jobs \ due : (Claimed(j)' <=> Claimed(j)) /\ (OneClaim(j)' <=> OneClaim(j))
<1>1. /\ Claiming(due) \in [Jobs -> Run]
      /\ \A j \in Jobs : Claiming(due)[j].stage = IF j \in due THEN "claimed" ELSE "none"
  <2>1. /\ NoRun \in Run /\ NoRun.stage = "none"
        /\ [NoRun EXCEPT !.stage = "claimed"] \in Run /\ [NoRun EXCEPT !.stage = "claimed"].stage = "claimed"
    BY NoRuns DEF Run, Stages
  <2> QED
    BY <2>1 DEF Claiming
<1>2. /\ batch' \in [Services -> [Batches -> [Jobs -> Run]]]
      /\ \A r \in Services, c \in Batches, j \in Jobs :
           batch'[r][c][j] = IF r = s /\ c = b THEN Claiming(due)[j] ELSE batch[r][c][j]
  BY <1>1 DEF Claims
<1>3. \A r \in Services, c \in Batches, j \in Jobs :
        batch'[r][c][j].stage = IF r = s /\ c = b /\ j \in due THEN "claimed" ELSE batch[r][c][j].stage
  BY <1>1, <1>2 DEF Claims
<1>4. \A j \in Jobs : ManualRuns(j)' = ManualRuns(j)
  BY DEF ManualRuns, Claims
<1>5. \A j \in due : BatchRuns(j)' = BatchRuns(j) \cup {<< s, b >>}
  <2> SUFFICES ASSUME NEW j \in due PROVE BatchRuns(j)' = BatchRuns(j) \cup {<< s, b >>}
    OBVIOUS
  <2>1. ASSUME NEW r \in Services \X Batches
        PROVE  batch'[r[1]][r[2]][j].stage # "none" <=> batch[r[1]][r[2]][j].stage # "none" \/ r = << s, b >>
    <3>1. r[1] \in Services /\ r[2] \in Batches /\ r = << r[1], r[2] >>
      OBVIOUS
    <3>2. r = << s, b >> <=> r[1] = s /\ r[2] = b
      BY <3>1
    <3> QED
      BY <1>3, <3>1, <3>2
  <2> QED
    BY <2>1 DEF BatchRuns
<1>6. \A j \in Jobs \ due : BatchRuns(j)' = BatchRuns(j)
  <2> SUFFICES ASSUME NEW j \in Jobs \ due PROVE BatchRuns(j)' = BatchRuns(j)
    OBVIOUS
  <2>1. ASSUME NEW r \in Services \X Batches
        PROVE  batch'[r[1]][r[2]][j].stage = batch[r[1]][r[2]][j].stage
    BY <1>3
  <2> QED
    BY <2>1 DEF BatchRuns
<1>7. \A j \in due : Claimed(j)' /\ (~Claimed(j) => OneClaim(j)')
  BY <1>4, <1>5 DEF Claimed, OneClaim
<1>8. \A j \in Jobs \ due : (Claimed(j)' <=> Claimed(j)) /\ (OneClaim(j)' <=> OneClaim(j))
  BY <1>4, <1>6 DEF Claimed, OneClaim
<1> QED
  BY <1>2, <1>3, <1>7, <1>8

\* A batch settles its runs.
LEMMA BatchSettles ==
  ASSUME NEW s \in Services, NEW b \in Batches,
         batch \in [Services -> [Batches -> [Jobs -> Run]]], Settles(s, b)
  PROVE  /\ batch' \in [Services -> [Batches -> [Jobs -> Run]]]
         /\ \A r \in Services, c \in Batches, j \in Jobs :
              batch'[r][c][j].stage = IF r = s /\ c = b THEN "none" ELSE batch[r][c][j].stage
         /\ \A j \in Jobs : (Claimed(j)' => Claimed(j)) /\ (OneClaim(j) => OneClaim(j)')
         /\ \A j \in Jobs : batch[s][b][j].stage # "none" /\ OneClaim(j) => ~Claimed(j)'
         /\ \A j \in Jobs : batch[s][b][j].stage # "none" => Claimed(j)
         /\ \A j \in Jobs : batch[s][b][j].stage = "none" => (Claimed(j)' <=> Claimed(j))
<1>1. Idle \in [Jobs -> Run] /\ \A j \in Jobs : Idle[j].stage = "none"
  BY NoRuns DEF Idle
<1>2. /\ batch' \in [Services -> [Batches -> [Jobs -> Run]]]
      /\ \A r \in Services, c \in Batches, j \in Jobs :
           batch'[r][c][j] = IF r = s /\ c = b THEN Idle[j] ELSE batch[r][c][j]
  BY <1>1 DEF Settles
<1>3. \A r \in Services, c \in Batches, j \in Jobs :
        batch'[r][c][j].stage = IF r = s /\ c = b THEN "none" ELSE batch[r][c][j].stage
  BY <1>1, <1>2
<1>4. ASSUME NEW j \in Jobs
      PROVE  /\ ManualRuns(j)' = ManualRuns(j)
             /\ BatchRuns(j)' = BatchRuns(j) \ {<< s, b >>}
             /\ << s, b >> \in BatchRuns(j) <=> batch[s][b][j].stage # "none"
  <2>1. ASSUME NEW r \in Services \X Batches
        PROVE  batch'[r[1]][r[2]][j].stage # "none" <=> batch[r[1]][r[2]][j].stage # "none" /\ r # << s, b >>
    <3>1. r[1] \in Services /\ r[2] \in Batches /\ r = << r[1], r[2] >>
      OBVIOUS
    <3>2. r = << s, b >> <=> r[1] = s /\ r[2] = b
      BY <3>1
    <3> QED
      BY <1>3, <3>1, <3>2
  <2>2. BatchRuns(j)' = BatchRuns(j) \ {<< s, b >>}
    BY <2>1 DEF BatchRuns
  <2>3. << s, b >> \in BatchRuns(j) <=> batch[s][b][j].stage # "none"
    BY DEF BatchRuns
  <2> QED
    BY <2>2, <2>3 DEF ManualRuns, Settles
<1>5. \A j \in Jobs :
        /\ Claimed(j)' => Claimed(j)
        /\ OneClaim(j) => OneClaim(j)'
        /\ batch[s][b][j].stage # "none" /\ OneClaim(j) => ~Claimed(j)'
        /\ batch[s][b][j].stage # "none" => Claimed(j)
        /\ batch[s][b][j].stage = "none" => (Claimed(j)' <=> Claimed(j))
  <2> SUFFICES ASSUME NEW j \in Jobs
               PROVE  /\ Claimed(j)' => Claimed(j)
                      /\ OneClaim(j) => OneClaim(j)'
                      /\ batch[s][b][j].stage # "none" /\ OneClaim(j) => ~Claimed(j)'
                      /\ batch[s][b][j].stage # "none" => Claimed(j)
                      /\ batch[s][b][j].stage = "none" => (Claimed(j)' <=> Claimed(j))
    OBVIOUS
  <2>1. /\ ManualRuns(j)' = ManualRuns(j) /\ BatchRuns(j)' = BatchRuns(j) \ {<< s, b >>}
        /\ << s, b >> \in BatchRuns(j) <=> batch[s][b][j].stage # "none"
    BY <1>4
  <2>2. batch[s][b][j].stage # "none" /\ OneClaim(j) => BatchRuns(j)' = {} /\ ManualRuns(j)' = {}
    BY <2>1 DEF OneClaim
  <2>3. batch[s][b][j].stage = "none" => BatchRuns(j)' = BatchRuns(j)
    BY <2>1
  <2> QED
    BY <2>1, <2>2, <2>3 DEF Claimed, OneClaim
<1> QED
  BY <1>2, <1>3, <1>5

\* A start or a tick of service s reads the stores and claims the jobs of due.
ClaimsBatch(s, b, due) ==
  /\ s \in Alive /\ Claims(s, b, due)
  /\ UNCHANGED << now, manual, known, edits, reloads, errors, overlaps >>
  /\ excused \subseteq excused' /\ excused' \subseteq Jobs /\ due \subseteq known
  /\ disk' \in Stores /\ Timed(disk') /\ DOMAIN disk' \subseteq known
  /\ svc' \in [Services -> ServiceState] /\ \A r \in Services \ {s} : svc'[r] = svc[r]
  /\ Timed(svc'[s].mem) /\ DOMAIN svc'[s].mem \subseteq known
  /\ svc'[s].phase = svc[s].phase \/ (svc[s].phase = "plan" /\ svc'[s].phase \in {"arm", "catchup"})
  /\ svc[s].ticking => svc'[s].ticking
  /\ due # {} => IF b = "startup" THEN svc'[s].phase = "catchup" ELSE svc'[s].ticking
  /\ svc'[s].phase = "on" /\ Armed(svc'[s].mem) => svc'[s].timer
  /\ overlaps = 0 =>
       /\ s = Cur /\ \A j \in due : j \notin excused => ~Claimed(j)
       /\ \A j \in Jobs \ excused' : j \in due \/ (Claimed(j) /\ Marked(disk, j) /\ Marked(svc[s].mem, j)) =>
            Marked(disk', j) /\ Marked(svc'[s].mem, j)
       /\ svc[s].phase # "boot" => \A j \in Jobs :
            /\ j \in DOMAIN svc'[s].mem <=> j \in DOMAIN disk'
            /\ j \in DOMAIN disk' /\ (disk'[j].running # 0 \/ svc'[s].mem[j].running # 0) =>
                 j \in due \/ Claimed(j)

LEMMA ClaimsBatchKeeps ==
  ASSUME IInv, NEW s \in Services, NEW b \in Batches, NEW due \in SUBSET Jobs, ClaimsBatch(s, b, due)
  PROVE  IInv'
<1> USE DEF ClaimsBatch
<1>1. Types
  BY DEF IInv
<1>2. batch \in [Services -> [Batches -> [Jobs -> Run]]]
  BY <1>1 DEF Types
<1>3. Claims(s, b, due)
  OBVIOUS
<1>4. /\ batch' \in [Services -> [Batches -> [Jobs -> Run]]]
      /\ \A r \in Services, c \in Batches, j \in Jobs :
           batch'[r][c][j].stage = IF r = s /\ c = b /\ j \in due THEN "claimed" ELSE batch[r][c][j].stage
  BY ONLY <1>2, <1>3, s \in Services, b \in Batches, due \in SUBSET Jobs, BatchClaims
<1>5. /\ \A j \in due : Claimed(j)' /\ (~Claimed(j) => OneClaim(j)')
      /\ \A j \in Jobs \ due : (Claimed(j)' <=> Claimed(j)) /\ (OneClaim(j)' <=> OneClaim(j))
  BY ONLY <1>2, <1>3, s \in Services, b \in Batches, due \in SUBSET Jobs, BatchClaims
<1>6. Types'
  BY <1>1, <1>4 DEF Types
<1>7. Acts(s)
  BY DEF Acts
<1>8. /\ Started' = Started /\ Alive' = Alive /\ Cur' = Cur
      /\ \A r \in Services : svc[r].phase # "boot" => svc'[r].phase # "boot"
  BY <1>7, ActsServices
<1>9. Owners'
  <2>1. Owners /\ \A r \in Services : r # s => svc'[r] = svc[r]
    BY DEF IInv
  <2>2. \A r \in Services, j \in Jobs :
          /\ batch'[r]["startup"][j].stage # "none" => svc'[r].phase = "catchup"
          /\ batch'[r]["tick"][j].stage # "none" => svc'[r].ticking
    <3> SUFFICES ASSUME NEW r \in Services, NEW j \in Jobs
                 PROVE  /\ batch'[r]["startup"][j].stage # "none" => svc'[r].phase = "catchup"
                        /\ batch'[r]["tick"][j].stage # "none" => svc'[r].ticking
      OBVIOUS
    <3>1. /\ batch[r]["startup"][j].stage # "none" => svc[r].phase = "catchup"
          /\ batch[r]["tick"][j].stage # "none" => svc[r].ticking
      BY <2>1 DEF Owners
    <3>2. \A c \in Batches : batch'[r][c][j].stage # "none" =>
            batch[r][c][j].stage # "none" \/ (r = s /\ c = b /\ due # {})
      BY <1>4
    <3>3. "startup" \in Batches /\ "tick" \in Batches
      BY DEF Batches
    <3>4. due # {} => IF b = "startup" THEN svc'[s].phase = "catchup" ELSE svc'[s].ticking
      OBVIOUS
    <3>5. /\ svc[r].phase = "catchup" => svc'[r].phase = "catchup"
          /\ svc[r].ticking => svc'[r].ticking
      BY <2>1
    <3> QED
      BY ONLY <3>1, <3>2, <3>3, <3>4, <3>5
  <2>3. /\ \A r \in Services \ Alive : ~svc'[r].timer /\ ~svc'[r].ticking
        /\ \A r \in Services \ Started : DOMAIN svc'[r].mem = {}
    BY <2>1 DEF Owners, Alive
  <2>4. \A m \in AtWork : /\ manual[m].svc \in Alive /\ svc'[manual[m].svc].phase # "boot"
                          /\ manual[m].job \in Jobs /\ manual[m].at # 0
    <3>1. \A r \in Alive : r \in Services
      BY DEF Alive, Started
    <3> QED
      BY <1>8, <2>1, <3>1 DEF Owners
  <2> QED
    BY <1>8, <2>2, <2>3, <2>4 DEF Owners, AtWork
<1>10. \A j \in Jobs : Claimed(j)' => Claimed(j) \/ j \in known'
  BY <1>5
<1>11. ASSUME overlaps = 0
       PROVE  /\ s = Cur /\ (\A m \in AtWork' : manual'[m].svc = s)
              /\ \A j \in Jobs : ClaimIsMarked(j)' /\ MarkIsClaimed(j)'
  <2>1. s = Cur /\ Cur' = Cur /\ Alive # {}
    BY <1>8, <1>11
  <2>2. OldOnesAreQuiet /\ \A j \in Jobs : ClaimIsMarked(j) /\ MarkIsClaimed(j)
    BY <1>11 DEF IInv, WithoutOverlaps, Alive
  <2>3. ASSUME NEW j \in Jobs PROVE ClaimIsMarked(j)'
    <3>1. j \notin excused' => OneClaim(j)'
      BY <1>5, <1>11, <2>2 DEF ClaimIsMarked
    <3>2. j \notin excused' /\ Claimed(j)' => j \in due \/ (Claimed(j) /\ Marked(disk, j) /\ Marked(svc[s].mem, j))
      BY <1>5, <2>1, <2>2 DEF ClaimIsMarked
    <3>3. j \notin excused' /\ Claimed(j)' => Marked(disk', j) /\ Marked(svc'[s].mem, j)
      BY <1>11, <3>2
    <3> QED
      BY <2>1, <3>1, <3>3 DEF ClaimIsMarked, Marked
  <2>4. ASSUME NEW j \in Jobs PROVE MarkIsClaimed(j)'
    <3>1. svc'[s].phase # "boot" => svc[s].phase # "boot"
      OBVIOUS
    <3>2. svc'[s].phase # "boot" =>
            /\ j \in DOMAIN svc'[s].mem <=> j \in DOMAIN disk'
            /\ j \in DOMAIN disk' /\ (disk'[j].running # 0 \/ svc'[s].mem[j].running # 0) =>
                 j \in due \/ Claimed(j)
      BY <1>11, <3>1
    <3> QED
      BY <1>5, <2>1, <3>2 DEF MarkIsClaimed
  <2>5. \A m \in AtWork' : manual'[m].svc = s
    BY <2>1, <2>2 DEF OldOnesAreQuiet, AtWork
  <2> QED
    BY <2>1, <2>3, <2>4, <2>5
<1>12. DOMAIN disk' \subseteq known' /\ DOMAIN svc'[s].mem \subseteq known'
  OBVIOUS
<1> QED
  BY <1>6, <1>7, <1>9, <1>10, <1>11, <1>12, ActsKeeps

\* The marks that a batch sets on a store.
WithMarks(jobs, due) ==
  [j \in DOMAIN jobs |-> IF j \in due THEN [jobs[j] EXCEPT !.running = now] ELSE jobs[j]]

LEMMA DueAreMarked ==
  ASSUME NEW jobs \in Stores, NEW due \in SUBSET Jobs, now \in 1 .. MaxTime
  PROVE  /\ WithMarks(jobs, due) \in Stores /\ DOMAIN WithMarks(jobs, due) = DOMAIN jobs
         /\ Timed(jobs) => Timed(WithMarks(jobs, due))
         /\ \A j \in DOMAIN jobs :
              WithMarks(jobs, due)[j].running = IF j \in due THEN now ELSE jobs[j].running
<1> DEFINE new == WithMarks(jobs, due)
<1>1. now \in 0 .. MaxTime /\ \A j \in DOMAIN jobs : jobs[j] \in Job
  BY StoreElim
<1>2. \A j \in DOMAIN jobs : new[j] = IF j \in due THEN [jobs[j] EXCEPT !.running = now] ELSE jobs[j]
  BY DEF WithMarks
<1>3. new = [j \in DOMAIN jobs |-> new[j]]
  BY DEF WithMarks
<1> HIDE DEF new
<1>4. \A j \in DOMAIN jobs : new[j].running = IF j \in due THEN now ELSE jobs[j].running
  BY <1>1, <1>2 DEF Job
<1>5. \A j \in DOMAIN jobs :
        new[j] = jobs[j] \/ \E t \in 0 .. MaxTime : new[j] = [jobs[j] EXCEPT !.running = t]
  BY <1>1, <1>2
<1>6. new \in Stores /\ DOMAIN new = DOMAIN jobs /\ (Timed(jobs) => Timed(new))
  BY ONLY jobs \in Stores, <1>3, <1>5, RemarkedStore
<1> QED
  BY <1>4, <1>6 DEF new

LEMMA OnTimerStep ==
  ASSUME IInv, NEW s \in Services, OnTimer(s)
  PROVE  IInv'
<1>1. /\ Types /\ disk \in Stores /\ now \in 1 .. MaxTime /\ now # 0 /\ svc[s] \in ServiceState /\ Timed(disk)
      /\ DOMAIN disk \subseteq known /\ known \subseteq Jobs /\ excused \subseteq Jobs
  BY DEF IInv, Types, AllTimed, IdsAreKnown
<1>2. { j \in DOMAIN disk : Runnable(disk[j], now) } \in SUBSET Jobs
  BY <1>1
<1> PICK due \in SUBSET Jobs : due = { j \in DOMAIN disk : Runnable(disk[j], now) }
  BY <1>2
<1> DEFINE marked == WithMarks(disk, due)
           jobs == IF due = {} THEN Maintained(disk, now, TRUE) ELSE marked
           x == [svc[s] EXCEPT !.mem = jobs, !.ticking = due # {}, !.fresh = TRUE,
                               !.timer = due # {} \/ Armed(jobs)]
<1>3. /\ svc[s].timer /\ ~svc[s].ticking
      /\ disk' = jobs /\ svc' = [svc EXCEPT ![s] = x]
      /\ batch' = [batch EXCEPT ![s]["tick"] = Claiming(due)]
      /\ excused' = excused \cup Cleared(disk, jobs)
      /\ UNCHANGED << now, manual, known, edits, reloads, errors, overlaps >>
  BY DEF OnTimer, Claiming, WithMarks, counters
<1>4. s \in Alive /\ "tick" \in Batches /\ \A j \in Jobs : batch[s]["tick"][j].stage = "none"
  BY <1>3 DEF IInv, Owners, Batches
<1>5. \A j \in due : j \in DOMAIN disk /\ disk[j].running = 0
  BY DEF Runnable
<1>6. /\ jobs \in Stores /\ DOMAIN jobs = DOMAIN disk /\ Timed(jobs)
      /\ \A j \in DOMAIN disk : IF j \in due THEN jobs[j].running = now
                                             ELSE jobs[j].running \in {disk[j].running, 0}
  <2>1. CASE due = {}
    <3>1. jobs = Maintained(disk, now, TRUE)
      BY <2>1
    <3> HIDE DEF jobs
    <3> QED
      BY <1>1, <2>1, <3>1, MaintainedStore DEF Tidied
  <2>2. CASE due # {}
    <3>1. jobs = marked
      BY <2>2
    <3> HIDE DEF jobs
    <3> QED
      BY <1>1, <3>1, DueAreMarked
  <2> QED
    BY <2>1, <2>2
<1> HIDE DEF jobs
<1>7. excused \subseteq excused' /\ excused' \subseteq Jobs /\ Cleared(disk, jobs) \subseteq excused'
  BY <1>1, <1>3 DEF Cleared
<1>8. /\ x \in ServiceState /\ x.mem = jobs /\ x.phase = svc[s].phase
      /\ x.ticking = (due # {}) /\ x.timer = (due # {} \/ Armed(jobs))
  <2>1. (due # {} \/ Armed(jobs)) \in BOOLEAN
    BY DEF Armed
  <2> QED
    BY <1>1, <1>6, <2>1 DEF ServiceState
<1> HIDE DEF x
<1>9. svc' \in [Services -> ServiceState] /\ svc'[s] = x /\ \A r \in Services \ {s} : svc'[r] = svc[r]
  BY <1>1, <1>3, <1>8, ServiceChanges
<1>10. Claims(s, "tick", due)
  BY <1>3, <1>4 DEF Claims
<1>11. ASSUME overlaps = 0
       PROVE  /\ s = Cur /\ \A j \in due : j \notin excused => ~Claimed(j)
              /\ \A j \in Jobs \ excused' : j \in due \/ (Claimed(j) /\ Marked(disk, j)) => Marked(jobs, j)
              /\ svc[s].phase # "boot" => \A j \in Jobs :
                   j \in DOMAIN jobs /\ jobs[j].running # 0 => j \in due \/ Claimed(j)
  <2>1. s = Cur
    BY <1>3, <1>4, <1>11, OnlyCurActs
  <2>2. \A j \in Jobs : ClaimIsMarked(j) /\ MarkIsClaimed(j)
    BY <1>4, <1>11 DEF IInv, WithoutOverlaps, Alive
  <2>3. \A j \in due : j \notin excused => ~Claimed(j)
    BY <1>5, <2>2 DEF ClaimIsMarked, Marked
  <2>4. \A j \in Jobs \ excused' : j \in due \/ (Claimed(j) /\ Marked(disk, j)) => Marked(jobs, j)
    BY <1>1, <1>6, <1>7 DEF Marked, Cleared
  <2>5. svc[s].phase # "boot" => \A j \in Jobs :
          j \in DOMAIN jobs /\ jobs[j].running # 0 => j \in due \/ Claimed(j)
    BY <1>4, <1>6, <2>1, <2>2 DEF MarkIsClaimed
  <2> QED
    BY <2>1, <2>3, <2>4, <2>5
<1>12. ClaimsBatch(s, "tick", due)
  <2>1. svc'[s].mem = jobs /\ svc'[s].phase = svc[s].phase /\ svc'[s].ticking = (due # {})
        /\ svc'[s].timer = (due # {} \/ Armed(jobs))
    BY <1>8, <1>9
  <2>2. due \subseteq known /\ DOMAIN jobs \subseteq known
    BY <1>1, <1>5, <1>6
  <2> QED
    BY <1>3, <1>4, <1>6, <1>7, <1>9, <1>10, <1>11, <2>1, <2>2 DEF ClaimsBatch
<1> QED
  BY <1>4, <1>12, ClaimsBatchKeeps

\* No job has a rank beyond the number of jobs.
LEMMA RankIsBounded ==
  ASSUME NEW jobs \in Stores, NEW missed \in SUBSET DOMAIN jobs, NEW j \in missed
  PROVE  Rank(jobs, missed, j) \in 1 .. NumJobs
<1> DEFINE B == { i \in missed : Before(jobs, i, j) }
<1>1. DOMAIN jobs \subseteq Jobs /\ \A i \in DOMAIN jobs : jobs[i].next \in Nat
  BY StoreElim, Bounds DEF Job
<1>2. j \notin B /\ B \subseteq Jobs \ {j} /\ j \in Jobs
  BY <1>1 DEF Before, Jobs
<1>3. IsFiniteSet(Jobs) /\ Cardinality(Jobs) = NumJobs
  BY FS_Interval, Bounds DEF Jobs
<1>4. IsFiniteSet(Jobs \ {j}) /\ Cardinality(Jobs \ {j}) = NumJobs - 1
  BY <1>2, <1>3, FS_RemoveElement
<1>5. Cardinality(B) \in Nat /\ Cardinality(B) <= NumJobs - 1
  <2> HIDE DEF B
  <2> QED
    BY <1>2, <1>4, FS_Subset, FS_CardinalityType
<1> QED
  BY <1>5, Bounds DEF Rank

LEMMA PlanCatchupStep ==
  ASSUME IInv, NEW s \in Services, PlanCatchup(s)
  PROVE  IInv'
<1> DEFINE mem == svc[s].mem
<1>1. /\ Types /\ disk \in Stores /\ mem \in Stores /\ now \in 1 .. MaxTime /\ now # 0
      /\ svc[s] \in ServiceState /\ Timed(disk) /\ Timed(mem)
      /\ DOMAIN disk \subseteq known /\ DOMAIN mem \subseteq known /\ known \subseteq Jobs /\ excused \subseteq Jobs
  BY DEF IInv, Types, AllTimed, IdsAreKnown, ServiceState
<1> PICK missed \in SUBSET Jobs : missed = { j \in DOMAIN mem \ svc[s].skip : Missed(j, mem[j], now) }
  BY <1>1
<1> PICK due \in SUBSET Jobs : due = { j \in missed : Rank(mem, missed, j) <= MaxImmediate }
  OBVIOUS
<1> DEFINE jobs == WithMarks(mem, due)
           later == [j \in Jobs |-> IF j \in missed \ due THEN Rank(mem, missed, j) - MaxImmediate ELSE 0]
           phase == IF missed = {} THEN "arm" ELSE "catchup"
           x == [svc[s] EXCEPT !.phase = phase, !.mem = jobs, !.skip = {}, !.deferred = later]
<1>2. /\ svc[s].phase = "plan" /\ disk' = (IF missed = {} THEN disk ELSE jobs)
      /\ svc' = [svc EXCEPT ![s] = x]
      /\ batch' = [batch EXCEPT ![s]["startup"] = Claiming(due)]
      /\ UNCHANGED << now, manual, known, edits, reloads, errors, excused, overlaps >>
  BY DEF PlanCatchup, Claiming, WithMarks, counters, history
<1>3. s \in Alive /\ "startup" \in Batches /\ \A j \in Jobs : batch[s]["startup"][j].stage = "none"
  BY <1>2 DEF IInv, Owners, Batches, Alive, Started
<1>4. missed \subseteq DOMAIN mem /\ due \subseteq missed /\ \A j \in missed : mem[j].running = 0
  BY DEF Missed
<1>5. later \in [Jobs -> 0 .. NumJobs]
  <2>1. \A j \in missed : Rank(mem, missed, j) \in 1 .. NumJobs
    BY <1>1, <1>4, RankIsBounded
  <2> HIDE DEF mem
  <2>2. \A j \in missed \ due : Rank(mem, missed, j) - MaxImmediate \in 0 .. NumJobs
    BY <2>1, Bounds
  <2> QED
    BY <2>2, Bounds
<1>6. /\ jobs \in Stores /\ DOMAIN jobs = DOMAIN mem /\ Timed(jobs)
      /\ \A j \in DOMAIN mem : jobs[j].running = IF j \in due THEN now ELSE mem[j].running
  <2> HIDE DEF mem
  <2>1. mem \in Stores /\ now \in 1 .. MaxTime /\ Timed(mem)
    BY <1>1
  <2> QED
    BY ONLY due \in SUBSET Jobs, <2>1, DueAreMarked
<1> HIDE DEF jobs, later, mem
<1>7. x \in ServiceState /\ x.mem = jobs /\ x.phase = phase /\ x.ticking = svc[s].ticking
  BY <1>1, <1>5, <1>6 DEF ServiceState
<1> HIDE DEF x
<1>8. svc' \in [Services -> ServiceState] /\ svc'[s] = x /\ \A r \in Services \ {s} : svc'[r] = svc[r]
  BY <1>1, <1>2, <1>7, ServiceChanges
<1>9. Claims(s, "startup", due)
  BY <1>2, <1>3 DEF Claims
<1>10. disk' \in Stores /\ Timed(disk') /\ DOMAIN disk' \subseteq known /\ due \subseteq known
       /\ DOMAIN jobs \subseteq known
  BY <1>1, <1>2, <1>4, <1>6
<1>11. ASSUME overlaps = 0
       PROVE  /\ s = Cur /\ \A j \in due : j \notin excused => ~Claimed(j)
              /\ \A j \in Jobs \ excused' : j \in due \/ (Claimed(j) /\ Marked(disk, j) /\ Marked(mem, j)) =>
                   Marked(disk', j) /\ Marked(jobs, j)
              /\ \A j \in Jobs :
                   /\ j \in DOMAIN jobs <=> j \in DOMAIN disk'
                   /\ j \in DOMAIN disk' /\ (disk'[j].running # 0 \/ jobs[j].running # 0) => j \in due \/ Claimed(j)
  <2>1. s = Cur
    BY <1>2, <1>3, <1>11, OnlyCurActs
  <2>2. /\ \A j \in Jobs : ClaimIsMarked(j)
        /\ \A j \in Jobs :
             /\ j \in DOMAIN mem <=> j \in DOMAIN disk
             /\ j \in DOMAIN disk /\ (disk[j].running # 0 \/ mem[j].running # 0) => Claimed(j)
    BY <1>2, <1>3, <1>11, <2>1 DEF IInv, WithoutOverlaps, Alive, MarkIsClaimed, mem
  <2>3. \A j \in due : j \notin excused => ~Claimed(j)
    BY <1>4, <2>1, <2>2 DEF ClaimIsMarked, Marked, mem
  <2>4. \A j \in Jobs : j \in due \/ Marked(mem, j) => Marked(jobs, j)
    BY <1>1, <1>6 DEF Marked
  <2>5. missed = {} => due = {} /\ disk' = disk
    BY <1>2, <1>4
  <2>6. missed # {} => disk' = jobs
    BY <1>2
  <2>7. \A j \in Jobs : j \in due \/ (Marked(disk, j) /\ Marked(mem, j)) => Marked(disk', j) /\ Marked(jobs, j)
    BY <2>4, <2>5, <2>6 DEF Marked
  <2>8. ASSUME NEW j \in Jobs
        PROVE  /\ j \in DOMAIN jobs <=> j \in DOMAIN disk'
               /\ j \in DOMAIN disk' /\ (disk'[j].running # 0 \/ jobs[j].running # 0) => j \in due \/ Claimed(j)
    BY <1>6, <2>2, <2>5, <2>6
  <2> QED
    BY <2>1, <2>3, <2>7, <2>8
<1>12. ClaimsBatch(s, "startup", due)
  <2>1. svc'[s].mem = jobs /\ svc'[s].phase = phase /\ svc'[s].ticking = svc[s].ticking
    BY <1>7, <1>8
  <2>2. phase \in {"arm", "catchup"} /\ (due # {} => phase = "catchup")
    BY <1>4
  <2>3. excused' = excused /\ excused' \subseteq Jobs
    BY <1>1, <1>2
  <2> HIDE DEF phase
  <2>4. /\ svc'[s].phase = svc[s].phase \/ (svc[s].phase = "plan" /\ svc'[s].phase \in {"arm", "catchup"})
        /\ svc[s].ticking => svc'[s].ticking
        /\ due # {} => IF "startup" = "startup" THEN svc'[s].phase = "catchup" ELSE svc'[s].ticking
        /\ svc'[s].phase = "on" /\ Armed(svc'[s].mem) => svc'[s].timer
    BY <1>2, <2>1, <2>2
  <2>5. /\ Timed(svc'[s].mem) /\ DOMAIN svc'[s].mem \subseteq known
    BY <1>6, <1>10, <2>1
  <2>6. overlaps = 0 =>
          /\ s = Cur /\ \A j \in due : j \notin excused => ~Claimed(j)
          /\ \A j \in Jobs \ excused' : j \in due \/ (Claimed(j) /\ Marked(disk, j) /\ Marked(svc[s].mem, j)) =>
               Marked(disk', j) /\ Marked(svc'[s].mem, j)
          /\ \A j \in Jobs :
               /\ j \in DOMAIN svc'[s].mem <=> j \in DOMAIN disk'
               /\ j \in DOMAIN disk' /\ (disk'[j].running # 0 \/ svc'[s].mem[j].running # 0) =>
                    j \in due \/ Claimed(j)
    BY <1>11, <2>1 DEF mem
  <2>7. UNCHANGED << now, manual, known, edits, reloads, errors, overlaps >>
    BY <1>2
  <2> QED
    BY <1>3, <1>8, <1>9, <1>10, <2>3, <2>4, <2>5, <2>6, <2>7 DEF ClaimsBatch
<1> QED
  BY <1>3, <1>12, ClaimsBatchKeeps

\* A start or a tick of service s applies the results of its batch.
SettlesBatch(s, b) ==
  /\ s \in Alive /\ Settles(s, b)
  /\ UNCHANGED << now, manual, known, edits, reloads, errors, overlaps >>
  /\ excused \subseteq excused' /\ excused' \subseteq Jobs
  /\ disk' \in Stores /\ Timed(disk') /\ DOMAIN disk' \subseteq known
  /\ svc' \in [Services -> ServiceState] /\ \A r \in Services \ {s} : svc'[r] = svc[r]
  /\ Timed(svc'[s].mem) /\ DOMAIN svc'[s].mem \subseteq known
  /\ \/ b = "tick" /\ svc'[s].phase = svc[s].phase
     \/ b = "startup" /\ svc[s].phase = "catchup" /\ svc'[s].phase = "arm" /\ (svc[s].ticking => svc'[s].ticking)
  /\ svc'[s].phase = "on" /\ Armed(svc'[s].mem) => svc'[s].timer
  /\ overlaps = 0 =>
       /\ s = Cur
       /\ \A j \in Jobs \ excused' : batch[s][b][j].stage = "none" /\ Claimed(j) /\ Marked(disk, j) =>
            Marked(disk', j) /\ Marked(svc'[s].mem, j)
       /\ svc[s].phase # "boot" => \A j \in Jobs :
            /\ j \in DOMAIN svc'[s].mem <=> j \in DOMAIN disk'
            /\ j \in DOMAIN disk' /\ (disk'[j].running # 0 \/ svc'[s].mem[j].running # 0) =>
                 batch[s][b][j].stage = "none" /\ Claimed(j)

LEMMA SettlesBatchKeeps ==
  ASSUME IInv, NEW s \in Services, NEW b \in Batches, SettlesBatch(s, b)
  PROVE  IInv'
<1> USE DEF SettlesBatch
<1>1. Types
  BY DEF IInv
<1>2. batch \in [Services -> [Batches -> [Jobs -> Run]]] /\ Settles(s, b)
  BY <1>1 DEF Types
<1>3. /\ batch' \in [Services -> [Batches -> [Jobs -> Run]]]
      /\ \A r \in Services, c \in Batches, j \in Jobs :
           batch'[r][c][j].stage = IF r = s /\ c = b THEN "none" ELSE batch[r][c][j].stage
  BY ONLY <1>2, s \in Services, b \in Batches, BatchSettles
<1>4. \A j \in Jobs :
        /\ Claimed(j)' => Claimed(j)
        /\ OneClaim(j) => OneClaim(j)'
        /\ batch[s][b][j].stage # "none" /\ OneClaim(j) => ~Claimed(j)'
        /\ batch[s][b][j].stage = "none" => (Claimed(j)' <=> Claimed(j))
  BY ONLY <1>2, s \in Services, b \in Batches, BatchSettles
<1>5. Types'
  BY <1>1, <1>3 DEF Types
<1>6. Acts(s)
  BY DEF Acts
<1>7. /\ Started' = Started /\ Alive' = Alive /\ Cur' = Cur
      /\ \A r \in Services : svc[r].phase # "boot" => svc'[r].phase # "boot"
  BY <1>6, ActsServices
<1>8. Owners'
  <2>1. Owners /\ \A r \in Services : r # s => svc'[r] = svc[r]
    BY DEF IInv
  <2>2. \A r \in Services, j \in Jobs :
          /\ batch'[r]["startup"][j].stage # "none" => svc'[r].phase = "catchup"
          /\ batch'[r]["tick"][j].stage # "none" => svc'[r].ticking
    <3> SUFFICES ASSUME NEW r \in Services, NEW j \in Jobs
                 PROVE  /\ batch'[r]["startup"][j].stage # "none" => svc'[r].phase = "catchup"
                        /\ batch'[r]["tick"][j].stage # "none" => svc'[r].ticking
      OBVIOUS
    <3>1. /\ batch[r]["startup"][j].stage # "none" => svc[r].phase = "catchup"
          /\ batch[r]["tick"][j].stage # "none" => svc[r].ticking
      BY <2>1 DEF Owners
    <3>2. \A c \in Batches : batch'[r][c][j].stage # "none" =>
            batch[r][c][j].stage # "none" /\ ~(r = s /\ c = b)
      BY <1>3
    <3>3. "startup" \in Batches /\ "tick" \in Batches /\ "startup" # "tick"
      BY DEF Batches
    <3>4. r # s => svc'[r] = svc[r]
      BY <2>1
    <3>5. \/ b = "tick" /\ svc'[s].phase = svc[s].phase
          \/ b = "startup" /\ (svc[s].ticking => svc'[s].ticking)
      OBVIOUS
    <3> QED
      BY ONLY <3>1, <3>2, <3>3, <3>4, <3>5
  <2>3. /\ \A r \in Services \ Alive : ~svc'[r].timer /\ ~svc'[r].ticking
        /\ \A r \in Services \ Started : DOMAIN svc'[r].mem = {}
    BY <2>1 DEF Owners, Alive
  <2>4. \A m \in AtWork : /\ manual[m].svc \in Alive /\ svc'[manual[m].svc].phase # "boot"
                          /\ manual[m].job \in Jobs /\ manual[m].at # 0
    <3>1. \A r \in Alive : r \in Services
      BY DEF Alive, Started
    <3> QED
      BY <1>7, <2>1, <3>1 DEF Owners
  <2> QED
    BY <1>7, <2>2, <2>3, <2>4 DEF Owners, AtWork
<1>9. ASSUME overlaps = 0
      PROVE  /\ s = Cur /\ (\A m \in AtWork' : manual'[m].svc = s)
             /\ \A j \in Jobs : ClaimIsMarked(j)' /\ MarkIsClaimed(j)'
  <2>1. s = Cur /\ Cur' = Cur /\ Alive # {}
    BY <1>7, <1>9
  <2>2. OldOnesAreQuiet /\ \A j \in Jobs : ClaimIsMarked(j) /\ MarkIsClaimed(j)
    BY <1>9 DEF IInv, WithoutOverlaps, Alive
  <2>3. ASSUME NEW j \in Jobs PROVE ClaimIsMarked(j)'
    <3>1. j \notin excused' => OneClaim(j) /\ OneClaim(j)'
      BY <1>4, <2>2 DEF ClaimIsMarked
    <3>2. j \notin excused' /\ Claimed(j)' => batch[s][b][j].stage = "none" /\ Claimed(j) /\ Marked(disk, j)
      BY <1>4, <2>2, <3>1 DEF ClaimIsMarked
    <3>3. j \notin excused' /\ Claimed(j)' => Marked(disk', j) /\ Marked(svc'[s].mem, j)
      BY <1>9, <3>2
    <3> QED
      BY <2>1, <3>1, <3>3 DEF ClaimIsMarked, Marked
  <2>4. ASSUME NEW j \in Jobs PROVE MarkIsClaimed(j)'
    <3>1. svc'[s].phase # "boot" => svc[s].phase # "boot"
      OBVIOUS
    <3>2. svc'[s].phase # "boot" =>
            /\ j \in DOMAIN svc'[s].mem <=> j \in DOMAIN disk'
            /\ j \in DOMAIN disk' /\ (disk'[j].running # 0 \/ svc'[s].mem[j].running # 0) => Claimed(j)'
      BY <1>4, <1>9, <3>1
    <3> QED
      BY <2>1, <3>2 DEF MarkIsClaimed
  <2>5. \A m \in AtWork' : manual'[m].svc = s
    BY <2>1, <2>2 DEF OldOnesAreQuiet, AtWork
  <2> QED
    BY <2>1, <2>3, <2>4, <2>5
<1>10. DOMAIN disk' \subseteq known' /\ DOMAIN svc'[s].mem \subseteq known'
  OBVIOUS
<1> QED
  BY <1>4, <1>5, <1>6, <1>8, <1>9, <1>10, ActsKeeps

LEMMA ApplyTickStep ==
  ASSUME IInv, NEW s \in Services, ApplyTick(s)
  PROVE  IInv'
<1> DEFINE runs == batch[s]["tick"]
           settled == Settled(disk, runs, now)
           jobs == Maintained(settled, now, FALSE)
           x == [svc[s] EXCEPT !.mem = jobs, !.ticking = FALSE, !.fresh = FALSE, !.timer = Armed(jobs)]
<1>1. /\ Types /\ disk \in Stores /\ now \in 1 .. MaxTime /\ svc[s] \in ServiceState /\ runs \in [Jobs -> Run]
      /\ DOMAIN disk \subseteq known /\ known \subseteq Jobs /\ excused \subseteq Jobs
  BY DEF IInv, Types, IdsAreKnown, Batches
<1>2. /\ svc[s].ticking /\ AllEnded(runs) /\ disk' = jobs /\ svc' = [svc EXCEPT ![s] = x]
      /\ Settles(s, "tick") /\ excused' = excused \cup Cleared(settled, jobs)
      /\ UNCHANGED << now, manual, known, edits, reloads, errors, overlaps >>
  BY DEF ApplyTick, Settles, counters
<1>3. s \in Alive /\ "tick" \in Batches
  BY <1>2 DEF IInv, Owners, Batches
<1> HIDE DEF runs
<1>4. /\ settled \in Stores /\ DOMAIN settled \subseteq DOMAIN disk
      /\ \A j \in DOMAIN settled : IF runs[j].stage = "none" THEN settled[j] = disk[j] ELSE settled[j].running = 0
  <2>1. \A j \in DOMAIN disk : runs[j].stage \in {"none", "ended"}
    BY <1>1, <1>2 DEF AllEnded
  <2> HIDE DEF settled
  <2> QED
    BY <1>1, <2>1, SettledStore DEF settled
<1>5. jobs \in Stores /\ Tidied(settled, jobs) /\ Timed(jobs)
  <2> HIDE DEF settled
  <2> QED
    BY <1>1, <1>4, MaintainedStore
<1> HIDE DEF settled, jobs
<1>6. /\ DOMAIN jobs = DOMAIN settled /\ DOMAIN jobs \subseteq known
      /\ excused \subseteq excused' /\ excused' \subseteq Jobs
  BY <1>1, <1>2, <1>4, <1>5 DEF Tidied, Cleared
<1>7. /\ x \in ServiceState /\ x.mem = jobs /\ x.phase = svc[s].phase /\ x.timer = Armed(jobs)
  <2>1. Armed(jobs) \in BOOLEAN
    BY DEF Armed
  <2> QED
    BY <1>1, <1>5, <2>1 DEF ServiceState
<1> HIDE DEF x
<1>8. svc' \in [Services -> ServiceState] /\ svc'[s] = x /\ \A r \in Services \ {s} : svc'[r] = svc[r]
  BY <1>1, <1>2, <1>7, ServiceChanges
<1>9. ASSUME overlaps = 0
      PROVE  /\ s = Cur
             /\ \A j \in Jobs \ excused' : runs[j].stage = "none" /\ Claimed(j) /\ Marked(disk, j) => Marked(jobs, j)
             /\ svc[s].phase # "boot" => \A j \in Jobs :
                  j \in DOMAIN jobs /\ jobs[j].running # 0 => runs[j].stage = "none" /\ Claimed(j)
  <2>1. s = Cur
    BY <1>2, <1>3, <1>9, OnlyCurActs
  <2>2. \A j \in Jobs : MarkIsClaimed(j)
    BY <1>3, <1>9 DEF IInv, WithoutOverlaps, Alive
  <2>3. \A j \in Jobs : runs[j].stage = "none" /\ Marked(disk, j) => Marked(settled, j)
    BY <1>4 DEF Marked
  <2>4. \A j \in Jobs \ excused' : Claimed(j) /\ Marked(settled, j) => Marked(jobs, j)
    BY <1>2, <1>5, TidyKeeps
  <2>5. \A j \in DOMAIN jobs : jobs[j].running # 0 => settled[j].running # 0
    BY <1>5, <1>6 DEF Tidied
  <2>6. svc[s].phase # "boot" => \A j \in Jobs :
          j \in DOMAIN jobs /\ jobs[j].running # 0 => runs[j].stage = "none" /\ Claimed(j)
    BY <1>3, <1>4, <1>6, <2>1, <2>2, <2>5 DEF MarkIsClaimed
  <2> QED
    BY <2>1, <2>3, <2>4, <2>6
<1>10. SettlesBatch(s, "tick")
  <2>1. svc'[s].mem = jobs /\ svc'[s].phase = svc[s].phase /\ svc'[s].timer = Armed(jobs)
    BY <1>7, <1>8
  <2> QED
    BY <1>2, <1>3, <1>5, <1>6, <1>8, <1>9, <2>1 DEF SettlesBatch, runs
<1> QED
  BY <1>3, <1>10, SettlesBatchKeeps

\* Jobs that are put off keep their markers.
PutOff(jobs, late, place(_)) ==
  [j \in DOMAIN jobs |-> IF j \in late THEN [jobs[j] EXCEPT !.next = now + Stagger * place(j)] ELSE jobs[j]]

LEMMA ApplyCatchupStep ==
  ASSUME IInv, NEW s \in Services, ApplyCatchup(s)
  PROVE  IInv'
<1> DEFINE runs == batch[s]["startup"]
           settled == Settled(disk, runs, now)
           late == { j \in DOMAIN settled : svc[s].deferred[j] # 0 /\ settled[j].enabled }
           place(j) == Cardinality({ i \in late : svc[s].deferred[i] <= svc[s].deferred[j] })
           jobs == PutOff(settled, late, place)
           kept == Maintained(jobs, now, FALSE)
           none == [j \in Jobs |-> 0]
           x == [svc[s] EXCEPT !.phase = "arm", !.mem = kept, !.fresh = FALSE, !.deferred = none]
<1>1. /\ Types /\ disk \in Stores /\ now \in 1 .. MaxTime /\ svc[s] \in ServiceState /\ runs \in [Jobs -> Run]
      /\ DOMAIN disk \subseteq known /\ known \subseteq Jobs /\ excused \subseteq Jobs
  BY DEF IInv, Types, IdsAreKnown, Batches
<1>2. /\ svc[s].phase = "catchup" /\ AllEnded(runs) /\ disk' = kept /\ svc' = [svc EXCEPT ![s] = x]
      /\ Settles(s, "startup") /\ excused' = excused \cup Cleared(jobs, kept)
      /\ UNCHANGED << now, manual, known, edits, reloads, errors, overlaps >>
  BY DEF ApplyCatchup, Settles, PutOff, counters
<1>3. s \in Alive /\ "startup" \in Batches
  BY <1>2 DEF Alive, Started, Batches
<1> HIDE DEF runs
<1>4. /\ settled \in Stores /\ DOMAIN settled \subseteq DOMAIN disk
      /\ \A j \in DOMAIN settled : IF runs[j].stage = "none" THEN settled[j] = disk[j] ELSE settled[j].running = 0
  <2>1. \A j \in DOMAIN disk : runs[j].stage \in {"none", "ended"}
    BY <1>1, <1>2 DEF AllEnded
  <2> HIDE DEF settled
  <2> QED
    BY <1>1, <2>1, SettledStore DEF settled
<1> HIDE DEF settled
<1>5. \A j \in DOMAIN settled : now + Stagger * place(j) \in 0 .. Horizon
  <2> SUFFICES ASSUME NEW j \in DOMAIN settled PROVE now + Stagger * place(j) \in 0 .. Horizon
    OBVIOUS
  <2>1. IsFiniteSet(Jobs) /\ Cardinality(Jobs) = NumJobs
    BY FS_Interval, Bounds DEF Jobs
  <2>2. { i \in late : svc[s].deferred[i] <= svc[s].deferred[j] } \subseteq Jobs
    BY <1>4, StoreElim
  <2>3. place(j) \in 0 .. NumJobs
    BY <2>1, <2>2, FS_Subset, FS_CardinalityType, Bounds
  <2> HIDE DEF place
  <2>4. Stagger * place(j) \in 0 .. Stagger * NumJobs
    <3>1. Stagger \in Nat /\ NumJobs \in Nat /\ place(j) \in Nat /\ NumJobs - place(j) \in Nat
      BY <2>3, Bounds
    <3>2. Stagger * (NumJobs - place(j)) \in Nat /\ Stagger * place(j) \in Nat
      BY <3>1
    <3>3. Stagger * NumJobs = Stagger * place(j) + Stagger * (NumJobs - place(j))
      BY <3>1
    <3> QED
      BY <3>2, <3>3, Bounds
  <2> QED
    BY <1>1, <2>4, Bounds
<1>6. /\ jobs \in Stores /\ DOMAIN jobs = DOMAIN settled
      /\ \A j \in DOMAIN settled : jobs[j].running = settled[j].running
  <2>1. /\ DOMAIN jobs = DOMAIN settled /\ jobs = [j \in DOMAIN settled |-> jobs[j]]
        /\ \A j \in DOMAIN settled :
             jobs[j] = IF j \in late THEN [settled[j] EXCEPT !.next = now + Stagger * place(j)] ELSE settled[j]
    BY DEF PutOff
  <2>2. DOMAIN settled \in SUBSET Jobs /\ \A j \in DOMAIN settled : settled[j] \in Job
    BY <1>4, StoreElim
  <2> HIDE DEF jobs, late, place
  <2>3. \A j \in DOMAIN settled : jobs[j] \in Job /\ jobs[j].running = settled[j].running
    BY <1>5, <2>1, <2>2 DEF Job
  <2>4. jobs \in [DOMAIN settled -> Job]
    BY <2>1, <2>3
  <2> QED
    BY <2>1, <2>2, <2>3, <2>4, StoreIntro
<1> HIDE DEF jobs, late, place
<1>7. kept \in Stores /\ Tidied(jobs, kept) /\ Timed(kept)
  BY <1>1, <1>6, MaintainedStore
<1> HIDE DEF kept
<1>8. /\ DOMAIN kept = DOMAIN settled /\ DOMAIN kept \subseteq known
      /\ excused \subseteq excused' /\ excused' \subseteq Jobs
  BY <1>1, <1>2, <1>4, <1>6, <1>7 DEF Tidied, Cleared
<1>9. /\ x \in ServiceState /\ x.mem = kept /\ x.phase = "arm" /\ x.ticking = svc[s].ticking
  <2>1. none \in [Jobs -> 0 .. NumJobs]
    BY Bounds
  <2> HIDE DEF none
  <2> QED
    BY <1>1, <1>7, <2>1 DEF ServiceState
<1> HIDE DEF x
<1>10. svc' \in [Services -> ServiceState] /\ svc'[s] = x /\ \A r \in Services \ {s} : svc'[r] = svc[r]
  BY <1>1, <1>2, <1>9, ServiceChanges
<1>11. ASSUME overlaps = 0
       PROVE  /\ s = Cur
              /\ \A j \in Jobs \ excused' : runs[j].stage = "none" /\ Claimed(j) /\ Marked(disk, j) => Marked(kept, j)
              /\ \A j \in Jobs : j \in DOMAIN kept /\ kept[j].running # 0 => runs[j].stage = "none" /\ Claimed(j)
  <2>1. s = Cur
    BY <1>2, <1>3, <1>11, OnlyCurActs
  <2>2. \A j \in Jobs : MarkIsClaimed(j)
    BY <1>3, <1>11 DEF IInv, WithoutOverlaps, Alive
  <2>3. \A j \in Jobs : runs[j].stage = "none" /\ Marked(disk, j) => Marked(jobs, j)
    BY <1>4, <1>6 DEF Marked
  <2>4. \A j \in Jobs \ excused' : Claimed(j) /\ Marked(jobs, j) => Marked(kept, j)
    BY <1>2, <1>7, TidyKeeps
  <2>5. \A j \in DOMAIN kept : kept[j].running # 0 => settled[j].running # 0
    BY <1>6, <1>7, <1>8 DEF Tidied
  <2>6. \A j \in Jobs : j \in DOMAIN kept /\ kept[j].running # 0 => runs[j].stage = "none" /\ Claimed(j)
    BY <1>2, <1>3, <1>4, <1>8, <2>1, <2>2, <2>5 DEF MarkIsClaimed
  <2> QED
    BY <2>1, <2>3, <2>4, <2>6
<1>12. SettlesBatch(s, "startup")
  <2>1. svc'[s].mem = kept /\ svc'[s].phase = "arm" /\ svc'[s].ticking = svc[s].ticking
    BY <1>9, <1>10
  <2> QED
    BY <1>2, <1>3, <1>7, <1>8, <1>10, <1>11, <2>1 DEF SettlesBatch, runs
<1> QED
  BY <1>3, <1>12, SettlesBatchKeeps

-----------------------------------------------------------------------------
(* Services come and go.                                                   *)

\* Where nobody works nothing is claimed.
LEMMA NoWorkNoClaim ==
  ASSUME Owners, AtWork = {}, NEW j \in Jobs,
         \A s \in Services : svc[s].phase # "catchup" /\ ~svc[s].ticking
  PROVE  ~Claimed(j) /\ OneClaim(j)
<1>1. BatchRuns(j) = {}
  <2> SUFFICES ASSUME NEW r \in Services \X Batches, batch[r[1]][r[2]][j].stage # "none"
               PROVE  FALSE
    BY DEF BatchRuns
  <2>1. r[1] \in Services /\ r[2] \in {"startup", "tick"}
    BY DEF Batches
  <2> QED
    BY <2>1 DEF Owners
<1>2. ManualRuns(j) = {}
  BY DEF AtWork, ManualRuns
<1> QED
  BY <1>1, <1>2 DEF Claimed, OneClaim

\* A service is built, by a boot or a reload.
StartsService(s) ==
  /\ s = Cardinality(Started) + 1
  /\ UNCHANGED << now, disk, batch, manual, known, edits, errors, excused >>
  /\ reloads' \in 0 .. MaxReloads /\ overlaps' \in 0 .. MaxOverlaps
  /\ svc' \in [Services -> ServiceState] /\ svc'[s].phase = "boot" /\ svc'[s].mem = svc[s].mem
  /\ \A r \in Services \ {s} :
       /\ svc'[r].phase = svc[r].phase /\ svc'[r].mem = svc[r].mem /\ svc'[r].ticking = svc[r].ticking
       /\ svc'[r].timer => svc[r].timer
  /\ overlaps' = 0 =>
       /\ AtWork = {}
       /\ \A r \in Started : svc[r].phase \in {"on", "dead"} /\ ~svc'[r].timer /\ ~svc[r].ticking

LEMMA StartsServiceKeeps ==
  ASSUME IInv, NEW s \in Services, StartsService(s)
  PROVE  IInv'
<1> USE DEF StartsService
<1>1. Types /\ Owners
  BY DEF IInv
<1>2. Types'
  BY <1>1 DEF Types
<1> PICK k \in 0 .. MaxServices : Started = 1 .. k
  BY DEF IInv, ServicesInOrder
<1>3. s = k + 1 /\ k \in Nat /\ s \notin Started /\ k + 1 \in 0 .. MaxServices
  <2>1. s = k + 1 /\ k \in Nat /\ s \notin Started
    BY NextIsNew
  <2> QED
    BY <2>1, Bounds DEF Services
<1>4. Started' = Started \cup {s} /\ Started' = 1 .. k + 1
  <2>1. Started' = Started \cup {s}
    <3>1. \A r \in Services \ {s} : svc'[r].phase = svc[r].phase
      OBVIOUS
    <3>2. svc'[s].phase # "none"
      OBVIOUS
    <3> QED
      BY ONLY <3>1, <3>2, s \in Services DEF Started
  <2> QED
    BY <1>3, <2>1
<1>5. Cur' = s /\ s \in Alive' /\ Alive' = Alive \cup {s}
  <2>1. Cur' = s
    BY <1>3, <1>4 DEF Cur, Max
  <2> QED
    BY <1>4, <2>1 DEF Alive, Started
<1>6. ServicesInOrder' /\ CurIsAlive'
  BY <1>3, <1>4, <1>5 DEF ServicesInOrder, CurIsAlive
<1>7. svc[s].phase = "none" /\ s \notin Alive
  BY <1>3 DEF Started, Alive
<1>8. Owners'
  <2>1. \A r \in Services, j \in Jobs :
          /\ batch[r]["startup"][j].stage # "none" => svc'[r].phase = "catchup"
          /\ batch[r]["tick"][j].stage # "none" => svc'[r].ticking
    <3>1. ~svc[s].ticking
      BY <1>1, <1>7 DEF Owners
    <3>2. \A j \in Jobs : batch[s]["startup"][j].stage = "none" /\ batch[s]["tick"][j].stage = "none"
      BY <1>1, <1>7, <3>1 DEF Owners
    <3>3. \A r \in Services \ {s} : svc'[r].phase = svc[r].phase /\ svc'[r].ticking = svc[r].ticking
      OBVIOUS
    <3>4. \A r \in Services, j \in Jobs :
            /\ batch[r]["startup"][j].stage # "none" => svc[r].phase = "catchup"
            /\ batch[r]["tick"][j].stage # "none" => svc[r].ticking
      BY <1>1 DEF Owners
    <3> SUFFICES ASSUME NEW r \in Services, NEW j \in Jobs
                 PROVE  /\ batch[r]["startup"][j].stage # "none" => svc'[r].phase = "catchup"
                        /\ batch[r]["tick"][j].stage # "none" => svc'[r].ticking
      OBVIOUS
    <3>5. CASE r = s
      BY <3>2, <3>5
    <3>6. CASE r # s
      BY ONLY r \in Services, j \in Jobs, <3>3, <3>4, <3>6
    <3> QED
      BY <3>5, <3>6
  <2>2. \A r \in Services \ Alive' : ~svc'[r].timer /\ ~svc'[r].ticking
    BY <1>1, <1>5 DEF Owners
  <2>3. \A r \in Services \ Started' : DOMAIN svc'[r].mem = {}
    BY <1>1, <1>4 DEF Owners
  <2>4. \A m \in AtWork : /\ manual[m].svc \in Alive' /\ svc'[manual[m].svc].phase # "boot"
                          /\ manual[m].job \in Jobs /\ manual[m].at # 0
    <3> SUFFICES ASSUME NEW m \in AtWork
                 PROVE  /\ manual[m].svc \in Alive' /\ svc'[manual[m].svc].phase # "boot"
                        /\ manual[m].job \in Jobs /\ manual[m].at # 0
      OBVIOUS
    <3>1. /\ manual[m].svc \in Alive /\ svc[manual[m].svc].phase # "boot"
          /\ manual[m].job \in Jobs /\ manual[m].at # 0
      BY <1>1 DEF Owners
    <3>2. manual[m].svc \in Services \ {s}
      BY <1>7, <3>1 DEF Alive, Started
    <3>3. svc'[manual[m].svc].phase = svc[manual[m].svc].phase
      BY <3>2
    <3> QED
      BY <1>5, <3>1, <3>3
  <2> QED
    BY <2>1, <2>2, <2>3, <2>4 DEF Owners, AtWork
<1>9. \A r \in Services : svc'[r].mem = svc[r].mem
  OBVIOUS
<1>10. \A j \in Jobs : (Claimed(j)' <=> Claimed(j)) /\ (OneClaim(j)' <=> OneClaim(j))
  BY SameClaims
<1>11. IdsAreKnown' /\ AllTimed'
  BY <1>9, <1>10 DEF IInv, IdsAreKnown, AllTimed, Timed
<1>12. TimerIsSet'
  BY <1>5 DEF TimerIsSet
<1>13. WithoutOverlaps'
  <2> SUFFICES ASSUME overlaps' = 0
               PROVE  OldOnesAreQuiet' /\ \A j \in Jobs : ClaimIsMarked(j)' /\ MarkIsClaimed(j)'
    BY DEF WithoutOverlaps
  <2>1. OldOnesAreQuiet'
    <3>1. \A r \in Started : r \in Services /\ r # s
      BY <1>3 DEF Started
    <3> QED
      BY <1>4, <1>5, <3>1 DEF OldOnesAreQuiet, AtWork
  <2>2. \A r \in Services : svc[r].phase # "catchup" /\ ~svc[r].ticking
    BY <1>1 DEF Started, Alive, Owners
  <2>3. \A j \in Jobs : ~Claimed(j) /\ OneClaim(j)
    BY <1>1, <2>2, NoWorkNoClaim
  <2>4. \A j \in Jobs : ClaimIsMarked(j)' /\ MarkIsClaimed(j)'
    BY <1>5, <1>10, <2>3 DEF ClaimIsMarked, MarkIsClaimed
  <2> QED
    BY <2>1, <2>4
<1> QED
  BY <1>2, <1>6, <1>8, <1>11, <1>12, <1>13 DEF IInv

LEMMA BootStep ==
  ASSUME IInv, NEW s \in Services, Boot(s)
  PROVE  IInv'
<1> DEFINE x == [svc[s] EXCEPT !.phase = "boot"]
<1>1. /\ Alive = {} /\ s = Cardinality(Started) + 1 /\ svc' = [svc EXCEPT ![s] = x]
      /\ UNCHANGED << now, disk, batch, manual, known, edits, reloads, errors, excused, overlaps >>
  BY DEF Boot, counters, history
<1>2. Types /\ svc[s] \in ServiceState
  BY DEF IInv, Types
<1>3. x \in ServiceState /\ x.phase = "boot" /\ x.mem = svc[s].mem
  BY <1>2 DEF ServiceState
<1> HIDE DEF x
<1>4. svc' \in [Services -> ServiceState] /\ svc'[s] = x /\ \A r \in Services \ {s} : svc'[r] = svc[r]
  BY <1>1, <1>2, <1>3, ServiceChanges
<1>5. s \notin Started
  <2>1. PICK k \in 0 .. MaxServices : Started = 1 .. k
    BY DEF IInv, ServicesInOrder
  <2> QED
    BY <1>1, <2>1, NextIsNew
<1>6. AtWork = {} /\ \A r \in Started : svc[r].phase \in {"on", "dead"} /\ ~svc'[r].timer /\ ~svc[r].ticking
  <2>1. AtWork = {}
    BY <1>1 DEF IInv, Owners
  <2>2. \A r \in Started : r \in Services \ {s} /\ svc[r].phase = "dead" /\ ~svc[r].timer /\ ~svc[r].ticking
    BY <1>1, <1>5 DEF IInv, Owners, Alive, Started
  <2> QED
    BY <1>4, <2>1, <2>2
<1>7. StartsService(s)
  <2>1. reloads' \in 0 .. MaxReloads /\ overlaps' \in 0 .. MaxOverlaps
    BY <1>1, <1>2 DEF Types
  <2> QED
    BY <1>1, <1>3, <1>4, <1>6, <2>1 DEF StartsService
<1> QED
  BY <1>7, StartsServiceKeeps

LEMMA ReloadStep ==
  ASSUME IInv, NEW s \in Services, Reload(s)
  PROVE  IInv'
<1>1. /\ Alive # {} /\ s = Cardinality(Started) + 1 /\ reloads < MaxReloads /\ reloads' = reloads + 1
      /\ svc' = [svc EXCEPT ![s].phase = "boot", ![Cur].timer = FALSE]
      /\ Busy(Cur) => overlaps < MaxOverlaps
      /\ overlaps' = (IF Busy(Cur) THEN overlaps + 1 ELSE overlaps)
      /\ UNCHANGED << now, disk, batch, manual, known, edits, errors, excused >>
  BY DEF Reload, Overlap
<1>2. Types /\ svc \in [Services -> ServiceState]
  BY DEF IInv, Types
<1>3. Cur \in Alive /\ Cur \in Started /\ Cur \in Services
  BY <1>1 DEF IInv, CurIsAlive, Alive, Started
<1>4. s \notin Started
  <2>1. PICK k \in 0 .. MaxServices : Started = 1 .. k
    BY DEF IInv, ServicesInOrder
  <2> QED
    BY <1>1, <2>1, NextIsNew
<1> PICK c \in Services : c = Cur
  BY <1>3
<1> DEFINE x == [svc[s] EXCEPT !.phase = "boot"]
           y == [svc[c] EXCEPT !.timer = FALSE]
<1>5. s # c /\ x \in ServiceState /\ x.phase = "boot" /\ x.mem = svc[s].mem
      /\ y \in ServiceState /\ y.phase = svc[c].phase /\ y.mem = svc[c].mem
      /\ y.ticking = svc[c].ticking /\ ~y.timer
  <2>1. s # c /\ svc[s] \in ServiceState /\ svc[c] \in ServiceState
    BY <1>2, <1>3, <1>4
  <2> QED
    BY <2>1 DEF ServiceState
<1>6. /\ svc' \in [Services -> ServiceState] /\ svc'[s] = x /\ svc'[c] = y
      /\ \A r \in Services \ {s, c} : svc'[r] = svc[r]
  BY <1>1, <1>2, <1>5
<1> HIDE DEF x, y
<1>7. ASSUME overlaps' = 0
      PROVE  /\ AtWork = {}
             /\ \A r \in Started : svc[r].phase \in {"on", "dead"} /\ ~svc'[r].timer /\ ~svc[r].ticking
  <2>1. overlaps = 0 /\ ~Busy(c)
    BY <1>1, <1>2, <1>7 DEF Types
  <2>2. OldOnesAreQuiet
    BY <1>3, <2>1 DEF IInv, WithoutOverlaps
  <2>3. AtWork = {}
    BY <2>1, <2>2 DEF OldOnesAreQuiet, AtWork, Busy
  <2>4. ASSUME NEW r \in Started
        PROVE  svc[r].phase \in {"on", "dead"} /\ ~svc'[r].timer /\ ~svc[r].ticking
    <3>1. CASE r = c
      BY <1>5, <1>6, <2>1, <3>1 DEF Busy
    <3>2. CASE r # c
      <4>1. r \in Services \ {s, c}
        BY <1>4, <3>2 DEF Started
      <4> QED
        BY <1>6, <2>2, <3>2, <4>1 DEF OldOnesAreQuiet
    <3> QED
      BY <3>1, <3>2
  <2> QED
    BY <2>3, <2>4
<1>8. StartsService(s)
  <2>1. reloads' \in 0 .. MaxReloads /\ overlaps' \in 0 .. MaxOverlaps
    BY <1>1, <1>2, Bounds DEF Types
  <2>2. \A r \in Services \ {s} :
          /\ svc'[r].phase = svc[r].phase /\ svc'[r].mem = svc[r].mem /\ svc'[r].ticking = svc[r].ticking
          /\ svc'[r].timer => svc[r].timer
    BY <1>5, <1>6
  <2> QED
    BY <1>1, <1>5, <1>6, <1>7, <2>1, <2>2 DEF StartsService
<1> QED
  BY <1>8, StartsServiceKeeps

LEMMA NoServices ==
  /\ NoService \in ServiceState /\ NoService.phase = "none" /\ DOMAIN NoService.mem = {}
  /\ ~NoService.timer /\ ~NoService.ticking
<1>1. << >> \in Stores /\ DOMAIN << >> = {}
  <2>1. DOMAIN << >> = {} /\ << >> \in [{} -> Job]
    OBVIOUS
  <2> QED
    BY <2>1, StoreIntro
<1>2. [j \in Jobs |-> 0] \in [Jobs -> 0 .. NumJobs]
  BY Bounds
<1> QED
  BY <1>1, <1>2 DEF NoService, ServiceState

LEMMA NothingIsTimed ==
  ASSUME NEW jobs, DOMAIN jobs = {}
  PROVE  Timed(jobs)
BY DEF Timed

LEMMA CrashStep ==
  ASSUME IInv, Crash
  PROVE  IInv'
<1> DEFINE dead == [NoService EXCEPT !.phase = "dead"]
           over == [NoManual EXCEPT !.stage = "over"]
<1>1. /\ Alive # {}
      /\ svc' = [s \in Services |-> IF s \in Started THEN dead ELSE svc[s]]
      /\ batch' = [s \in Services |-> [b \in Batches |-> Idle]]
      /\ manual' = [m \in Manuals |-> IF manual[m].stage = "new" THEN manual[m] ELSE over]
      /\ UNCHANGED << now, disk, known, edits, reloads, errors, excused, overlaps >>
  BY DEF Crash, counters, history
<1>2. Types
  BY DEF IInv
<1>3. /\ dead \in ServiceState /\ dead.phase = "dead" /\ DOMAIN dead.mem = {}
      /\ ~dead.timer /\ ~dead.ticking
  BY NoServices DEF ServiceState
<1>4. over \in ManualState /\ over.stage = "over" /\ Idle \in [Jobs -> Run] /\ \A j \in Jobs : Idle[j].stage = "none"
  BY NoRuns DEF Idle
<1> HIDE DEF dead, over
<1>5. /\ svc' \in [Services -> ServiceState] /\ \A s \in Started : s \in Services /\ svc'[s] = dead
      /\ \A s \in Services \ Started : svc'[s] = svc[s] /\ svc[s].phase = "none"
  BY <1>1, <1>2, <1>3 DEF Types, Started
<1>6. /\ batch' \in [Services -> [Batches -> [Jobs -> Run]]]
      /\ \A s \in Services, b \in Batches, j \in Jobs : batch'[s][b][j].stage = "none"
  BY <1>1, <1>4
<1>7. manual' \in [Manuals -> ManualState] /\ AtWork' = {}
  <2>1. manual' \in [Manuals -> ManualState]
    BY <1>1, <1>2, <1>4 DEF Types
  <2>2. \A m \in Manuals : manual'[m].stage \in {"new", "over"}
    BY <1>1, <1>4
  <2> QED
    BY <2>1, <2>2 DEF AtWork
<1>8. Types'
  BY <1>1, <1>2, <1>5, <1>6, <1>7 DEF Types
<1>9. Started' = Started /\ Alive' = {} /\ Cur' = Cur
  <2>1. Started' = Started
    BY <1>3, <1>5 DEF Started
  <2> QED
    BY <1>3, <1>5, <2>1 DEF Alive, Cur
<1>10. ServicesInOrder' /\ CurIsAlive'
  BY <1>9 DEF IInv, ServicesInOrder, CurIsAlive
<1>11. Owners'
  <2>1. \A s \in Services : ~svc'[s].timer /\ ~svc'[s].ticking
    BY <1>3, <1>5 DEF IInv, Owners, Alive
  <2>2. \A s \in Services \ Started : DOMAIN svc'[s].mem = {}
    BY <1>5 DEF IInv, Owners
  <2> QED
    BY <1>6, <1>7, <1>9, <2>1, <2>2 DEF Owners, Batches
<1>12. \A j \in Jobs : ~Claimed(j)' /\ OneClaim(j)'
  <2>1. \A j \in Jobs : BatchRuns(j)' = {} /\ ManualRuns(j)' = {}
    BY <1>6, <1>7 DEF BatchRuns, ManualRuns, AtWork
  <2> QED
    BY <2>1 DEF Claimed, OneClaim
<1>13. IdsAreKnown'
  BY <1>1, <1>3, <1>5, <1>12 DEF IInv, IdsAreKnown
<1>14. AllTimed'
  <2>1. \A s \in Services : Timed(svc'[s].mem)
    <3>1. \A s \in Started : Timed(svc'[s].mem)
      BY <1>3, <1>5, NothingIsTimed
    <3>2. \A s \in Services \ Started : Timed(svc'[s].mem)
      BY <1>5 DEF IInv, AllTimed
    <3> QED
      BY <3>1, <3>2
  <2>2. Timed(disk)
    BY DEF IInv, AllTimed
  <2> QED
    BY <1>1, <2>1, <2>2 DEF AllTimed, Timed
<1>15. TimerIsSet'
  BY <1>3, <1>5, <1>9 DEF TimerIsSet
<1>16. WithoutOverlaps'
  <2>1. OldOnesAreQuiet'
    BY <1>3, <1>5, <1>7, <1>9 DEF OldOnesAreQuiet
  <2>2. \A j \in Jobs : ClaimIsMarked(j)' /\ MarkIsClaimed(j)'
    BY <1>9, <1>12 DEF ClaimIsMarked, MarkIsClaimed
  <2> QED
    BY <2>1, <2>2 DEF WithoutOverlaps
<1> QED
  BY <1>8, <1>10, <1>11, <1>13, <1>14, <1>15, <1>16 DEF IInv

-----------------------------------------------------------------------------
(* Every state.                                                            *)

LEMMA InitIInv ==
  ASSUME Init
  PROVE  IInv
<1>1. PICK late \in SUBSET InitialJobs :
        disk = [j \in InitialJobs |-> [NewJob(j, 1) EXCEPT !.next = IF j \in late THEN 1 ELSE @]]
  BY DEF Init
<1>2. InitialJobs \in SUBSET Jobs /\ 1 \in 1 .. MaxTime /\ 1 \in 0 .. Horizon
  <2>1. InitialJobs \in SUBSET Jobs
    BY ConstantsAssumption
  <2> QED
    BY <2>1, Bounds
<1>3. \A j \in InitialJobs : disk[j] \in Job /\ disk[j].next # 0
  <2> SUFFICES ASSUME NEW j \in InitialJobs PROVE disk[j] \in Job /\ disk[j].next # 0
    OBVIOUS
  <2>1. NewJob(j, 1) \in Job /\ NewJob(j, 1).next # 0
    BY <1>2, NewJobs
  <2>2. disk[j] = [NewJob(j, 1) EXCEPT !.next = 1] \/ disk[j] = [NewJob(j, 1) EXCEPT !.next = NewJob(j, 1).next]
    BY <1>1
  <2> QED
    BY <1>2, <2>1, <2>2 DEF Job
<1>4. disk \in Stores /\ DOMAIN disk = InitialJobs /\ Timed(disk)
  <2>1. DOMAIN disk = InitialJobs /\ disk \in [InitialJobs -> Job]
    BY <1>1, <1>3
  <2>2. Timed(disk)
    BY <1>3, <2>1 DEF Timed
  <2> QED
    BY <1>2, <2>1, <2>2, StoreIntro
<1>5. /\ now = 1 /\ svc = [s \in Services |-> NoService] /\ known = InitialJobs
      /\ batch = [s \in Services |-> [b \in Batches |-> Idle]] /\ manual = [m \in Manuals |-> NoManual]
      /\ edits = 0 /\ reloads = 0 /\ errors = 0 /\ excused = {} /\ overlaps = 0
  BY DEF Init
<1>6. Types
  <2>1. /\ svc \in [Services -> ServiceState] /\ manual \in [Manuals -> ManualState]
        /\ batch \in [Services -> [Batches -> [Jobs -> Run]]]
    BY <1>5, NoServices, NoRuns
  <2> QED
    BY <1>2, <1>4, <1>5, <2>1, Bounds DEF Types
<1>7. Started = {} /\ Alive = {}
  BY <1>5, NoServices DEF Started, Alive
<1>8. ServicesInOrder /\ CurIsAlive
  <2>1. 0 \in 0 .. MaxServices /\ Started = 1 .. 0
    BY <1>7, Bounds
  <2> QED
    BY <1>7, <2>1 DEF ServicesInOrder, CurIsAlive
<1>9. AtWork = {} /\ \A s \in Services, b \in Batches, j \in Jobs : batch[s][b][j].stage = "none"
  BY <1>5, NoRuns DEF AtWork, NoManual, Idle
<1>10. Owners
  BY <1>5, <1>7, <1>9, NoServices DEF Owners, Batches
<1>11. \A j \in Jobs : ~Claimed(j)
  BY <1>9 DEF Claimed, BatchRuns, ManualRuns, AtWork
<1>12. IdsAreKnown
  BY <1>4, <1>5, <1>11, NoServices DEF IdsAreKnown
<1>13. AllTimed
  BY <1>4, <1>5, NoServices, NothingIsTimed DEF AllTimed
<1>14. TimerIsSet /\ WithoutOverlaps
  BY <1>7 DEF TimerIsSet, WithoutOverlaps
<1> QED
  BY <1>6, <1>8, <1>10, <1>12, <1>13, <1>14 DEF IInv

LEMMA NextIInv ==
  ASSUME IInv, [Next]_vars
  PROVE  IInv'
<1>1. ASSUME NEW s \in Services,
             \/ Boot(s) \/ Reload(s) \/ Starting(s) \/ OnTimer(s) \/ ApplyTick(s) \/ Working(s) \/ Request(s)
      PROVE  IInv'
  <2>1. CASE Boot(s) \/ Reload(s)
    BY <2>1, BootStep, ReloadStep
  <2>2. CASE Starting(s)
    BY <2>2, ClearMarkersStep, PlanCatchupStep, ApplyCatchupStep, ArmStep DEF Starting
  <2>3. CASE OnTimer(s) \/ ApplyTick(s)
    BY <2>3, OnTimerStep, ApplyTickStep
  <2>4. CASE Working(s)
    BY <2>4, BeginRunStep, EndRunStep DEF Working
  <2>5. CASE Request(s)
    BY <2>5, ReadStep, LookStep, AddStep, RemoveStep, UpdateStep, InspectStep DEF Request
  <2> QED
    BY <1>1, <2>1, <2>2, <2>3, <2>4, <2>5
<1>2. ASSUME NEW m \in Manuals, Manually(m)
      PROVE  IInv'
  BY <1>2, ReserveStep, EndManualStep, FinishManualStep DEF Manually
<1>3. ASSUME UNCHANGED vars
      PROVE  IInv'
  <2>1. UNCHANGED << now, disk, svc, batch, manual, known, edits, reloads, errors, excused, overlaps >>
    BY <1>3 DEF vars, store, counters, history
  <2>2. Types'
    BY <2>1 DEF IInv, Types
  <2> QED
    BY <2>1, <2>2, StillKeeps DEF AtWork
<1> QED
  BY <1>1, <1>2, <1>3, TickStep, CrashStep DEF Next

\* The invariant holds in every state: what the services hold of the jobs agrees with
\* what they have claimed, as long as the work of services does not overlap.
THEOREM Invariance == Spec => []IInv
<1> QED
  BY InitIInv, NextIInv, PTL DEF Spec

\* onTimer, planStartupCatchup and prepareManualRun claim no job that is claimed: a job
\* is executed twice at once only after its marker was cleared under a run, or after
\* services overlapped: a reload found the old service at work, or a request reached a
\* service that had been replaced.
THEOREM OneRunOfAJob == Spec => []OneRunAtATime
<1>1. ASSUME IInv
      PROVE  OneRunAtATime
  <2> SUFFICES ASSUME NEW j \in Jobs, j \notin excused, overlaps = 0
               PROVE  ~(Executing(j) > 1)
    BY DEF OneRunAtATime
  <2> DEFINE B == { r \in BatchRuns(j) : batch[r[1]][r[2]][j].stage = "running" }
             M == { m \in ManualRuns(j) : manual[m].run.stage = "running" }
  <2>1. OneClaim(j)
    <3>1. CASE Started = {}
      <4>1. AtWork = {} /\ \A s \in Services : svc[s].phase # "catchup" /\ ~svc[s].ticking
        BY <1>1, <3>1 DEF IInv, Owners, Alive, Started
      <4> QED
        BY <1>1, <4>1, NoWorkNoClaim DEF IInv
    <3>2. CASE Started # {}
      BY <1>1, <3>2 DEF IInv, WithoutOverlaps, ClaimIsMarked
    <3> QED
      BY <3>1, <3>2
  <2>2. B = {} \/ \E r : B = {r}
    BY <2>1 DEF OneClaim
  <2>3. M = {} \/ \E m : M = {m}
    BY <2>1 DEF OneClaim
  <2>4. B = {} \/ M = {}
    BY <2>1 DEF OneClaim
  <2>5. Executing(j) = Cardinality(B) + Cardinality(M)
    BY DEF Executing
  <2> HIDE DEF B, M
  <2>6. /\ Cardinality(B) \in 0 .. 1 /\ (B = {} => Cardinality(B) = 0)
        /\ Cardinality(M) \in 0 .. 1 /\ (M = {} => Cardinality(M) = 0)
    <3>1. Cardinality({}) = 0
      BY FS_EmptySet
    <3>2. \A r : Cardinality({r}) = 1
      BY FS_Singleton
    <3>3. Cardinality(B) = 0 \/ Cardinality(B) = 1
      BY ONLY <2>2, <3>1, <3>2, Zenon
    <3>4. Cardinality(M) = 0 \/ Cardinality(M) = 1
      BY ONLY <2>3, <3>1, <3>2, Zenon
    <3>5. (B = {} => Cardinality(B) = 0) /\ (M = {} => Cardinality(M) = 0)
      BY ONLY <3>1, Zenon
    <3> QED
      BY ONLY <3>3, <3>4, <3>5
  <2> QED
    BY <2>4, <2>5, <2>6
<1> QED
  BY <1>1, Invariance, PTL

\* armTimer: the scheduler does not stall, whatever runs, edits and reloads there were.
THEOREM TimerStaysSet == Spec => []TimerIsSet
<1>1. IInv => TimerIsSet
  BY DEF IInv
<1> QED
  BY <1>1, Invariance, PTL

\* A marker in the file has a run, or a start that is about to clear it: no run that
\* ended, was removed or died with the process blocks a job, unless services overlapped.
THEOREM NoOrphanedMarker == Spec => []MarkerHasARun
<1>1. ASSUME IInv
      PROVE  MarkerHasARun
  <2> SUFFICES ASSUME NEW j \in DOMAIN disk, disk[j].running # 0, Alive # {}, overlaps = 0
               PROVE  Claimed(j) \/ svc[Cur].phase = "boot"
    BY DEF MarkerHasARun
  <2>1. j \in Jobs /\ Started # {}
    BY <1>1, StoreElim DEF IInv, Types, Alive
  <2>2. MarkIsClaimed(j)
    BY <1>1, <2>1 DEF IInv, WithoutOverlaps
  <2> QED
    BY <2>2 DEF MarkIsClaimed
<1> QED
  BY <1>1, Invariance, PTL

-----------------------------------------------------------------------------
(***************************************************************************)
(* Failures and due slots.  A second invariant: what a job has failed, in  *)
(* any copy of the store, is at most the failed runs that were settled;    *)
(* the time of a job lies behind its last run; the memory of the current   *)
(* service has the times of the file.                                      *)
(***************************************************************************)

\* Runs of a job that have failed and are not settled yet.
Failed(bt, j) ==
  { r \in Services \X Batches :
      bt[r[1]][r[2]][j].stage = "ended" /\ bt[r[1]][r[2]][j].outcome # "ok" }
FailedByHand(mn, j) ==
  { m \in Manuals : /\ mn[m].stage = "reserved" /\ mn[m].job = j
                    /\ mn[m].run.stage = "ended" /\ mn[m].run.outcome # "ok" }
FailedRuns(bt, mn) ==
  [ j \in Jobs |-> Cardinality(Failed(bt, j)) + Cardinality(FailedByHand(mn, j)) ]
Unsettled == FailedRuns(batch, manual)

\* The configuration may set the retry delay of one-shots to 0, and missedJobStaggerMs
\* may be 0.  Then a job can be due at the time of its last run, and counts as served.
PositiveDelays == Backoff # 0 /\ Stagger # 0

\* A time that is not ahead of the last run is the time of the one-shot itself.
TimeIsNew(j, job, t) ==
  job.enabled /\ job.next # 0 =>
    job.last < job.next \/ (j \in OneShots /\ NextRun(j, job, t) = job.next)

\* A job when t is now, u of its runs have failed and are not settled, and e runs
\* have failed in all.
GoodJob(j, job, t, u, e) ==
  job.failures + u <= e /\ job.last <= t /\ (PositiveDelays => TimeIsNew(j, job, t))
Good(jobs, t, u, e) == \A j \in DOMAIN jobs : GoodJob(j, jobs[j], t, u[j], e)

Books ==
  /\ \A j \in Jobs : Unsettled[j] <= errors
  /\ Good(disk, now, Unsettled, errors)
  /\ \A s \in Services : Good(svc[s].mem, now, Unsettled, errors)

\* No run is dated ahead.
Dated ==
  /\ \A s \in Services, b \in Batches, j \in Jobs : batch[s][b][j].start <= now
  /\ \A m \in Manuals : manual[m].at <= now /\ manual[m].run.start <= now

\* Two copies of the store that wait for the same.
SameTimes(a, b) ==
  \A j \in DOMAIN a \cap DOMAIN b :
    a[j].enabled = b[j].enabled /\ (a[j].enabled => a[j].next = b[j].next)
Agree == overlaps = 0 /\ Alive # {} /\ svc[Cur].phase # "boot" => SameTimes(disk, svc[Cur].mem)

-----------------------------------------------------------------------------
(* Counting failed runs.                                                   *)

LEMMA FailedRunsFinite ==
  ASSUME NEW bt, NEW mn, NEW j \in Jobs
  PROVE  /\ IsFiniteSet(Failed(bt, j)) /\ IsFiniteSet(FailedByHand(mn, j))
         /\ Cardinality(Failed(bt, j)) \in Nat /\ Cardinality(FailedByHand(mn, j)) \in Nat
         /\ FailedRuns(bt, mn)[j] = Cardinality(Failed(bt, j)) + Cardinality(FailedByHand(mn, j))
         /\ FailedRuns(bt, mn)[j] \in Nat
<1>1. 1 \in Int /\ MaxServices \in Int /\ MaxManual \in Int
  BY ConstantsAssumption
<1>2. IsFiniteSet(Services) /\ IsFiniteSet(Manuals)
  BY <1>1, FS_Interval DEF Services, Manuals
<1>3. IsFiniteSet(Batches)
  <2>1. IsFiniteSet({"startup"})
    BY FS_Singleton
  <2>2. IsFiniteSet({"startup"} \cup {"tick"})
    BY <2>1, FS_AddElement
  <2>3. {"startup"} \cup {"tick"} = Batches
    BY DEF Batches
  <2> QED
    BY <2>2, <2>3
<1>4. IsFiniteSet(Services \X Batches)
  BY <1>2, <1>3, FS_Product
<1>5. Failed(bt, j) \subseteq Services \X Batches /\ FailedByHand(mn, j) \subseteq Manuals
  BY DEF Failed, FailedByHand
<1>6. IsFiniteSet(Failed(bt, j)) /\ IsFiniteSet(FailedByHand(mn, j))
  BY <1>2, <1>4, <1>5, FS_Subset
<1>7. Cardinality(Failed(bt, j)) \in Nat /\ Cardinality(FailedByHand(mn, j)) \in Nat
  BY <1>6, FS_CardinalityType
<1>8. FailedRuns(bt, mn)[j] = Cardinality(Failed(bt, j)) + Cardinality(FailedByHand(mn, j))
  BY DEF FailedRuns
<1> QED
  BY <1>6, <1>7, <1>8

\* A step that lets no run fail adds nothing; one that settles a failed run takes one
\* away.
LEMMA FailedRunsShrink ==
  ASSUME NEW bt, NEW mn, NEW bt2, NEW mn2, NEW j \in Jobs,
         Failed(bt2, j) \subseteq Failed(bt, j), FailedByHand(mn2, j) \subseteq FailedByHand(mn, j)
  PROVE  /\ FailedRuns(bt2, mn2)[j] <= FailedRuns(bt, mn)[j]
         /\ Failed(bt2, j) # Failed(bt, j) \/ FailedByHand(mn2, j) # FailedByHand(mn, j) =>
              FailedRuns(bt2, mn2)[j] + 1 <= FailedRuns(bt, mn)[j]
<1>1. /\ Cardinality(Failed(bt2, j)) <= Cardinality(Failed(bt, j))
      /\ Failed(bt2, j) # Failed(bt, j) => Cardinality(Failed(bt2, j)) < Cardinality(Failed(bt, j))
  BY FailedRunsFinite, FS_Subset
<1>2. /\ Cardinality(FailedByHand(mn2, j)) <= Cardinality(FailedByHand(mn, j))
      /\ FailedByHand(mn2, j) # FailedByHand(mn, j) =>
           Cardinality(FailedByHand(mn2, j)) < Cardinality(FailedByHand(mn, j))
  BY FailedRunsFinite, FS_Subset
<1> QED
  BY <1>1, <1>2, FailedRunsFinite

\* A run that fails adds one.
LEMMA FailedRunsGrow ==
  ASSUME NEW bt, NEW mn, NEW bt2, NEW mn2, NEW j \in Jobs, NEW r,
         \/ Failed(bt2, j) \subseteq Failed(bt, j) \cup {r} /\ mn2 = mn
         \/ FailedByHand(mn2, j) \subseteq FailedByHand(mn, j) \cup {r} /\ bt2 = bt
  PROVE  FailedRuns(bt2, mn2)[j] <= FailedRuns(bt, mn)[j] + 1
<1>1. ASSUME NEW S, NEW T, IsFiniteSet(T), S \subseteq T \cup {r}
      PROVE  Cardinality(S) <= Cardinality(T) + 1
  <2>1. IsFiniteSet(T \cup {r}) /\ Cardinality(T \cup {r}) <= Cardinality(T) + 1
    BY <1>1, FS_AddElement, FS_CardinalityType
  <2>2. Cardinality(S) <= Cardinality(T \cup {r}) /\ IsFiniteSet(S)
    BY <1>1, <2>1, FS_Subset
  <2>3. Cardinality(S) \in Nat /\ Cardinality(T) \in Nat /\ Cardinality(T \cup {r}) \in Nat
    BY <1>1, <2>1, <2>2, FS_CardinalityType
  <2> QED
    BY <2>1, <2>2, <2>3
<1>2. CASE Failed(bt2, j) \subseteq Failed(bt, j) \cup {r} /\ mn2 = mn
  <2>1. Cardinality(Failed(bt2, j)) <= Cardinality(Failed(bt, j)) + 1
    BY <1>1, <1>2, FailedRunsFinite
  <2> QED
    BY <1>2, <2>1, FailedRunsFinite
<1>3. CASE FailedByHand(mn2, j) \subseteq FailedByHand(mn, j) \cup {r} /\ bt2 = bt
  <2>1. Cardinality(FailedByHand(mn2, j)) <= Cardinality(FailedByHand(mn, j)) + 1
    BY <1>1, <1>3, FailedRunsFinite
  <2> QED
    BY <1>3, <2>1, FailedRunsFinite
<1> QED
  BY <1>2, <1>3

-----------------------------------------------------------------------------
(* What the operators on jobs and stores do to a good one.                 *)

\* The time of a one-shot does not depend on the clock.
LEMMA TimeStaysNew ==
  ASSUME NEW j \in Jobs, NEW job \in Job, NEW t, NEW t2, TimeIsNew(j, job, t)
  PROVE  TimeIsNew(j, job, t2)
<1>1. job.enabled /\ j \in OneShots => NextRun(j, job, t) = NextRun(j, job, t2)
  BY DEF NextRun
<1> QED
  BY <1>1 DEF TimeIsNew

LEMMA GoodStays ==
  ASSUME NEW jobs \in Stores, NEW t \in Nat, NEW t2 \in Nat, t <= t2,
         NEW u \in [Jobs -> Nat], NEW u2 \in [Jobs -> Nat], NEW e \in Nat, NEW e2 \in Nat,
         \A j \in Jobs : u2[j] + e <= u[j] + e2, Good(jobs, t, u, e)
  PROVE  Good(jobs, t2, u2, e2)
<1> SUFFICES ASSUME NEW j \in DOMAIN jobs PROVE GoodJob(j, jobs[j], t2, u2[j], e2)
  BY DEF Good
<1>1. j \in Jobs /\ jobs[j] \in Job /\ GoodJob(j, jobs[j], t, u[j], e)
  BY StoreElim DEF Good
<1>2. /\ jobs[j].failures \in Nat /\ jobs[j].last \in Nat /\ u[j] \in Nat /\ u2[j] \in Nat
      /\ u2[j] + e <= u[j] + e2
  BY <1>1, Bounds DEF Job
<1>3. jobs[j].failures + u2[j] <= e2 /\ jobs[j].last <= t2
  BY <1>1, <1>2 DEF GoodJob
<1>4. PositiveDelays => TimeIsNew(j, jobs[j], t2)
  BY <1>1, TimeStaysNew DEF GoodJob
<1> QED
  BY <1>3, <1>4 DEF GoodJob

LEMMA RescheduledIsGood ==
  ASSUME NEW j \in Jobs, NEW job \in Job, NEW t \in 1 .. MaxTime, job.last <= t
  PROVE  /\ TimeIsNew(j, Rescheduled(j, job, t), t)
         /\ \A u, e : job.failures + u <= e => GoodJob(j, Rescheduled(j, job, t), t, u, e)
<1> DEFINE new == Rescheduled(j, job, t)
<1>1. /\ new \in Job /\ new.enabled = job.enabled /\ new.status = job.status /\ new.last = job.last
      /\ new.failures = job.failures /\ new.next = NextRun(j, job, t)
  BY RescheduledJob
<1> HIDE DEF new
<1>2. TimeIsNew(j, new, t)
  <2>1. CASE j \in OneShots
    BY <1>1, <2>1 DEF TimeIsNew, NextRun
  <2>2. CASE j \notin OneShots
    <3>1. job.enabled => NextRun(j, job, t) = NextSlot(t)
      BY <2>2 DEF NextRun
    <3>2. NextSlot(t) > t
      <4> DEFINE q == t \div Period
      <4>1. t \in Nat /\ Period \in Nat /\ Period > 0
        BY Bounds
      <4>2. q \in Nat /\ q * Period + Period > t
        BY <4>1
      <4>3. (q + 1) * Period = q * Period + Period
        BY <4>1, <4>2
      <4> QED
        BY <4>2, <4>3 DEF NextSlot
    <3>3. job.last \in Nat /\ t \in Nat /\ NextSlot(t) \in Nat
      BY SlotAhead, Bounds DEF Job
    <3> QED
      BY <1>1, <3>1, <3>2, <3>3 DEF TimeIsNew
  <2> QED
    BY <2>1, <2>2
<1> QED
  BY <1>1, <1>2 DEF GoodJob, new

LEMMA NormalIsGood ==
  ASSUME NEW j \in Jobs, NEW job \in Job, NEW t \in 1 .. MaxTime, NEW u, NEW e, GoodJob(j, job, t, u, e)
  PROVE  GoodJob(j, Normal(job, t), t, u, e)
<1>1. /\ Normal(job, t).enabled = job.enabled /\ Normal(job, t).failures = job.failures
      /\ Normal(job, t).status = job.status /\ Normal(job, t).last = job.last
      /\ job.enabled => Normal(job, t).next = job.next
  BY NormalJob
<1>2. TimeIsNew(j, job, t) => TimeIsNew(j, Normal(job, t), t)
  BY <1>1 DEF TimeIsNew, NextRun
<1> QED
  BY <1>1, <1>2 DEF GoodJob

LEMMA MarkedIsGood ==
  ASSUME NEW j \in Jobs, NEW job \in Job, NEW x, NEW t, NEW u, NEW e, GoodJob(j, job, t, u, e)
  PROVE  GoodJob(j, [job EXCEPT !.running = x], t, u, e)
BY DEF GoodJob, TimeIsNew, NextRun, Job

LEMMA MaintainedIsGood ==
  ASSUME NEW jobs \in Stores, NEW t \in 1 .. MaxTime, NEW x \in BOOLEAN, NEW u, NEW e, Good(jobs, t, u, e)
  PROVE  Good(Maintained(jobs, t, x), t, u, e) /\ Good(Recomputed(jobs, t), t, u, e)
<1>1. ASSUME NEW j \in DOMAIN jobs
      PROVE  /\ GoodJob(j, Maintained(jobs, t, x)[j], t, u[j], e)
             /\ GoodJob(j, Recomputed(jobs, t)[j], t, u[j], e)
  <2> DEFINE job == Normal(jobs[j], t)
             served == x /\ job.next <= t /\ job.running = 0 /\ job.last >= job.next
  <2>1. j \in Jobs /\ jobs[j] \in Job /\ GoodJob(j, jobs[j], t, u[j], e)
    BY StoreElim DEF Good
  <2>2. job \in Job /\ GoodJob(j, job, t, u[j], e)
    BY <2>1, NormalJob, NormalIsGood
  <2>3. /\ Maintained(jobs, t, x)[j] = IF job.enabled /\ (job.next = 0 \/ served)
                                       THEN Rescheduled(j, job, t) ELSE job
        /\ Recomputed(jobs, t)[j] = IF job.enabled /\ job.next <= t THEN Rescheduled(j, job, t) ELSE job
    BY DEF Maintained, Recomputed
  <2> HIDE DEF job, served
  <2>4. GoodJob(j, Rescheduled(j, job, t), t, u[j], e)
    BY <2>1, <2>2, RescheduledIsGood DEF GoodJob
  <2> QED
    BY <2>2, <2>3, <2>4
<1>2. DOMAIN Maintained(jobs, t, x) = DOMAIN jobs /\ DOMAIN Recomputed(jobs, t) = DOMAIN jobs
  BY DEF Maintained, Recomputed
<1> QED
  BY <1>1, <1>2 DEF Good

\* A failed run that is settled is counted by the job instead.
LEMMA ResultIsGood ==
  ASSUME NEW j \in Jobs, NEW job \in Job, NEW run \in Run, NEW t \in 1 .. MaxTime, run.start <= t,
         NEW u \in Nat, NEW u2 \in Nat, NEW e \in Nat, GoodJob(j, job, t, u, e),
         u2 <= u, run.outcome # "ok" => u2 + 1 <= u
  PROVE  GoodJob(j, Result(j, job, run, t), t, u2, e)
<1> DEFINE new == Result(j, job, run, t)
           ok == run.outcome = "ok"
           done == [job EXCEPT !.running = 0, !.last = run.start,
                               !.status = IF ok THEN "ok" ELSE "error",
                               !.failures = IF ok THEN 0 ELSE job.failures + 1]
           natural == NextRun(j, done, t)
<1>1. new \in Job /\ new.failures <= job.failures + (IF run.outcome = "ok" THEN 0 ELSE 1)
  BY ResultJob
<1>2. job.failures \in Nat /\ new.failures \in Nat /\ job.failures + u <= e
  BY <1>1 DEF Job, GoodJob
<1>3. new.failures + u2 <= e
  BY <1>1, <1>2
<1>4. /\ done \in Job /\ done.last = run.start
  <2>1. 0 \in 0 .. MaxTime /\ run.start \in 0 .. MaxTime
    BY Bounds DEF Run
  <2>2. job.failures + 1 \in Nat
    BY <1>2
  <2> DEFINE d(status, n) == [job EXCEPT !.running = 0, !.last = run.start, !.status = status, !.failures = n]
  <2>3. ASSUME NEW status \in {"ok", "error"}, NEW n \in Nat
        PROVE  d(status, n) \in Job /\ d(status, n).last = run.start
    BY <2>1 DEF Job
  <2>4. done = IF ok THEN d("ok", 0) ELSE d("error", job.failures + 1)
    OBVIOUS
  <2> HIDE DEF d, done
  <2> QED
    BY <2>2, <2>3, <2>4
<1>5. run.start \in Nat /\ t \in Nat /\ Backoff \in Nat
  BY Bounds DEF Run
<1>6. TimeIsNew(j, [done EXCEPT !.next = natural], t)
  <2>1. Rescheduled(j, done, t) = [done EXCEPT !.next = natural]
    BY DEF Rescheduled
  <2> HIDE DEF done, natural
  <2> QED
    BY <1>4, <2>1, RescheduledIsGood
<1>7. ASSUME PositiveDelays, NEW n \in Nat, n >= t + Backoff
      PROVE  TimeIsNew(j, [done EXCEPT !.next = n], t)
  <2> HIDE DEF done, natural
  <2>1. [done EXCEPT !.next = n].last = run.start /\ [done EXCEPT !.next = n].next = n
    BY <1>4 DEF Job
  <2>2. run.start < n
    BY <1>5, <1>7 DEF PositiveDelays
  <2> QED
    BY <2>1, <2>2 DEF TimeIsNew
<1>8. natural \in Nat /\ t + Backoff \in Nat
  <2> HIDE DEF done
  <2> QED
    BY <1>4, <1>5, NextRunTimes, Bounds
<1>9. Max({natural, t + Backoff}) \in Nat /\ Max({natural, t + Backoff}) >= t + Backoff
  <2> HIDE DEF natural
  <2> QED
    BY <1>8, <1>5 DEF Max
<1>10. \/ new = [done EXCEPT !.next = t + Backoff]
       \/ new = [done EXCEPT !.enabled = FALSE, !.next = 0]
       \/ new = [done EXCEPT !.next = Max({natural, t + Backoff})]
       \/ new = [done EXCEPT !.next = natural]
  BY DEF Result
<1> HIDE DEF done, natural, new
<1>11. PositiveDelays => TimeIsNew(j, new, t)
  <2>1. TimeIsNew(j, [done EXCEPT !.enabled = FALSE, !.next = 0], t)
    BY <1>4 DEF TimeIsNew, Job
  <2>2. t + Backoff >= t + Backoff
    BY <1>8
  <2> QED
    BY <1>6, <1>7, <1>8, <1>9, <1>10, <2>1, <2>2
<1>12. new.last <= t
  <2>1. new.last = run.start
    BY <1>4, <1>10 DEF Job
  <2> QED
    BY <2>1
<1> QED
  BY <1>3, <1>11, <1>12 DEF GoodJob, new

LEMMA RemarkedIsGood ==
  ASSUME NEW jobs \in Stores, NEW new, NEW t, NEW u, NEW e, Good(jobs, t, u, e), DOMAIN new = DOMAIN jobs,
         \A j \in DOMAIN jobs : new[j] = jobs[j] \/ \E x : new[j] = [jobs[j] EXCEPT !.running = x]
  PROVE  Good(new, t, u, e)
<1> SUFFICES ASSUME NEW j \in DOMAIN jobs PROVE GoodJob(j, new[j], t, u[j], e)
  BY DEF Good
<1>1. j \in Jobs /\ jobs[j] \in Job /\ GoodJob(j, jobs[j], t, u[j], e)
  BY StoreElim DEF Good
<1> QED
  BY <1>1, MarkedIsGood

\* Jobs that are put off get times ahead.
LEMMA PutOffIsGood ==
  ASSUME NEW jobs \in Stores, NEW new, NEW t \in Nat, NEW u, NEW e, Good(jobs, t, u, e),
         DOMAIN new = DOMAIN jobs,
         \A j \in DOMAIN jobs :
           new[j] = jobs[j] \/ \E n \in Nat \ {0} : new[j] = [jobs[j] EXCEPT !.next = t + Stagger * n]
  PROVE  Good(new, t, u, e)
<1> SUFFICES ASSUME NEW j \in DOMAIN jobs PROVE GoodJob(j, new[j], t, u[j], e)
  BY DEF Good
<1>1. j \in Jobs /\ jobs[j] \in Job /\ GoodJob(j, jobs[j], t, u[j], e)
  BY StoreElim DEF Good
<1>2. ASSUME NEW n \in Nat \ {0}, new[j] = [jobs[j] EXCEPT !.next = t + Stagger * n]
      PROVE  GoodJob(j, new[j], t, u[j], e)
  <2>1. /\ new[j].failures = jobs[j].failures /\ new[j].last = jobs[j].last /\ jobs[j].last \in Nat
        /\ new[j].next = t + Stagger * n
    BY <1>1, <1>2, Bounds DEF Job
  <2>2. ASSUME PositiveDelays PROVE t < t + Stagger * n
    <3>1. Stagger \in Nat /\ Stagger >= 1 /\ n - 1 \in Nat
      BY <2>2, Bounds DEF PositiveDelays
    <3>2. Stagger * (n - 1) \in Nat /\ Stagger * n = Stagger * (n - 1) + Stagger
      BY <3>1
    <3> QED
      BY <3>1, <3>2
  <2>3. ASSUME PositiveDelays PROVE jobs[j].last < t + Stagger * n
    <3>1. Stagger * n \in Nat /\ jobs[j].last <= t
      BY <1>1, Bounds DEF GoodJob
    <3> QED
      BY <2>1, <2>2, <2>3, <3>1
  <2> QED
    BY <1>1, <2>1, <2>3 DEF GoodJob, TimeIsNew
<1> QED
  BY <1>1, <1>2

LEMMA SettledIsGood ==
  ASSUME NEW jobs \in Stores, NEW runs \in [Jobs -> Run], NEW t \in 1 .. MaxTime,
         \A j \in Jobs : runs[j].start <= t,
         NEW u \in [Jobs -> Nat], NEW u2 \in [Jobs -> Nat], NEW e \in Nat, Good(jobs, t, u, e),
         \A j \in Jobs : u2[j] <= u[j] /\ (runs[j].stage = "ended" /\ runs[j].outcome # "ok" => u2[j] + 1 <= u[j])
  PROVE  Good(Settled(jobs, runs, t), t, u2, e)
<1> DEFINE new == Settled(jobs, runs, t)
<1> SUFFICES ASSUME NEW j \in DOMAIN new PROVE GoodJob(j, new[j], t, u2[j], e)
  BY DEF Good
<1>1. j \in DOMAIN jobs /\ new[j] = IF runs[j].stage = "ended" THEN Result(j, jobs[j], runs[j], t) ELSE jobs[j]
  BY DEF Settled
<1>2. j \in Jobs /\ jobs[j] \in Job /\ GoodJob(j, jobs[j], t, u[j], e) /\ runs[j] \in Run
      /\ u[j] \in Nat /\ u2[j] \in Nat /\ u2[j] <= u[j]
  BY <1>1, StoreElim DEF Good
<1> HIDE DEF new
<1>3. CASE runs[j].stage = "ended"
  BY <1>1, <1>2, <1>3, ResultIsGood
<1>4. CASE runs[j].stage # "ended"
  <2>1. jobs[j].failures \in Nat
    BY <1>2 DEF Job
  <2> QED
    BY <1>1, <1>2, <1>4, <2>1 DEF GoodJob
<1> QED
  BY <1>3, <1>4

\* Maintenance leaves what is due alone; with the flag, unless it was executed.
LEMMA DueIsMaintained ==
  ASSUME NEW jobs, NEW t \in 1 .. MaxTime, NEW j \in Jobs, j \in DOMAIN jobs, jobs[j] \in Job,
         Runnable(jobs[j], t)
  PROVE  /\ Maintained(jobs, t, FALSE)[j] = jobs[j]
         /\ TimeIsNew(j, jobs[j], t) => Runnable(Maintained(jobs, t, TRUE)[j], t)
<1> DEFINE job == jobs[j]
<1>1. job \in Job
  OBVIOUS
<1>2. job.enabled /\ job.running = 0 /\ job.next # 0 /\ job.next <= t
  BY DEF Runnable
<1>3. Normal(job, t) = job
  BY <1>2 DEF Normal
<1>4. Maintained(jobs, t, FALSE)[j] = job
  BY <1>2, <1>3 DEF Maintained
<1>5. Maintained(jobs, t, TRUE)[j] = IF job.last >= job.next THEN Rescheduled(j, job, t) ELSE job
  BY <1>2, <1>3 DEF Maintained
<1> HIDE DEF job
<1>6. TimeIsNew(j, job, t) /\ job.last >= job.next => Rescheduled(j, job, t).next = job.next
  <2>1. job.last \in Nat /\ job.next \in Nat
    BY <1>1, Bounds DEF Job
  <2> QED
    BY <1>1, <1>2, <2>1, RescheduledJob DEF TimeIsNew
<1>7. ASSUME TimeIsNew(j, job, t) PROVE Runnable(Maintained(jobs, t, TRUE)[j], t)
  <2>1. CASE job.last >= job.next
    <3>1. Maintained(jobs, t, TRUE)[j] = Rescheduled(j, job, t)
      BY <1>5, <2>1
    <3>2. /\ Rescheduled(j, job, t).enabled = job.enabled
          /\ Rescheduled(j, job, t).running = job.running
          /\ Rescheduled(j, job, t).next = job.next
      BY <1>1, <1>6, <1>7, <2>1, RescheduledJob
    <3> QED
      BY <1>2, <3>1, <3>2 DEF Runnable
  <2>2. CASE ~(job.last >= job.next)
    BY <1>2, <1>5, <2>2 DEF Runnable
  <2> QED
    BY <2>1, <2>2
<1> QED
  BY <1>4, <1>7 DEF job

\* Maintenance of a store that is timed moves no time.
LEMMA TimesAreMaintained ==
  ASSUME NEW jobs \in Stores, NEW t \in 1 .. MaxTime, Timed(jobs)
  PROVE  SameTimes(jobs, Maintained(jobs, t, FALSE))
<1> DEFINE new == Maintained(jobs, t, FALSE)
<1> SUFFICES ASSUME NEW j \in DOMAIN jobs
             PROVE  jobs[j].enabled = new[j].enabled /\ (jobs[j].enabled => jobs[j].next = new[j].next)
  BY DEF SameTimes
<1> DEFINE job == Normal(jobs[j], t)
<1>1. jobs[j] \in Job /\ j \in Jobs
  BY StoreElim
<1>2. /\ job \in Job /\ job.enabled = jobs[j].enabled /\ job.status = jobs[j].status
      /\ job.last = jobs[j].last /\ (job.enabled => job.next = jobs[j].next)
  BY <1>1, NormalJob
<1>3. new[j] = IF job.enabled /\ job.next = 0 THEN Rescheduled(j, job, t) ELSE job
  BY DEF Maintained
<1> HIDE DEF job, new
<1>4. CASE job.enabled /\ job.next = 0
  <2>1. j \in OneShots /\ job.status = "ok" /\ job.last # 0 /\ OneShotAt <= job.last
    BY <1>2, <1>4 DEF Timed
  <2>2. NextRun(j, job, t) = 0
    BY <1>4, <2>1 DEF NextRun
  <2>3. /\ Rescheduled(j, job, t).enabled = job.enabled
        /\ Rescheduled(j, job, t).next = 0
    BY <1>1, <1>2, <2>2, RescheduledJob
  <2>4. new[j] = Rescheduled(j, job, t)
    BY <1>3, <1>4
  <2>5. new[j].enabled = jobs[j].enabled /\ new[j].next = 0
    BY <1>2, <2>3, <2>4
  <2>6. jobs[j].enabled => jobs[j].next = 0
    BY <1>2, <1>4
  <2> QED
    BY <2>5, <2>6
<1>5. CASE ~(job.enabled /\ job.next = 0)
  BY <1>2, <1>3, <1>5
<1> QED
  BY <1>4, <1>5

-----------------------------------------------------------------------------
(* Steps.                                                                  *)

LEMMA FailedRunsType ==
  ASSUME NEW bt, NEW mn
  PROVE  FailedRuns(bt, mn) \in [Jobs -> Nat]
BY FailedRunsFinite DEF FailedRuns

\* No run ends: a batch or a manual run changes at most to one that has not ended.
QuietRuns ==
  /\ \A r \in Services, b \in Batches, j \in Jobs :
       batch'[r][b][j] = batch[r][b][j] \/ (batch'[r][b][j].stage # "ended" /\ batch'[r][b][j].start <= now')
  /\ \A m \in Manuals :
       manual'[m] = manual[m] \/ (manual'[m].run.stage # "ended" /\ manual'[m].run.start <= now'
                                  /\ manual'[m].at <= now')

LEMMA QuietRunsFail ==
  ASSUME QuietRuns, NEW j \in Jobs
  PROVE  /\ Failed(batch', j) \subseteq Failed(batch, j) /\ FailedByHand(manual', j) \subseteq FailedByHand(manual, j)
         /\ Unsettled'[j] <= Unsettled[j]
<1>1. Failed(batch', j) \subseteq Failed(batch, j)
  <2>1. \A r \in Services \X Batches : r[1] \in Services /\ r[2] \in Batches
    OBVIOUS
  <2> QED
    BY <2>1 DEF Failed, QuietRuns
<1>2. FailedByHand(manual', j) \subseteq FailedByHand(manual, j)
  BY DEF FailedByHand, QuietRuns
<1> QED
  BY <1>1, <1>2, FailedRunsShrink DEF Unsettled

LEMMA QuietRunsAreDated ==
  ASSUME Types, Types', QuietRuns, Dated, now <= now'
  PROVE  Dated'
<1>1. now \in Nat /\ now' \in Nat
  BY Bounds DEF Types
<1>2. ASSUME NEW r \in Services, NEW b \in Batches, NEW j \in Jobs
      PROVE  batch'[r][b][j].start <= now'
  <2>1. batch[r][b][j].start \in Nat /\ batch[r][b][j].start <= now
    BY Bounds DEF Types, Run, Dated
  <2> QED
    BY <1>1, <2>1 DEF QuietRuns
<1>3. ASSUME NEW m \in Manuals
      PROVE  manual'[m].at <= now' /\ manual'[m].run.start <= now'
  <2>1. /\ manual[m].at \in Nat /\ manual[m].at <= now
        /\ manual[m].run.start \in Nat /\ manual[m].run.start <= now
    BY Bounds DEF Types, Run, Dated, ManualState
  <2> QED
    BY <1>1, <2>1 DEF QuietRuns
<1> QED
  BY <1>2, <1>3 DEF Dated

\* Copies that do not change stay good, as the count of failed runs keeps up.
LEMMA BooksKept ==
  ASSUME Types, Types', Books, now <= now',
         \A j \in Jobs : Unsettled'[j] + errors <= Unsettled[j] + errors',
         disk' = disk \/ Good(disk', now', Unsettled', errors'),
         \A s \in Services : svc'[s].mem = svc[s].mem \/ Good(svc'[s].mem, now', Unsettled', errors')
  PROVE  Books'
<1>1. /\ Unsettled \in [Jobs -> Nat] /\ Unsettled' \in [Jobs -> Nat] /\ errors \in Nat /\ errors' \in Nat
      /\ now \in Nat /\ now' \in Nat
  BY FailedRunsType, Bounds DEF Types, Unsettled
<1>2. \A j \in Jobs : Unsettled'[j] <= errors'
  <2> SUFFICES ASSUME NEW j \in Jobs PROVE Unsettled'[j] <= errors'
    OBVIOUS
  <2>1. Unsettled[j] <= errors /\ Unsettled'[j] + errors <= Unsettled[j] + errors'
        /\ Unsettled[j] \in Nat /\ Unsettled'[j] \in Nat
    BY <1>1 DEF Books
  <2> QED
    BY <1>1, <2>1
<1>3. ASSUME NEW jobs \in Stores, Good(jobs, now, Unsettled, errors)
      PROVE  Good(jobs, now', Unsettled', errors')
  <2> DEFINE u == Unsettled
             u2 == Unsettled'
  <2>1. u \in [Jobs -> Nat] /\ u2 \in [Jobs -> Nat] /\ \A j \in Jobs : u2[j] + errors <= u[j] + errors'
    BY <1>1
  <2> HIDE DEF u, u2
  <2>2. Good(jobs, now, u, errors)
    BY <1>3 DEF u
  <2>3. now \in Nat /\ now' \in Nat /\ now <= now' /\ errors \in Nat /\ errors' \in Nat /\ jobs \in Stores
    BY <1>1
  <2>4. Good(jobs, now', u2, errors')
    BY ONLY <2>1, <2>2, <2>3, GoodStays
  <2> QED
    BY <2>4 DEF u2
<1>4. disk \in Stores /\ \A s \in Services : svc[s].mem \in Stores
  BY DEF Types, ServiceState
<1>5. Good(disk', now', Unsettled', errors')
  BY <1>3, <1>4 DEF Books
<1>6. \A s \in Services : Good(svc'[s].mem, now', Unsettled', errors')
  BY <1>3, <1>4 DEF Books
<1> QED
  BY <1>2, <1>5, <1>6 DEF Books

Ledger == Books /\ Dated /\ Agree

LEMMA Basics ==
  ASSUME IInv, NEW s \in Services
  PROVE  /\ Types /\ disk \in Stores /\ svc[s].mem \in Stores /\ svc[s] \in ServiceState
         /\ svc \in [Services -> ServiceState] /\ now \in 1 .. MaxTime /\ errors \in Nat
         /\ Timed(disk) /\ Timed(svc[s].mem)
BY Bounds DEF IInv, Types, ServiceState, AllTimed

LEMMA ActsIntro ==
  ASSUME Types, NEW s \in Alive, NEW x, svc' = [svc EXCEPT ![s] = x],
         x.phase = svc[s].phase \/ x.phase \notin {"none", "boot", "dead"}
  PROVE  Acts(s) /\ svc'[s] = x
<1>1. s \in Services
  BY DEF Alive, Started
<1>2. svc'[s] = x /\ \A r \in Services \ {s} : svc'[r] = svc[r]
  BY <1>1 DEF Types
<1> QED
  BY <1>2 DEF Acts

LEMMA PersistActs ==
  ASSUME Types, NEW s \in Alive, NEW jobs,
         \/ Persist(s, jobs, TRUE) \/ PersistAndArm(s, jobs, TRUE) \/ PersistAndArm(s, jobs, FALSE)
  PROVE  Acts(s) /\ disk' = jobs /\ svc'[s].mem = jobs /\ svc'[s].phase = svc[s].phase
<1>1. s \in Services /\ svc[s] \in ServiceState
  BY DEF Alive, Started, Types
<1> DEFINE x(fresh) == [svc[s] EXCEPT !.mem = jobs, !.fresh = fresh]
           y(fresh) == [svc[s] EXCEPT !.mem = jobs, !.fresh = fresh, !.timer = Armed(jobs)]
<1>2. /\ disk' = jobs
      /\ \/ svc' = [svc EXCEPT ![s] = x(TRUE /\ svc[s].fresh)]
         \/ svc' = [svc EXCEPT ![s] = y(TRUE /\ svc[s].fresh)]
         \/ svc' = [svc EXCEPT ![s] = y(FALSE /\ svc[s].fresh)]
  BY DEF Persist, PersistAndArm
<1>3. \A f : x(f).mem = jobs /\ x(f).phase = svc[s].phase /\ y(f).mem = jobs /\ y(f).phase = svc[s].phase
  BY <1>1 DEF ServiceState
<1> HIDE DEF x, y
<1>4. PICK z : svc' = [svc EXCEPT ![s] = z] /\ z.mem = jobs /\ z.phase = svc[s].phase
  BY <1>2, <1>3
<1> QED
  BY <1>2, <1>4, ActsIntro

LEMMA AgreeKept ==
  ASSUME Agree, NEW s, Acts(s), overlaps' = 0 => overlaps = 0 /\ s = Cur,
         svc'[s].phase # "boot" =>
           \/ disk' = svc'[s].mem
           \/ svc[s].phase # "boot" /\ (SameTimes(disk, svc[s].mem) => SameTimes(disk', svc'[s].mem))
  PROVE  Agree'
<1>1. Alive' = Alive /\ Cur' = Cur
  BY ActsServices
<1>2. disk' = svc'[s].mem => SameTimes(disk', svc'[s].mem)
  BY DEF SameTimes
<1>3. ASSUME overlaps = 0, Alive # {}, svc'[s].phase # "boot", s = Cur
      PROVE  SameTimes(disk', svc'[s].mem)
  BY <1>2, <1>3 DEF Agree
<1>4. ASSUME overlaps' = 0, Alive' # {}, svc'[Cur'].phase # "boot"
      PROVE  SameTimes(disk', svc'[Cur'].mem)
  BY <1>1, <1>3, <1>4
<1> QED
  BY <1>4 DEF Agree, SameTimes

\* A copy that is good stays good when runs are settled.
LEMMA QuietRunsGood ==
  ASSUME QuietRuns, NEW jobs \in Stores, NEW t \in Nat, NEW e \in Nat, Good(jobs, t, Unsettled, e)
  PROVE  Good(jobs, t, Unsettled', e)
<1> DEFINE u == Unsettled
           u2 == Unsettled'
<1>1. u \in [Jobs -> Nat] /\ u2 \in [Jobs -> Nat] /\ \A j \in Jobs : u2[j] <= u[j]
  BY FailedRunsType, QuietRunsFail DEF Unsettled
<1>2. Good(jobs, t, u, e)
  OBVIOUS
<1> HIDE DEF u, u2
<1>3. t <= t /\ \A j \in Jobs : u2[j] + e <= u[j] + e
  BY <1>1
<1>4. Good(jobs, t, u2, e)
  BY ONLY <1>1, <1>2, <1>3, GoodStays
<1> QED
  BY <1>4 DEF u2

\* A service saves a store that is good.
LEMMA SavesKeep ==
  ASSUME IInv, IInv', Ledger, NEW s, Acts(s), overlaps' = 0 => overlaps = 0 /\ s = Cur,
         UNCHANGED << now, errors >>, QuietRuns, disk' = svc'[s].mem,
         Good(disk', now, Unsettled, errors) \/ Good(disk', now, Unsettled', errors)
  PROVE  Ledger'
<1>1. Types /\ Types' /\ now \in Nat /\ errors \in Nat /\ disk' \in Stores
  BY Bounds DEF IInv, Types
<1>2. Unsettled \in [Jobs -> Nat] /\ Unsettled' \in [Jobs -> Nat] /\ \A j \in Jobs : Unsettled'[j] <= Unsettled[j]
  BY FailedRunsType, QuietRunsFail DEF Unsettled
<1>3. Good(disk', now, Unsettled', errors)
  BY <1>1, QuietRunsGood
<1>4. \A j \in Jobs : Unsettled'[j] + errors <= Unsettled[j] + errors'
  BY <1>1, <1>2
<1>5. \A r \in Services : svc'[r].mem = svc[r].mem \/ svc'[r].mem = disk'
  BY DEF Acts
<1>6. now <= now' /\ now' = now /\ errors' = errors
  BY <1>1
<1>7. Books'
  BY <1>1, <1>3, <1>4, <1>5, <1>6, BooksKept DEF Ledger
<1>8. Dated'
  BY <1>1, <1>6, QuietRunsAreDated DEF Ledger
<1>9. Agree'
  BY AgreeKept DEF Ledger
<1> QED
  BY <1>7, <1>8, <1>9 DEF Ledger

LEMMA ClearMarkersLedger ==
  ASSUME IInv, IInv', Ledger, NEW s \in Services, ClearMarkers(s)
  PROVE  Ledger'
<1> DEFINE stale == { j \in DOMAIN disk : disk[j].running # 0 }
           jobs == [j \in DOMAIN disk |-> [disk[j] EXCEPT !.running = 0]]
           x == [svc[s] EXCEPT !.phase = "plan", !.mem = jobs, !.skip = stale]
<1>1. /\ svc[s].phase = "boot" /\ disk' = jobs /\ svc' = [svc EXCEPT ![s] = x]
      /\ UNCHANGED << now, batch, manual, errors, overlaps >>
  BY DEF ClearMarkers, counters
<1>2. \A j \in DOMAIN disk : jobs[j] = [disk[j] EXCEPT !.running = 0]
  OBVIOUS
<1>3. DOMAIN jobs = DOMAIN disk
  OBVIOUS
<1> HIDE DEF jobs, stale
<1>4. x.phase = "plan" /\ x.mem = jobs
  BY Basics DEF ServiceState
<1> HIDE DEF x
<1>5. s \in Alive
  BY <1>1 DEF Alive, Started
<1>6. Acts(s) /\ svc'[s].mem = jobs
  BY <1>1, <1>4, <1>5, Basics, ActsIntro
<1>7. Good(jobs, now, Unsettled, errors)
  BY <1>2, <1>3, Basics, RemarkedIsGood DEF Ledger, Books
<1>8. QuietRuns
  BY <1>1 DEF QuietRuns
<1>9. overlaps = 0 => s = Cur
  BY <1>1, <1>5, OnlyCurActs
<1> QED
  BY <1>1, <1>6, <1>7, <1>8, <1>9, SavesKeep

LEMMA ArmLedger ==
  ASSUME IInv, IInv', Ledger, NEW s \in Services, Arm(s)
  PROVE  Ledger'
<1> DEFINE jobs == Recomputed(disk, now)
           x == [svc[s] EXCEPT !.phase = "on", !.mem = jobs, !.fresh = FALSE, !.timer = Armed(jobs)]
<1>1. /\ svc[s].phase = "arm" /\ disk' = jobs /\ svc' = [svc EXCEPT ![s] = x]
      /\ UNCHANGED << now, batch, manual, errors, overlaps >>
  BY DEF Arm, counters
<1>2. Good(jobs, now, Unsettled, errors)
  BY Basics, MaintainedIsGood DEF Ledger, Books
<1> HIDE DEF jobs
<1>3. x.phase = "on" /\ x.mem = jobs
  BY Basics DEF ServiceState
<1> HIDE DEF x
<1>4. s \in Alive
  BY <1>1 DEF Alive, Started
<1>5. Acts(s) /\ svc'[s].mem = jobs
  BY <1>1, <1>3, <1>4, Basics, ActsIntro
<1>6. QuietRuns
  BY <1>1 DEF QuietRuns
<1>7. overlaps = 0 => s = Cur
  BY <1>1, <1>4, OnlyCurActs
<1> QED
  BY <1>1, <1>2, <1>5, <1>6, <1>7, SavesKeep

\* A service changes its memory to a good store and leaves the file alone.
LEMMA StoresKeep ==
  ASSUME IInv, IInv', Ledger, NEW s \in Services, Acts(s), overlaps' = 0 => overlaps = 0 /\ s = Cur,
         UNCHANGED << now, disk, errors >>, QuietRuns,
         svc'[s].phase # "boot" => svc[s].phase # "boot",
         svc'[s].mem = svc[s].mem \/ Good(svc'[s].mem, now, Unsettled, errors),
         SameTimes(disk, svc[s].mem) => SameTimes(disk, svc'[s].mem)
  PROVE  Ledger'
<1>1. Types /\ Types' /\ now \in Nat /\ errors \in Nat /\ svc'[s].mem \in Stores
  BY Bounds DEF IInv, Types, ServiceState
<1>2. \A j \in Jobs : Unsettled'[j] + errors <= Unsettled[j] + errors'
  BY <1>1, FailedRunsType, QuietRunsFail DEF Unsettled
<1>3. \A r \in Services : svc'[r].mem = svc[r].mem \/ Good(svc'[r].mem, now', Unsettled', errors')
  <2>1. Good(svc'[s].mem, now, Unsettled, errors) => Good(svc'[s].mem, now, Unsettled', errors)
    BY <1>1, QuietRunsGood
  <2> QED
    BY <2>1 DEF Acts
<1>4. now <= now'
  BY <1>1
<1>5. Books'
  BY <1>1, <1>2, <1>3, <1>4, BooksKept DEF Ledger
<1>6. Dated'
  BY <1>1, <1>4, QuietRunsAreDated DEF Ledger
<1>7. Agree'
  BY AgreeKept DEF Ledger
<1> QED
  BY <1>5, <1>6, <1>7 DEF Ledger

\* Jobs that are claimed have runs that have not ended.
LEMMA ClaimingIsQuiet ==
  ASSUME IInv, IInv', NEW s \in Services, NEW b \in Batches, NEW due, manual' = manual,
         batch' = [batch EXCEPT ![s][b] = Claiming(due)]
  PROVE  QuietRuns
<1>1. \A j \in Jobs : Claiming(due)[j].stage # "ended" /\ Claiming(due)[j].start = 0
  BY NoRuns DEF Claiming, NoRun
<1>2. \A r \in Services, c \in Batches, j \in Jobs :
        batch'[r][c][j] = batch[r][c][j] \/ batch'[r][c][j] = Claiming(due)[j]
  BY DEF IInv, Types
<1>3. 0 <= now'
  BY Bounds DEF IInv, Types
<1> QED
  BY <1>1, <1>2, <1>3 DEF QuietRuns

LEMMA OnTimerLedger ==
  ASSUME IInv, IInv', Ledger, NEW s \in Services, OnTimer(s)
  PROVE  Ledger'
<1> PICK due : due = { j \in DOMAIN disk : Runnable(disk[j], now) }
  OBVIOUS
<1> DEFINE marked == WithMarks(disk, due)
           jobs == IF due = {} THEN Maintained(disk, now, TRUE) ELSE marked
           x == [svc[s] EXCEPT !.mem = jobs, !.ticking = due # {}, !.fresh = TRUE,
                               !.timer = due # {} \/ Armed(jobs)]
<1>1. /\ svc[s].timer /\ disk' = jobs /\ svc' = [svc EXCEPT ![s] = x]
      /\ batch' = [batch EXCEPT ![s]["tick"] = Claiming(due)]
      /\ UNCHANGED << now, manual, errors, overlaps >>
  BY DEF OnTimer, Claiming, WithMarks, counters
<1>2. Good(jobs, now, Unsettled, errors)
  <2>1. Good(disk, now, Unsettled, errors)
    BY DEF Ledger, Books
  <2>2. Good(Maintained(disk, now, TRUE), now, Unsettled, errors)
    BY <2>1, Basics, MaintainedIsGood
  <2>3. DOMAIN marked = DOMAIN disk /\ \A j \in DOMAIN disk :
          marked[j] = disk[j] \/ marked[j] = [disk[j] EXCEPT !.running = now]
    BY DEF WithMarks
  <2> HIDE DEF marked
  <2>4. Good(marked, now, Unsettled, errors)
    BY <2>1, <2>3, Basics, RemarkedIsGood
  <2> QED
    BY <2>2, <2>4
<1> HIDE DEF jobs
<1>3. x.phase = svc[s].phase /\ x.mem = jobs
  BY Basics DEF ServiceState
<1> HIDE DEF x
<1>4. s \in Alive
  BY <1>1 DEF IInv, Owners
<1>5. Acts(s) /\ svc'[s].mem = jobs
  BY <1>1, <1>3, <1>4, Basics, ActsIntro
<1>6. QuietRuns
  BY <1>1, ClaimingIsQuiet DEF Batches
<1>7. overlaps = 0 => s = Cur
  BY <1>1, <1>4, OnlyCurActs
<1> QED
  BY <1>1, <1>2, <1>5, <1>6, <1>7, SavesKeep

LEMMA PlanCatchupLedger ==
  ASSUME IInv, IInv', Ledger, NEW s \in Services, PlanCatchup(s)
  PROVE  Ledger'
<1> DEFINE mem == svc[s].mem
<1> PICK missed : missed = { j \in DOMAIN mem \ svc[s].skip : Missed(j, mem[j], now) }
  OBVIOUS
<1> PICK due : due = { j \in missed : Rank(mem, missed, j) <= MaxImmediate }
  OBVIOUS
<1> DEFINE jobs == WithMarks(mem, due)
           later == [j \in Jobs |-> IF j \in missed \ due THEN Rank(mem, missed, j) - MaxImmediate ELSE 0]
           phase == IF missed = {} THEN "arm" ELSE "catchup"
           x == [svc[s] EXCEPT !.phase = phase, !.mem = jobs, !.skip = {}, !.deferred = later]
<1>1. /\ svc[s].phase = "plan" /\ disk' = (IF missed = {} THEN disk ELSE jobs)
      /\ svc' = [svc EXCEPT ![s] = x]
      /\ batch' = [batch EXCEPT ![s]["startup"] = Claiming(due)]
      /\ UNCHANGED << now, manual, errors, overlaps >>
  BY DEF PlanCatchup, Claiming, WithMarks, counters, history
<1>2. /\ DOMAIN jobs = DOMAIN mem
      /\ \A j \in DOMAIN mem : jobs[j] = IF j \in due THEN [mem[j] EXCEPT !.running = now] ELSE mem[j]
  BY DEF WithMarks
<1> HIDE DEF jobs, later
<1>3. Good(jobs, now, Unsettled, errors)
  <2>1. Good(mem, now, Unsettled, errors)
    BY DEF Ledger, Books
  <2> QED
    BY <1>2, <2>1, Basics, RemarkedIsGood
<1>4. x.phase = phase /\ x.mem = jobs
  BY Basics DEF ServiceState
<1> HIDE DEF x
<1>5. s \in Alive /\ phase \in {"arm", "catchup"}
  BY <1>1 DEF Alive, Started
<1>6. Acts(s) /\ svc'[s].mem = jobs
  BY <1>1, <1>4, <1>5, Basics, ActsIntro
<1>7. QuietRuns
  BY <1>1, ClaimingIsQuiet DEF Batches
<1>8. overlaps = 0 => s = Cur
  BY <1>1, <1>5, OnlyCurActs
<1>9. CASE missed # {}
  <2>1. disk' = jobs
    BY <1>1, <1>9
  <2> QED
    BY <1>1, <1>3, <1>6, <1>7, <1>8, <2>1, SavesKeep
<1>10. CASE missed = {}
  <2>1. due = {} /\ disk' = disk
    BY <1>1, <1>10
  <2>2. jobs = mem
    <3>1. \A j \in DOMAIN mem : jobs[j] = mem[j]
      BY <1>2, <2>1
    <3>2. mem = [j \in DOMAIN mem |-> mem[j]] /\ jobs = [j \in DOMAIN mem |-> jobs[j]]
      BY Basics, StoreElim DEF jobs, WithMarks
    <3> QED
      BY <3>1, <3>2
  <2> QED
    BY <1>1, <1>6, <1>7, <1>8, <2>1, <2>2, StoresKeep
<1> QED
  BY <1>9, <1>10

LEMMA BeginRunLedger ==
  ASSUME IInv, IInv', Ledger, NEW s \in Services, NEW b \in Batches, NEW j \in Jobs, BeginRun(s, b, j)
  PROVE  Ledger'
<1> DEFINE run == [batch[s][b][j] EXCEPT !.stage = "running", !.start = now]
           mem == svc[s].mem
           jobs == [i \in DOMAIN mem |-> IF i = j /\ b = "tick" /\ svc[s].fresh
                                         THEN [mem[i] EXCEPT !.running = now] ELSE mem[i]]
           x == [svc[s] EXCEPT !.mem = jobs]
<1>1. /\ batch[s][b][j].stage = "claimed" /\ UNCHANGED << now, disk, manual, errors, overlaps >>
  BY DEF BeginRun, counters, history
<1>2. svc' = [svc EXCEPT ![s] = x]
  BY DEF BeginRun
<1>3. batch' = [batch EXCEPT ![s][b][j] = run]
  BY DEF BeginRun
<1>4. run.stage = "running" /\ run.start = now
  BY Basics DEF Types, Run
<1>5. /\ DOMAIN jobs = DOMAIN mem
      /\ \A i \in DOMAIN mem : jobs[i] = mem[i] \/ jobs[i] = [mem[i] EXCEPT !.running = now]
  OBVIOUS
<1> HIDE DEF run, jobs
<1>6. x.phase = svc[s].phase /\ x.mem = jobs
  BY Basics DEF ServiceState
<1> HIDE DEF x
<1>7. svc[s].phase = "catchup" \/ svc[s].ticking
  <2>1. b = "startup" \/ b = "tick"
    BY DEF Batches
  <2> QED
    BY <1>1, <2>1 DEF IInv, Owners
<1>8. s \in Alive
  BY <1>7 DEF Alive, Started, IInv, Owners
<1>9. Acts(s) /\ svc'[s].mem = jobs /\ svc'[s].phase = svc[s].phase
  BY <1>2, <1>6, <1>8, Basics, ActsIntro
<1>10. QuietRuns
  <2>1. \A r \in Services, c \in Batches, i \in Jobs :
          batch'[r][c][i] = IF r = s /\ c = b /\ i = j THEN run ELSE batch[r][c][i]
    BY <1>3, Basics DEF Types
  <2>2. now <= now' /\ run.start <= now'
    BY <1>1, <1>4, Basics
  <2> QED
    BY <1>1, <1>4, <2>1, <2>2 DEF QuietRuns
<1>11. overlaps = 0 => s = Cur
  BY <1>7, <1>8, OnlyCurActs
<1>12. SameTimes(disk, mem) => SameTimes(disk, jobs)
  <2>1. \A i \in DOMAIN mem : mem[i] \in Job
    BY Basics, StoreElim
  <2>2. \A i \in DOMAIN mem : jobs[i].enabled = mem[i].enabled /\ jobs[i].next = mem[i].next
    BY <1>5, <2>1 DEF Job
  <2> QED
    BY <1>5, <2>2 DEF SameTimes
<1>13. Good(jobs, now, Unsettled, errors)
  <2>1. Good(mem, now, Unsettled, errors)
    BY DEF Ledger, Books
  <2> QED
    BY <1>5, <2>1, Basics, RemarkedIsGood
<1> QED
  BY <1>1, <1>9, <1>10, <1>11, <1>12, <1>13, StoresKeep

\* A step that leaves the stores alone.
LEMMA StillLedger ==
  ASSUME IInv, IInv', Ledger, now <= now', UNCHANGED << disk, svc, overlaps >>, Dated',
         \A j \in Jobs : Unsettled'[j] + errors <= Unsettled[j] + errors'
  PROVE  Ledger'
<1>1. Types /\ Types'
  BY DEF IInv
<1>2. Books'
  BY <1>1, BooksKept DEF Ledger
<1>3. Agree'
  BY DEF Ledger, Agree, Alive, Started, Cur, SameTimes
<1> QED
  BY <1>2, <1>3 DEF Ledger

LEMMA QuietLedger ==
  ASSUME IInv, IInv', Ledger, now <= now', UNCHANGED << disk, svc, errors, overlaps >>, QuietRuns
  PROVE  Ledger'
<1>1. Types /\ Types' /\ errors \in Nat /\ errors' = errors
  BY Bounds DEF IInv, Types
<1>2. \A j \in Jobs : Unsettled'[j] + errors <= Unsettled[j] + errors'
  BY <1>1, FailedRunsType, QuietRunsFail DEF Unsettled
<1>3. Dated'
  BY <1>1, QuietRunsAreDated DEF Ledger
<1> QED
  BY <1>2, <1>3, StillLedger

LEMMA TickLedger ==
  ASSUME IInv, IInv', Ledger, Tick
  PROVE  Ledger'
<1>1. now' = now + 1 /\ UNCHANGED << disk, svc, batch, manual, errors, overlaps >>
  BY DEF Tick, store, counters, history
<1>2. now <= now'
  BY <1>1, Bounds DEF IInv, Types
<1>3. QuietRuns
  BY <1>1 DEF QuietRuns
<1> QED
  BY <1>1, <1>2, <1>3, QuietLedger

LEMMA EndRunLedger ==
  ASSUME IInv, IInv', Ledger, NEW s \in Services, NEW b \in Batches, NEW j \in Jobs,
         NEW outcome \in Outcomes, EndRun(s, b, j, outcome)
  PROVE  Ledger'
<1> DEFINE run == [batch[s][b][j] EXCEPT !.stage = "ended", !.outcome = outcome]
<1>1. /\ batch' = [batch EXCEPT ![s][b][j] = run]
      /\ errors' = (IF outcome = "ok" THEN errors ELSE errors + 1)
      /\ UNCHANGED << now, disk, svc, manual, overlaps >>
  BY DEF EndRun, store, history
<1>2. batch \in [Services -> [Batches -> [Jobs -> Run]]] /\ errors \in Nat /\ now \in Nat
  BY Bounds DEF IInv, Types
<1>3. run.outcome = outcome /\ run.start = batch[s][b][j].start
  BY <1>2 DEF Run
<1> HIDE DEF run
<1>4. \A r \in Services, c \in Batches, i \in Jobs :
        batch'[r][c][i] = IF r = s /\ c = b /\ i = j THEN run ELSE batch[r][c][i]
  BY <1>1, <1>2
<1>5. Dated'
  BY <1>1, <1>3, <1>4 DEF Ledger, Dated
<1>6. \A r \in Services \X Batches : r[1] \in Services /\ r[2] \in Batches /\ r = << r[1], r[2] >>
  OBVIOUS
<1>7. ASSUME NEW i \in Jobs PROVE Unsettled'[i] + errors <= Unsettled[i] + errors'
  <2>1. Unsettled' = FailedRuns(batch', manual) /\ Unsettled[i] \in Nat /\ Unsettled'[i] \in Nat
    BY <1>1, FailedRunsType DEF Unsettled
  <2>2. CASE outcome = "ok"
    <3>1. Failed(batch', i) \subseteq Failed(batch, i)
      BY <1>3, <1>4, <1>6, <2>2 DEF Failed
    <3>2. Unsettled'[i] <= Unsettled[i]
      BY <2>1, <3>1, FailedRunsShrink DEF Unsettled
    <3> QED
      BY <1>1, <1>2, <2>1, <2>2, <3>2
  <2>3. CASE outcome # "ok"
    <3>1. Failed(batch', i) \subseteq Failed(batch, i) \cup {<< s, b >>}
      BY <1>4, <1>6 DEF Failed
    <3>2. Unsettled'[i] <= Unsettled[i] + 1
      BY <2>1, <3>1, FailedRunsGrow DEF Unsettled
    <3> QED
      BY <1>1, <1>2, <2>1, <2>3, <3>2
  <2> QED
    BY <2>2, <2>3
<1>8. now <= now'
  BY <1>1, <1>2
<1> QED
  BY <1>1, <1>5, <1>7, <1>8, StillLedger

LEMMA EndManualLedger ==
  ASSUME IInv, IInv', Ledger, NEW m \in Manuals, NEW outcome \in Outcomes, EndManual(m, outcome)
  PROVE  Ledger'
<1> DEFINE run == [manual[m].run EXCEPT !.stage = "ended", !.outcome = outcome]
           x == [manual[m] EXCEPT !.run = run]
<1>1. /\ manual' = [manual EXCEPT ![m] = x]
      /\ errors' = (IF outcome = "ok" THEN errors ELSE errors + 1)
      /\ UNCHANGED << now, disk, svc, batch, overlaps >>
  BY DEF EndManual, store, history
<1>2. /\ manual \in [Manuals -> ManualState] /\ errors \in Nat /\ now \in Nat
      /\ manual[m] \in ManualState /\ manual[m].run \in Run
  BY Bounds DEF IInv, Types, ManualState
<1>3. run.outcome = outcome /\ run.start = manual[m].run.start
  BY <1>2 DEF Run
<1> HIDE DEF run
<1>4. x.run = run /\ x.at = manual[m].at /\ x.stage = manual[m].stage /\ x.job = manual[m].job
  BY <1>2 DEF ManualState
<1> HIDE DEF x
<1>5. \A k \in Manuals : manual'[k] = IF k = m THEN x ELSE manual[k]
  BY <1>1, <1>2
<1>6. Dated'
  BY <1>1, <1>3, <1>4, <1>5 DEF Ledger, Dated
<1>7. ASSUME NEW i \in Jobs PROVE Unsettled'[i] + errors <= Unsettled[i] + errors'
  <2>1. Unsettled' = FailedRuns(batch, manual') /\ Unsettled[i] \in Nat /\ Unsettled'[i] \in Nat
    BY <1>1, FailedRunsType DEF Unsettled
  <2>2. CASE outcome = "ok"
    <3>1. FailedByHand(manual', i) \subseteq FailedByHand(manual, i)
      BY <1>3, <1>4, <1>5, <2>2 DEF FailedByHand
    <3>2. Unsettled'[i] <= Unsettled[i]
      BY <2>1, <3>1, FailedRunsShrink DEF Unsettled
    <3> QED
      BY <1>1, <1>2, <2>1, <2>2, <3>2
  <2>3. CASE outcome # "ok"
    <3>1. FailedByHand(manual', i) \subseteq FailedByHand(manual, i) \cup {m}
      BY <1>5 DEF FailedByHand
    <3>2. Unsettled'[i] <= Unsettled[i] + 1
      BY <2>1, <3>1, FailedRunsGrow DEF Unsettled
    <3> QED
      BY <1>1, <1>2, <2>1, <2>3, <3>2
  <2> QED
    BY <2>2, <2>3
<1>8. now <= now'
  BY <1>1, <1>2
<1> QED
  BY <1>1, <1>6, <1>7, <1>8, StillLedger

\* The service that is new waits for the lock.
LEMMA NewServiceLedger ==
  ASSUME IInv, IInv', Ledger, NEW s \in Services, s = Cardinality(Started) + 1,
         UNCHANGED << now, disk, batch, manual, errors >>, svc'[s].phase = "boot",
         \A r \in Services : svc'[r].mem = svc[r].mem,
         \A r \in Services \ {s} : svc'[r].phase = svc[r].phase
  PROVE  Ledger'
<1>1. PICK k \in 0 .. MaxServices : Started = 1 .. k
  BY DEF IInv, ServicesInOrder
<1>2. s = k + 1 /\ k \in Nat
  BY <1>1, NextIsNew
<1>3. Started' = 1 .. k + 1
  <2>1. Started' = Started \cup {s}
    BY DEF Started
  <2> QED
    BY <1>1, <1>2, <2>1
<1>4. Cur' = s
  BY <1>2, <1>3 DEF Cur, Max
<1>5. Agree'
  BY <1>4 DEF Agree
<1>6. Types /\ Types' /\ QuietRuns /\ now <= now' /\ errors \in Nat
  BY Bounds DEF IInv, Types, QuietRuns
<1>7. \A j \in Jobs : Unsettled'[j] + errors <= Unsettled[j] + errors'
  BY <1>6, FailedRunsType, QuietRunsFail DEF Unsettled
<1>8. Books' /\ Dated'
  BY <1>6, <1>7, BooksKept, QuietRunsAreDated DEF Ledger
<1> QED
  BY <1>5, <1>8 DEF Ledger

LEMMA BootLedger ==
  ASSUME IInv, IInv', Ledger, NEW s \in Services, Boot(s)
  PROVE  Ledger'
<1> DEFINE x == [svc[s] EXCEPT !.phase = "boot"]
<1>1. /\ s = Cardinality(Started) + 1 /\ svc' = [svc EXCEPT ![s] = x]
      /\ UNCHANGED << now, disk, batch, manual, errors >>
  BY DEF Boot, counters
<1>2. x.phase = "boot" /\ x.mem = svc[s].mem /\ svc \in [Services -> ServiceState]
  BY Basics DEF ServiceState
<1> HIDE DEF x
<1>3. \A r \in Services : svc'[r] = IF r = s THEN x ELSE svc[r]
  BY <1>1, <1>2
<1> QED
  BY <1>1, <1>2, <1>3, NewServiceLedger

LEMMA ReloadLedger ==
  ASSUME IInv, IInv', Ledger, NEW s \in Services, Reload(s)
  PROVE  Ledger'
<1>1. /\ Alive # {} /\ s = Cardinality(Started) + 1
      /\ svc' = [svc EXCEPT ![s].phase = "boot", ![Cur].timer = FALSE]
      /\ UNCHANGED << now, disk, batch, manual, errors >>
  BY DEF Reload
<1>2. PICK c \in Services : c = Cur /\ c \in Started
  BY <1>1 DEF IInv, CurIsAlive, Alive, Started
<1>3. s # c
  <2>1. PICK k \in 0 .. MaxServices : Started = 1 .. k
    BY DEF IInv, ServicesInOrder
  <2> QED
    BY <1>1, <1>2, <2>1, NextIsNew
<1>4. svc' = [svc EXCEPT ![s].phase = "boot", ![c].timer = FALSE] /\ svc \in [Services -> ServiceState]
  BY <1>1, <1>2, Basics
<1>5. /\ svc'[s] = [svc[s] EXCEPT !.phase = "boot"] /\ svc'[c] = [svc[c] EXCEPT !.timer = FALSE]
      /\ \A r \in Services \ {s, c} : svc'[r] = svc[r]
  BY <1>3, <1>4
<1>6. svc[s] \in ServiceState /\ svc[c] \in ServiceState
  BY <1>4
<1>7. svc'[s].phase = "boot" /\ svc'[s].mem = svc[s].mem /\ svc'[c].phase = svc[c].phase /\ svc'[c].mem = svc[c].mem
  BY <1>5, <1>6 DEF ServiceState
<1>8. /\ \A r \in Services : svc'[r].mem = svc[r].mem
      /\ \A r \in Services \ {s} : svc'[r].phase = svc[r].phase
  BY <1>5, <1>7
<1> QED
  BY <1>1, <1>7, <1>8, NewServiceLedger

LEMMA CrashLedger ==
  ASSUME IInv, IInv', Ledger, Crash
  PROVE  Ledger'
<1> DEFINE dead == [NoService EXCEPT !.phase = "dead"]
           over == [NoManual EXCEPT !.stage = "over"]
<1>1. /\ svc' = [s \in Services |-> IF s \in Started THEN dead ELSE svc[s]]
      /\ batch' = [s \in Services |-> [b \in Batches |-> Idle]]
      /\ manual' = [m \in Manuals |-> IF manual[m].stage = "new" THEN manual[m] ELSE over]
      /\ UNCHANGED << now, disk, errors, overlaps >>
  BY DEF Crash, counters, history
<1>2. dead.phase = "dead" /\ DOMAIN dead.mem = {}
  BY NoServices DEF ServiceState
<1>3. /\ over.run.stage # "ended" /\ over.run.start = 0 /\ over.at = 0
      /\ \A j \in Jobs : Idle[j].stage # "ended" /\ Idle[j].start = 0
  BY DEF NoManual, Idle, NoRun
<1> HIDE DEF dead, over
<1>4. Types /\ Types' /\ now <= now' /\ 0 <= now' /\ errors \in Nat /\ errors' = errors
  BY <1>1, Bounds DEF IInv, Types
<1>5. QuietRuns
  BY <1>1, <1>3, <1>4 DEF QuietRuns
<1>6. \A j \in Jobs : Unsettled'[j] + errors <= Unsettled[j] + errors'
  BY <1>4, <1>5, FailedRunsType, QuietRunsFail DEF Unsettled
<1>7. \A s \in Services : svc'[s].mem = svc[s].mem \/ Good(svc'[s].mem, now', Unsettled', errors')
  BY <1>1, <1>2 DEF Good
<1>8. Books' /\ Dated'
  BY <1>1, <1>4, <1>5, <1>6, <1>7, BooksKept, QuietRunsAreDated DEF Ledger
<1>9. Alive' = {}
  BY <1>1, <1>2 DEF Alive, Started
<1> QED
  BY <1>8, <1>9 DEF Ledger, Agree

LEMMA AddLedger ==
  ASSUME IInv, IInv', Ledger, NEW s \in Services, NEW j \in Jobs, Add(s, j)
  PROVE  Ledger'
<1> DEFINE mem == svc[s].mem
           all == [i \in DOMAIN mem \cup {j} |-> IF i = j THEN NewJob(j, now) ELSE mem[i]]
           jobs == Recomputed(all, now)
<1>1. /\ Serving(s) /\ PersistAndArm(s, jobs, TRUE)
      /\ Overlap(s # Cur) /\ UNCHANGED << now, batch, manual, errors >>
  BY DEF Add
<1>2. mem \in Stores /\ now \in 1 .. MaxTime /\ errors \in Nat /\ Types
  BY Basics
<1>3. /\ all \in [DOMAIN mem \cup {j} -> Job] /\ DOMAIN mem \cup {j} \in SUBSET Jobs
      /\ \A i \in DOMAIN mem \cup {j} : all[i] = IF i = j THEN NewJob(j, now) ELSE mem[i]
  BY <1>2, StoreElim, NewJobs
<1>4. Good(all, now, Unsettled, errors)
  <2>1. GoodJob(j, NewJob(j, now), now, Unsettled[j], errors)
    <3> DEFINE blank == [enabled |-> TRUE, next |-> 0, running |-> 0, last |-> 0,
                         status |-> "none", failures |-> 0]
    <3>1. 0 \in 0 .. Horizon /\ 0 \in 0 .. MaxTime
      BY Bounds
    <3>2. blank \in Job /\ blank.last <= now /\ blank.failures = 0
      BY <1>2, <3>1 DEF Job
    <3>3. NewJob(j, now) = Rescheduled(j, blank, now)
      BY DEF NewJob
    <3> HIDE DEF blank
    <3>4. blank.failures + Unsettled[j] <= errors
      <4>1. Unsettled[j] <= errors /\ Unsettled[j] \in Nat
        BY FailedRunsType DEF Ledger, Books, Unsettled
      <4> QED
        BY <3>2, <4>1
    <3> QED
      BY <1>2, <3>2, <3>3, <3>4, RescheduledIsGood
  <2>2. \A i \in DOMAIN mem : GoodJob(i, mem[i], now, Unsettled[i], errors)
    BY DEF Ledger, Books, Good
  <2>3. DOMAIN all = DOMAIN mem \cup {j}
    OBVIOUS
  <2> HIDE DEF mem, all
  <2> QED
    BY <1>3, <2>1, <2>2, <2>3 DEF Good
<1>5. Good(jobs, now, Unsettled, errors)
  <2>1. all \in Stores
    BY <1>3, StoreIntro
  <2> HIDE DEF all
  <2> QED
    BY <1>2, <1>4, <2>1, MaintainedIsGood
<1> HIDE DEF jobs
<1>6. s \in Alive /\ (overlaps' = 0 => overlaps = 0 /\ s = Cur)
  BY <1>1, ServingIsCur
<1>7. Acts(s) /\ disk' = jobs /\ svc'[s].mem = jobs /\ svc'[s].phase = svc[s].phase
  <2>1. Types /\ s \in Alive
    BY <1>1, <1>6, Basics
  <2> QED
    BY <1>1, <2>1, PersistActs
<1>8. QuietRuns
  BY <1>1 DEF QuietRuns
<1> QED
  BY <1>1, <1>5, <1>6, <1>7, <1>8, SavesKeep

LEMMA UpdateLedger ==
  ASSUME IInv, IInv', Ledger, NEW s \in Services, NEW j \in Jobs, NEW enabled \in BOOLEAN, Update(s, j, enabled)
  PROVE  Ledger'
<1> DEFINE mem == svc[s].mem
           job == [mem[j] EXCEPT !.enabled = enabled, !.running = IF enabled THEN @ ELSE 0]
           new == Rescheduled(j, job, now)
           jobs == [mem EXCEPT ![j] = new]
<1>1. /\ Serving(s) /\ j \in DOMAIN mem /\ PersistAndArm(s, jobs, TRUE)
      /\ Overlap(s # Cur) /\ UNCHANGED << now, batch, manual, errors >>
  BY DEF Update
<1>2. mem \in Stores /\ now \in 1 .. MaxTime /\ Types /\ Good(mem, now, Unsettled, errors)
  BY Basics DEF Ledger, Books
<1>3. /\ mem[j] \in Job /\ GoodJob(j, mem[j], now, Unsettled[j], errors)
      /\ DOMAIN jobs = DOMAIN mem /\ jobs[j] = new /\ \A i \in DOMAIN mem : i # j => jobs[i] = mem[i]
  BY <1>1, <1>2, StoreElim DEF Good
<1>4. GoodJob(j, new, now, Unsettled[j], errors)
  <2>1. job \in Job /\ job.failures = mem[j].failures /\ job.last = mem[j].last
    <3>1. 0 \in 0 .. MaxTime
      BY Bounds
    <3>2. mem[j] \in Job
      BY <1>3
    <3> HIDE DEF mem
    <3> QED
      BY <3>1, <3>2 DEF Job
  <2> HIDE DEF job
  <2> QED
    BY <1>2, <1>3, <2>1, RescheduledIsGood DEF GoodJob
<1> HIDE DEF new, job, jobs
<1>5. Good(jobs, now, Unsettled, errors)
  BY <1>2, <1>3, <1>4 DEF Good
<1>6. s \in Alive /\ (overlaps' = 0 => overlaps = 0 /\ s = Cur)
  BY <1>1, ServingIsCur
<1>7. Acts(s) /\ disk' = jobs /\ svc'[s].mem = jobs /\ svc'[s].phase = svc[s].phase
  <2>1. Types /\ s \in Alive
    BY <1>1, <1>6, Basics
  <2> QED
    BY <1>1, <2>1, PersistActs
<1>8. QuietRuns
  BY <1>1 DEF QuietRuns
<1> QED
  BY <1>1, <1>5, <1>6, <1>7, <1>8, SavesKeep

LEMMA RemoveLedger ==
  ASSUME IInv, IInv', Ledger, NEW s \in Services, NEW j \in Jobs, Remove(s, j)
  PROVE  Ledger'
<1> DEFINE mem == svc[s].mem
           jobs == [i \in DOMAIN mem \ {j} |-> mem[i]]
<1>1. /\ Serving(s) /\ PersistAndArm(s, jobs, TRUE)
      /\ Overlap(s # Cur) /\ UNCHANGED << now, batch, manual, errors >>
  BY DEF Remove
<1>2. Good(jobs, now, Unsettled, errors)
  BY DEF Ledger, Books, Good
<1> HIDE DEF jobs
<1>3. s \in Alive /\ (overlaps' = 0 => overlaps = 0 /\ s = Cur)
  BY <1>1, ServingIsCur
<1>4. Acts(s) /\ disk' = jobs /\ svc'[s].mem = jobs /\ svc'[s].phase = svc[s].phase
  <2>1. Types /\ s \in Alive
    BY <1>1, <1>3, Basics
  <2> QED
    BY <1>1, <2>1, PersistActs
<1>5. QuietRuns
  BY <1>1 DEF QuietRuns
<1> QED
  BY <1>1, <1>2, <1>3, <1>4, <1>5, SavesKeep

LEMMA ReadLedger ==
  ASSUME IInv, IInv', Ledger, NEW s \in Services, Read(s)
  PROVE  Ledger'
<1> DEFINE jobs == Maintained(svc[s].mem, now, FALSE)
<1>1. /\ Serving(s) /\ Persist(s, jobs, TRUE) /\ Overlap(s # Cur)
      /\ UNCHANGED << now, batch, manual, errors >>
  BY DEF Read, counters
<1>2. Good(jobs, now, Unsettled, errors)
  BY Basics, MaintainedIsGood DEF Ledger, Books
<1> HIDE DEF jobs
<1>3. s \in Alive /\ (overlaps' = 0 => overlaps = 0 /\ s = Cur)
  BY <1>1, ServingIsCur
<1>4. Acts(s) /\ disk' = jobs /\ svc'[s].mem = jobs /\ svc'[s].phase = svc[s].phase
  <2>1. Types /\ s \in Alive
    BY <1>1, <1>3, Basics
  <2> QED
    BY <1>1, <2>1, PersistActs
<1>5. QuietRuns
  BY <1>1 DEF QuietRuns
<1> QED
  BY <1>1, <1>2, <1>3, <1>4, <1>5, SavesKeep

\* A preflight gives no job another time.
LEMMA PreflightLedger ==
  ASSUME IInv, IInv', Ledger, NEW s \in Services, Serving(s), Preflight(s), Overlap(s # Cur),
         UNCHANGED << now, disk, errors >>, QuietRuns
  PROVE  Ledger'
<1> DEFINE mem == svc[s].mem
           jobs == Maintained(mem, now, FALSE)
           x == [svc[s] EXCEPT !.mem = jobs]
<1>1. svc' = [svc EXCEPT ![s] = x]
  BY DEF Preflight
<1>2. Types /\ mem \in Stores /\ Timed(mem) /\ now \in 1 .. MaxTime /\ Good(mem, now, Unsettled, errors)
  BY Basics DEF Ledger, Books, Types
<1>3. SameTimes(mem, jobs) /\ Good(jobs, now, Unsettled, errors) /\ DOMAIN jobs = DOMAIN mem
  <2>1. DOMAIN jobs = DOMAIN mem
    BY DEF Maintained
  <2>2. SameTimes(mem, jobs) /\ Good(jobs, now, Unsettled, errors)
    <3> HIDE DEF mem
    <3> QED
      BY <1>2, TimesAreMaintained, MaintainedIsGood
  <2> QED
    BY <2>1, <2>2
<1> HIDE DEF jobs
<1>4. s \in Alive /\ svc[s].phase # "boot" /\ (overlaps' = 0 => overlaps = 0 /\ s = Cur)
  BY ServingIsCur
<1>5. x.mem = jobs /\ x.phase = svc[s].phase
  BY Basics DEF ServiceState
<1> HIDE DEF x
<1>6. Acts(s) /\ svc'[s].mem = jobs
  BY <1>1, <1>2, <1>4, <1>5, ActsIntro
<1>7. SameTimes(disk, mem) => SameTimes(disk, jobs)
  BY <1>3 DEF SameTimes
<1> QED
  BY <1>3, <1>4, <1>6, <1>7, StoresKeep

LEMMA LookLedger ==
  ASSUME IInv, IInv', Ledger, NEW s \in Services, Look(s)
  PROVE  Ledger'
<1>1. /\ Serving(s) /\ Preflight(s) /\ Overlap(s # Cur)
      /\ UNCHANGED << now, disk, batch, manual, errors >>
  BY DEF Look, counters
<1>2. QuietRuns
  BY <1>1 DEF QuietRuns
<1> QED
  BY <1>1, <1>2, PreflightLedger

LEMMA InspectLedger ==
  ASSUME IInv, IInv', Ledger, NEW m \in Manuals, NEW s \in Services, NEW j \in Jobs, NEW forced \in BOOLEAN,
         Inspect(m, s, j, forced)
  PROVE  Ledger'
<1> DEFINE y == [NoManual EXCEPT !.svc = s, !.job = j, !.forced = forced, !.stage = "inspected", !.at = now]
<1>1. /\ Serving(s) /\ Preflight(s) /\ Overlap(s # Cur) /\ manual' = [manual EXCEPT ![m] = y]
      /\ UNCHANGED << now, disk, batch, errors >>
  BY DEF Inspect, counters
<1>2. y.run.stage # "ended" /\ y.run.start = 0 /\ y.at = now
  BY DEF NoManual, NoRun
<1>3. manual \in [Manuals -> ManualState] /\ now \in 1 .. MaxTime
  BY Basics DEF Types
<1> HIDE DEF y
<1>4. QuietRuns
  BY <1>1, <1>2, <1>3 DEF QuietRuns
<1> QED
  BY <1>1, <1>4, PreflightLedger

LEMMA ReserveLedger ==
  ASSUME IInv, IInv', Ledger, NEW m \in Manuals, Reserve(m)
  PROVE  Ledger'
<1>1. /\ Types /\ manual \in [Manuals -> ManualState] /\ manual[m] \in ManualState /\ m \in AtWork
      /\ manual[m].svc \in Services /\ manual[m].job \in Jobs /\ manual[m].svc \in Alive
      /\ now \in 1 .. MaxTime /\ manual[m].at <= now
  <2>1. m \in AtWork
    BY DEF Reserve, AtWork
  <2> QED
    BY <2>1 DEF IInv, Types, Owners, Alive, Started, Ledger, Dated
<1> PICK s \in Services, j \in Jobs, at \in 0 .. MaxTime :
           s = manual[m].svc /\ j = manual[m].job /\ at = manual[m].at
  BY <1>1 DEF ManualState
<1> DEFINE mem == svc[s].mem
           jobs == [mem EXCEPT ![j].running = at]
           free == j \in DOMAIN mem /\ mem[j].running = 0
           run == [NoRun EXCEPT !.stage = "running", !.start = at]
           y == [manual[m] EXCEPT !.stage = "reserved", !.run = run]
           over == [NoManual EXCEPT !.stage = "over"]
<1>2. /\ UNCHANGED << now, batch, errors, overlaps >>
      /\ free => Persist(s, jobs, TRUE) /\ manual' = [manual EXCEPT ![m] = y]
      /\ ~free => UNCHANGED << disk, svc >> /\ manual' = [manual EXCEPT ![m] = over]
  BY DEF Reserve, counters, history, store
<1>3. run.stage # "ended" /\ run.start = at /\ over.run.stage # "ended" /\ over.run.start = 0 /\ over.at = 0
  BY DEF NoRun, NoManual
<1>4. y.run = run /\ y.at = at
  <2> HIDE DEF run
  <2> QED
    BY <1>1 DEF ManualState
<1>5. QuietRuns
  <2> HIDE DEF y, run, over, free, jobs
  <2>1. \A k \in Manuals : manual'[k] \in {manual[k], y, over}
    BY <1>1, <1>2
  <2>2. now <= now' /\ 0 <= now' /\ at <= now'
    BY <1>1, <1>2
  <2> QED
    BY <1>2, <1>3, <1>4, <2>1, <2>2 DEF QuietRuns
<1>6. CASE ~free
  <2>1. now <= now'
    BY <1>1, <1>2
  <2> QED
    BY <1>2, <1>5, <1>6, <2>1, QuietLedger
<1>7. CASE free
  <2>1. Persist(s, jobs, TRUE)
    BY <1>2, <1>7
  <2>2. DOMAIN jobs = DOMAIN mem /\ \A i \in DOMAIN mem : jobs[i] = mem[i] \/ jobs[i] = [mem[i] EXCEPT !.running = at]
    BY <1>7
  <2> HIDE DEF jobs, free, y, run, over
  <2>3. Good(jobs, now, Unsettled, errors)
    <3>1. mem \in Stores /\ Good(mem, now, Unsettled, errors)
      BY Basics DEF Ledger, Books
    <3> HIDE DEF mem
    <3> QED
      BY <2>2, <3>1, RemarkedIsGood
  <2>4. Acts(s) /\ disk' = jobs /\ svc'[s].mem = jobs
    BY <1>1, <2>1, PersistActs
  <2>5. overlaps = 0 => s = Cur
    BY <1>1, OnlyCurActs
  <2> QED
    BY <1>2, <1>5, <2>3, <2>4, <2>5, SavesKeep
<1> QED
  BY <1>6, <1>7

\* The runs of a batch that is settled are no longer waited for.
LEMMA SettlesCounts ==
  ASSUME IInv, IInv', NEW s \in Services, NEW b \in Batches, Settles(s, b)
  PROVE  /\ QuietRuns
         /\ \A j \in Jobs : /\ Unsettled'[j] <= Unsettled[j]
                            /\ batch[s][b][j].stage = "ended" /\ batch[s][b][j].outcome # "ok" =>
                                 Unsettled'[j] + 1 <= Unsettled[j]
<1>1. \A r \in Services, c \in Batches, j \in Jobs :
        batch'[r][c][j] = IF r = s /\ c = b THEN NoRun ELSE batch[r][c][j]
  BY DEF Settles, Idle, IInv, Types
<1>2. NoRun.stage # "ended" /\ NoRun.start = 0 /\ 0 <= now' /\ manual' = manual
  BY Bounds DEF NoRun, Settles, IInv, Types
<1>3. QuietRuns
  BY <1>1, <1>2 DEF QuietRuns
<1>4. ASSUME NEW j \in Jobs, batch[s][b][j].stage = "ended", batch[s][b][j].outcome # "ok"
      PROVE  Unsettled'[j] + 1 <= Unsettled[j]
  <2>1. Failed(batch', j) \subseteq Failed(batch, j) /\ FailedByHand(manual', j) \subseteq FailedByHand(manual, j)
    BY <1>3, QuietRunsFail
  <2>2. << s, b >> \in Failed(batch, j) /\ << s, b >> \notin Failed(batch', j)
    BY <1>1, <1>2, <1>4 DEF Failed
  <2> QED
    BY <2>1, <2>2, FailedRunsShrink DEF Unsettled
<1> QED
  BY <1>3, <1>4, QuietRunsFail

\* So what they leave in the store is good.
LEMMA SettlesIsGood ==
  ASSUME IInv, IInv', Ledger, NEW s \in Services, NEW b \in Batches, Settles(s, b)
  PROVE  /\ Settled(disk, batch[s][b], now) \in Stores
         /\ Good(Settled(disk, batch[s][b], now), now, Unsettled', errors)
<1> DEFINE runs == batch[s][b]
           u == Unsettled
           u2 == Unsettled'
<1>1. /\ disk \in Stores /\ runs \in [Jobs -> Run] /\ now \in 1 .. MaxTime /\ errors \in Nat
      /\ u \in [Jobs -> Nat] /\ u2 \in [Jobs -> Nat] /\ Good(disk, now, u, errors)
  BY Basics, FailedRunsType DEF Types, Ledger, Books, Unsettled
<1>2. \A j \in Jobs : runs[j].start <= now
  BY DEF Ledger, Dated
<1>3. \A j \in Jobs : u2[j] <= u[j] /\ (runs[j].stage = "ended" /\ runs[j].outcome # "ok" => u2[j] + 1 <= u[j])
  BY SettlesCounts
<1> HIDE DEF runs, u, u2
<1>4. Good(Settled(disk, runs, now), now, u2, errors) /\ Settled(disk, runs, now) \in Stores
  BY <1>1, <1>2, <1>3, SettledIsGood, SettledStore
<1> QED
  BY <1>4 DEF runs, u2

LEMMA ApplyTickLedger ==
  ASSUME IInv, IInv', Ledger, NEW s \in Services, ApplyTick(s)
  PROVE  Ledger'
<1> DEFINE settled == Settled(disk, batch[s]["tick"], now)
           jobs == Maintained(settled, now, FALSE)
           x == [svc[s] EXCEPT !.mem = jobs, !.ticking = FALSE, !.fresh = FALSE, !.timer = Armed(jobs)]
<1>1. /\ svc[s].ticking /\ disk' = jobs /\ svc' = [svc EXCEPT ![s] = x] /\ Settles(s, "tick")
      /\ UNCHANGED << now, errors, overlaps >>
  BY DEF ApplyTick, Settles, counters
<1>2. settled \in Stores /\ Good(settled, now, Unsettled', errors)
  BY <1>1, SettlesIsGood DEF Batches
<1> HIDE DEF settled
<1>3. Good(jobs, now, Unsettled', errors)
  BY <1>2, Basics, MaintainedIsGood
<1> HIDE DEF jobs
<1>4. x.phase = svc[s].phase /\ x.mem = jobs
  BY Basics DEF ServiceState
<1> HIDE DEF x
<1>5. s \in Alive
  BY <1>1 DEF IInv, Owners
<1>6. Acts(s) /\ svc'[s].mem = jobs
  BY <1>1, <1>4, <1>5, Basics, ActsIntro
<1>7. QuietRuns
  BY <1>1, SettlesCounts DEF Batches
<1>8. overlaps = 0 => s = Cur
  BY <1>1, <1>5, OnlyCurActs
<1> QED
  BY <1>1, <1>3, <1>6, <1>7, <1>8, SavesKeep

LEMMA ApplyCatchupLedger ==
  ASSUME IInv, IInv', Ledger, NEW s \in Services, ApplyCatchup(s)
  PROVE  Ledger'
<1> DEFINE settled == Settled(disk, batch[s]["startup"], now)
           late == { j \in DOMAIN settled : svc[s].deferred[j] # 0 /\ settled[j].enabled }
           place(j) == Cardinality({ i \in late : svc[s].deferred[i] <= svc[s].deferred[j] })
           jobs == PutOff(settled, late, place)
           kept == Maintained(jobs, now, FALSE)
           x == [svc[s] EXCEPT !.phase = "arm", !.mem = kept, !.fresh = FALSE, !.deferred = [j \in Jobs |-> 0]]
<1>1. /\ svc[s].phase = "catchup" /\ disk' = kept /\ svc' = [svc EXCEPT ![s] = x] /\ Settles(s, "startup")
      /\ UNCHANGED << now, errors, overlaps >>
  BY DEF ApplyCatchup, Settles, PutOff, counters
<1>2. settled \in Stores /\ Good(settled, now, Unsettled', errors)
  BY <1>1, SettlesIsGood DEF Batches
<1>3. DOMAIN jobs = DOMAIN settled /\ \A j \in DOMAIN settled :
        jobs[j] = IF j \in late THEN [settled[j] EXCEPT !.next = now + Stagger * place(j)] ELSE settled[j]
  BY DEF PutOff
<1> HIDE DEF settled, jobs
<1>4. \A j \in late : place(j) \in 1 .. NumJobs
  <2> SUFFICES ASSUME NEW j \in late PROVE place(j) \in 1 .. NumJobs
    OBVIOUS
  <2> DEFINE before == { i \in late : svc[s].deferred[i] <= svc[s].deferred[j] }
  <2>1. IsFiniteSet(Jobs) /\ Cardinality(Jobs) = NumJobs
    BY FS_Interval, Bounds DEF Jobs
  <2>2. before \subseteq Jobs /\ j \in Jobs
    BY <1>2, StoreElim
  <2>3. svc[s].deferred[j] <= svc[s].deferred[j]
    BY <2>2, Basics, Bounds DEF ServiceState
  <2>4. j \in before
    BY <2>3
  <2> HIDE DEF before, late
  <2>5. IsFiniteSet(before) /\ Cardinality(before) <= NumJobs
    BY <2>1, <2>2, FS_Subset
  <2>6. Cardinality(before) \in Nat /\ Cardinality(before) # 0
    BY <2>4, <2>5, FS_CardinalityType, FS_EmptySet
  <2>7. place(j) = Cardinality(before)
    BY DEF before
  <2> HIDE DEF place
  <2> QED
    BY <2>5, <2>6, <2>7, Bounds
<1> HIDE DEF place, late
<1>5. jobs \in Stores
  <2>1. ASSUME NEW j \in late PROVE now + Stagger * place(j) \in 0 .. Horizon
    <3>1. Stagger \in Nat /\ NumJobs \in Nat /\ place(j) \in Nat /\ NumJobs - place(j) \in Nat
      BY <1>4, Bounds
    <3>2. Stagger * (NumJobs - place(j)) \in Nat /\ Stagger * place(j) \in Nat
      BY <3>1
    <3>3. Stagger * NumJobs = Stagger * place(j) + Stagger * (NumJobs - place(j))
      BY <3>1
    <3> QED
      BY <3>2, <3>3, Basics, Bounds
  <2>2. DOMAIN settled \in SUBSET Jobs /\ \A j \in DOMAIN settled : settled[j] \in Job
    BY <1>2, StoreElim
  <2>3. \A j \in DOMAIN settled : jobs[j] \in Job
    BY <1>3, <2>1, <2>2 DEF Job
  <2>4. jobs = [j \in DOMAIN settled |-> jobs[j]]
    BY DEF jobs, PutOff
  <2>5. jobs \in [DOMAIN settled -> Job]
    BY <2>3, <2>4
  <2> QED
    BY <2>2, <2>5, StoreIntro
<1>6. Good(jobs, now, Unsettled', errors)
  <2>1. now \in Nat
    BY Basics, Bounds
  <2>2. \A j \in DOMAIN settled :
          jobs[j] = settled[j] \/ \E n \in Nat \ {0} : jobs[j] = [settled[j] EXCEPT !.next = now + Stagger * n]
    BY <1>3, <1>4, Bounds
  <2> QED
    BY <1>2, <1>3, <2>1, <2>2, PutOffIsGood
<1>7. Good(kept, now, Unsettled', errors)
  <2> QED
    BY <1>5, <1>6, Basics, MaintainedIsGood
<1> HIDE DEF kept
<1>8. x.phase = "arm" /\ x.mem = kept
  BY Basics DEF ServiceState
<1> HIDE DEF x
<1>9. s \in Alive
  BY <1>1 DEF Alive, Started
<1>10. Acts(s) /\ svc'[s].mem = kept
  BY <1>1, <1>8, <1>9, Basics, ActsIntro
<1>11. QuietRuns
  BY <1>1, SettlesCounts DEF Batches
<1>12. overlaps = 0 => s = Cur
  BY <1>1, <1>9, OnlyCurActs
<1> QED
  BY <1>1, <1>7, <1>10, <1>11, <1>12, SavesKeep

LEMMA FinishManualLedger ==
  ASSUME IInv, IInv', Ledger, NEW m \in Manuals, FinishManual(m)
  PROVE  Ledger'
<1>1. /\ Types /\ manual \in [Manuals -> ManualState] /\ manual[m] \in ManualState
      /\ manual[m].stage = "reserved" /\ manual[m].run.stage = "ended" /\ manual[m].svc \in Alive
      /\ manual[m].svc \in Services /\ manual[m].job \in Jobs /\ manual[m].run \in Run
      /\ manual[m].run.start <= now /\ now \in 1 .. MaxTime /\ disk \in Stores /\ errors \in Nat
  <2>1. manual[m].stage = "reserved" /\ m \in AtWork /\ manual[m].run.stage = "ended"
    BY DEF FinishManual, AtWork
  <2> QED
    BY <2>1, Bounds DEF IInv, Types, Owners, Alive, Started, ManualState, Ledger, Dated
<1> PICK s \in Services, j \in Jobs, run \in Run :
           s = manual[m].svc /\ j = manual[m].job /\ run = manual[m].run
  BY <1>1
<1> DEFINE mem == svc[s].mem
           new == Result(j, mem[j], run, now)
           D == IF Deleted(j, run) THEN DOMAIN disk \ {j} ELSE DOMAIN disk
           merged == [i \in D |-> IF i = j THEN new ELSE disk[i]]
           jobs == Maintained(merged, now, TRUE)
           over == [NoManual EXCEPT !.stage = "over"]
<1>2. /\ manual' = [manual EXCEPT ![m] = over]
      /\ UNCHANGED << now, batch, errors, overlaps >>
      /\ j \in DOMAIN mem => PersistAndArm(s, jobs, FALSE)
      /\ j \notin DOMAIN mem => UNCHANGED << disk, svc >>
  <2> DEFINE s0 == manual[m].svc
             j0 == manual[m].job
             run0 == manual[m].run
             D0 == IF Deleted(j0, run0) THEN DOMAIN disk \ {j0} ELSE DOMAIN disk
             new0 == Result(j0, svc[s0].mem[j0], run0, now)
             merged0 == [i \in D0 |-> IF i = j0 THEN new0 ELSE disk[i]]
             jobs0 == Maintained(merged0, now, TRUE)
  <2>1. /\ manual' = [manual EXCEPT ![m] = over]
        /\ UNCHANGED << now, batch, errors, overlaps >>
    BY DEF FinishManual, counters
  <2>2. /\ j0 \in DOMAIN svc[s0].mem => PersistAndArm(s0, jobs0, FALSE)
        /\ j0 \notin DOMAIN svc[s0].mem => UNCHANGED << disk, svc >>
    BY DEF FinishManual, store
  <2>3. D0 = D /\ new0 = new
    OBVIOUS
  <2>4. merged0 = merged
    <3> HIDE DEF D0, D, new0, new
    <3> QED
      BY <2>3
  <2>5. jobs0 = jobs
    BY <2>4
  <2> HIDE DEF jobs0, merged0, jobs, merged, over
  <2> QED
    BY <2>1, <2>2, <2>4, <2>5
<1>3. over.run.stage # "ended" /\ over.run.start = 0 /\ over.at = 0 /\ over.stage = "over"
  BY DEF NoRun, NoManual
<1> HIDE DEF over
<1>4. QuietRuns
  <2>1. \A k \in Manuals : manual'[k] \in {manual[k], over}
    BY <1>1, <1>2
  <2>2. now <= now' /\ 0 <= now'
    BY <1>1, <1>2
  <2> QED
    BY <1>2, <1>3, <2>1, <2>2 DEF QuietRuns
<1>5. CASE j \notin DOMAIN mem
  <2>1. UNCHANGED << now, disk, svc, errors, overlaps >> /\ now <= now'
    BY <1>1, <1>2, <1>5
  <2> QED
    BY <1>4, <2>1, QuietLedger
<1>6. CASE j \in DOMAIN mem
  <2> DEFINE u == Unsettled
             u2 == Unsettled'
  <2>1. PersistAndArm(s, jobs, FALSE)
    BY <1>2, <1>6
  <2>2. mem \in Stores /\ Good(mem, now, u, errors) /\ Good(disk, now, u, errors)
    BY Basics DEF Ledger, Books
  <2>3. Good(disk, now, u2, errors)
    BY <1>1, <1>4, <2>2, Bounds, QuietRunsGood
  <2>4. u[j] \in Nat /\ u2[j] \in Nat /\ u2[j] <= u[j] /\ (run.outcome # "ok" => u2[j] + 1 <= u[j])
    <3>1. u \in [Jobs -> Nat] /\ u2 \in [Jobs -> Nat] /\ u2[j] <= u[j]
      BY <1>4, FailedRunsType, QuietRunsFail DEF Unsettled
    <3>2. ASSUME run.outcome # "ok" PROVE u2[j] + 1 <= u[j]
      <4>1. Failed(batch', j) \subseteq Failed(batch, j) /\ FailedByHand(manual', j) \subseteq FailedByHand(manual, j)
        BY <1>4, QuietRunsFail
      <4>2. m \in FailedByHand(manual, j)
        BY <1>1, <3>2 DEF FailedByHand
      <4>3. manual'[m] = over
        BY <1>1, <1>2
      <4>4. m \notin FailedByHand(manual', j)
        BY <1>3, <4>3 DEF FailedByHand
      <4> QED
        BY <4>1, <4>2, <4>4, FailedRunsShrink DEF Unsettled
    <3> QED
      BY <3>1, <3>2
  <2> HIDE DEF u, u2
  <2>5. mem[j] \in Job /\ GoodJob(j, mem[j], now, u[j], errors)
    <3> HIDE DEF mem
    <3> QED
      BY <1>6, <2>2, StoreElim DEF Good
  <2>6. run.start <= now
    BY <1>1
  <2>7. new \in Job /\ GoodJob(j, new, now, u2[j], errors)
    <3> HIDE DEF mem
    <3> QED
      BY <1>1, <2>4, <2>5, <2>6, ResultJob, ResultIsGood
  <2>8. D \in SUBSET Jobs /\ D \subseteq DOMAIN disk /\ \A i \in DOMAIN disk : disk[i] \in Job
    BY <1>1, StoreElim
  <2> HIDE DEF new, D
  <2>9. merged \in Stores
    <3>1. merged \in [D -> Job]
      BY <2>7, <2>8
    <3> HIDE DEF merged
    <3> QED
      BY <2>8, <3>1, StoreIntro
  <2>10. Good(merged, now, u2, errors)
    BY <2>3, <2>7, <2>8 DEF Good
  <2> HIDE DEF merged
  <2>11. Good(jobs, now, u2, errors)
    BY <1>1, <2>9, <2>10, MaintainedIsGood
  <2> HIDE DEF jobs
  <2>12. Acts(s) /\ disk' = jobs /\ svc'[s].mem = jobs /\ svc'[s].phase = svc[s].phase
    BY <1>1, <2>1, PersistActs
  <2>13. overlaps = 0 => s = Cur
    <3>1. overlaps = 0 => OldOnesAreQuiet
      BY <1>1 DEF IInv, WithoutOverlaps, Alive
    <3> QED
      BY <1>1, <3>1 DEF OldOnesAreQuiet, AtWork
  <2>14. Good(disk', now, Unsettled', errors)
    BY <2>11, <2>12 DEF u2
  <2> QED
    BY <1>2, <1>4, <2>12, <2>13, <2>14, SavesKeep
<1> QED
  BY <1>5, <1>6

LEMMA InitLedger ==
  ASSUME Init
  PROVE  Ledger
<1>1. IInv
  BY InitIInv
<1>2. PICK late \in SUBSET InitialJobs :
        disk = [j \in InitialJobs |-> [NewJob(j, 1) EXCEPT !.next = IF j \in late THEN 1 ELSE @]]
  BY DEF Init
<1>3. /\ now = 1 /\ svc = [s \in Services |-> NoService] /\ errors = 0 /\ 1 \in 1 .. MaxTime
      /\ batch = [s \in Services |-> [b \in Batches |-> Idle]] /\ manual = [m \in Manuals |-> NoManual]
      /\ InitialJobs \subseteq Jobs
  BY Bounds, ConstantsAssumption DEF Init
<1>4. ASSUME NEW j \in Jobs PROVE Unsettled[j] = 0
  <2>1. Failed(batch, j) = {} /\ FailedByHand(manual, j) = {}
    BY <1>3 DEF Failed, FailedByHand, Idle, NoRun, NoManual
  <2>2. Cardinality({}) = 0
    BY FS_EmptySet
  <2>3. FailedRuns(batch, manual)[j] = Cardinality(Failed(batch, j)) + Cardinality(FailedByHand(manual, j))
    BY FailedRunsFinite
  <2> QED
    BY ONLY <2>1, <2>2, <2>3 DEF Unsettled
<1>5. Good(disk, 1, Unsettled, 0)
  <2> SUFFICES ASSUME NEW j \in InitialJobs PROVE GoodJob(j, disk[j], 1, 0, 0)
    BY <1>2, <1>3, <1>4 DEF Good
  <2> DEFINE blank == [enabled |-> TRUE, next |-> 0, running |-> 0, last |-> 0, status |-> "none", failures |-> 0]
             new == Rescheduled(j, blank, 1)
  <2>1. blank \in Job /\ blank.last = 0 /\ blank.failures = 0 /\ j \in Jobs
    BY <1>3, Bounds DEF Job
  <2> HIDE DEF blank
  <2>2. new \in Job /\ new.last = 0 /\ new.failures = 0 /\ GoodJob(j, new, 1, 0, 0)
    BY <1>3, <2>1, RescheduledJob, RescheduledIsGood
  <2>3. disk[j] = [new EXCEPT !.next = 1] \/ disk[j] = new
    <3>1. NewJob(j, 1) = new
      BY DEF NewJob, blank
    <3>2. new = [new EXCEPT !.next = new.next]
      BY <2>2 DEF Job
    <3> QED
      BY <1>2, <3>1, <3>2
  <2> HIDE DEF new
  <2>4. GoodJob(j, [new EXCEPT !.next = 1], 1, 0, 0)
    BY <2>2 DEF GoodJob, TimeIsNew, Job
  <2> QED
    BY <2>2, <2>3, <2>4
<1>6. Books
  <2>1. \A s \in Services : Good(svc[s].mem, now, Unsettled, errors)
    BY <1>3, NoServices DEF Good
  <2> QED
    BY <1>3, <1>4, <1>5, <2>1 DEF Books
<1>7. Dated
  BY <1>3 DEF Dated, Idle, NoRun, NoManual
<1>8. Agree
  BY <1>3, NoServices DEF Agree, Alive, Started
<1> QED
  BY <1>6, <1>7, <1>8 DEF Ledger

LEMMA NextLedger ==
  ASSUME IInv, IInv', Ledger, [Next]_vars
  PROVE  Ledger'
<1>1. ASSUME NEW s \in Services,
             \/ Boot(s) \/ Reload(s) \/ Starting(s) \/ OnTimer(s) \/ ApplyTick(s) \/ Working(s) \/ Request(s)
      PROVE  Ledger'
  <2>1. CASE Boot(s) \/ Reload(s)
    BY <2>1, BootLedger, ReloadLedger
  <2>2. CASE Starting(s)
    BY <2>2, ClearMarkersLedger, PlanCatchupLedger, ApplyCatchupLedger, ArmLedger DEF Starting
  <2>3. CASE OnTimer(s) \/ ApplyTick(s)
    BY <2>3, OnTimerLedger, ApplyTickLedger
  <2>4. CASE Working(s)
    BY <2>4, BeginRunLedger, EndRunLedger DEF Working
  <2>5. CASE Request(s)
    BY <2>5, ReadLedger, LookLedger, AddLedger, RemoveLedger, UpdateLedger, InspectLedger DEF Request
  <2> QED
    BY <1>1, <2>1, <2>2, <2>3, <2>4, <2>5
<1>2. ASSUME NEW m \in Manuals, Manually(m)
      PROVE  Ledger'
  BY <1>2, ReserveLedger, EndManualLedger, FinishManualLedger DEF Manually
<1>3. ASSUME UNCHANGED vars
      PROVE  Ledger'
  <2>1. UNCHANGED << now, disk, svc, batch, manual, errors, overlaps >>
    BY <1>3 DEF vars, store, counters, history
  <2>2. QuietRuns /\ now <= now'
    BY <2>1, Bounds DEF QuietRuns, IInv, Types
  <2> QED
    BY <2>1, <2>2, QuietLedger
<1> QED
  BY <1>1, <1>2, <1>3, TickLedger, CrashLedger DEF Next

\* What the jobs count as failed never exceeds the failed runs, no job ran ahead of its
\* time, and the current service waits for what the file says.
THEOREM LedgerHolds == Spec => []Ledger
<1>1. Init => Ledger
  BY InitLedger
<1>2. IInv /\ IInv' /\ Ledger /\ [Next]_vars => Ledger'
  BY NextLedger
<1> QED
  BY <1>1, <1>2, Invariance, PTL DEF Spec

\* The types, with the bound on what a job has failed: a failed run is counted once, by
\* its job, when it is settled, and never by two copies of the store.
THEOREM TypesHold == Spec => []TypeOK
<1>1. ASSUME IInv, Ledger
      PROVE  TypeOK
  <2>1. ASSUME NEW jobs \in Stores, Good(jobs, now, Unsettled, errors)
        PROVE  IsStore(jobs)
    <3>1. ASSUME NEW j \in DOMAIN jobs PROVE jobs[j] \in JobState
      <4>1. jobs[j] \in Job /\ j \in Jobs
        BY StoreElim
      <4>2. jobs[j].failures + Unsettled[j] <= errors /\ Unsettled[j] \in Nat /\ jobs[j].failures \in Nat
        BY <2>1, <4>1, FailedRunsType DEF Good, GoodJob, Unsettled, Job
      <4>3. jobs[j].failures \in 0 .. MaxErrors
        BY <1>1, <4>2, Bounds DEF IInv, Types
      <4> QED
        BY <4>1, <4>3 DEF Job, JobState
    <3> QED
      BY <3>1, StoreElim DEF IsStore
  <2>2. IsStore(disk) /\ \A s \in Services : IsStore(svc[s].mem)
    BY <1>1, <2>1 DEF IInv, Types, ServiceState, Ledger, Books
  <2>3. /\ now \in 1 .. MaxTime
        /\ batch \in [Services -> [Batches -> [Jobs -> Run]]]
        /\ manual \in [Manuals -> ManualState]
        /\ known \subseteq Jobs
        /\ edits \in 0 .. MaxEdits /\ reloads \in 0 .. MaxReloads /\ errors \in 0 .. MaxErrors
        /\ excused \subseteq Jobs /\ overlaps \in 0 .. MaxOverlaps
    BY <1>1 DEF IInv, Types
  <2>4. ASSUME NEW s \in Services
        PROVE  /\ svc[s].phase \in {"none", "boot", "plan", "catchup", "arm", "on", "dead"}
               /\ {svc[s].timer, svc[s].ticking, svc[s].fresh} \subseteq BOOLEAN
               /\ svc[s].skip \subseteq Jobs /\ svc[s].deferred \in [Jobs -> 0 .. NumJobs]
    BY <1>1 DEF IInv, Types, ServiceState
  <2> QED
    BY <2>2, <2>3, <2>4 DEF TypeOK, ManualState
<1> QED
  BY <1>1, Invariance, LedgerHolds, PTL

-----------------------------------------------------------------------------
(* A step keeps the slots of the jobs that are due.                        *)

\* A job that is due and that nobody has claimed stays due, or is claimed.
SlotKept(j) ==
  Due(j) /\ ~Claimed(j) /\ overlaps = 0 /\ overlaps' = 0 /\ j \in DOMAIN disk'
  => Due(j)' \/ Claimed(j)'

LEMMA SameFileKeeps ==
  ASSUME Types, Types', NEW j \in Jobs, disk' = disk, now <= now'
  PROVE  SlotKept(j)
<1>1. now \in Nat /\ now' \in Nat
  BY Bounds DEF Types
<1>2. j \in DOMAIN disk => disk[j] \in Job /\ disk[j].next \in Nat
  BY StoreElim, Bounds DEF Types, Job
<1> QED
  BY <1>1, <1>2 DEF SlotKept, Due, Runnable

LEMMA UnclaimedRuns ==
  ASSUME NEW j, ~Claimed(j)
  PROVE  /\ \A s \in Services, b \in Batches : batch[s][b][j].stage = "none"
         /\ \A m \in Manuals : manual[m].stage = "reserved" => manual[m].job # j
<1>1. BatchRuns(j) = {} /\ ManualRuns(j) = {}
  BY DEF Claimed
<1>2. ASSUME NEW s \in Services, NEW b \in Batches PROVE batch[s][b][j].stage = "none"
  <2>1. << s, b >> \in Services \X Batches /\ << s, b >> \notin BatchRuns(j)
    BY <1>1
  <2> QED
    BY <2>1 DEF BatchRuns
<1>3. \A m \in Manuals : manual[m].stage = "reserved" => manual[m].job # j
  BY <1>1 DEF ManualRuns
<1> QED
  BY <1>2, <1>3

\* What the current service holds of such a job is due as well.
LEMMA CurHoldsDue ==
  ASSUME IInv, Ledger, NEW j \in Jobs, Due(j), ~Claimed(j), overlaps = 0,
         NEW s \in Alive, s = Cur, svc[s].phase # "boot"
  PROVE  j \in DOMAIN svc[s].mem /\ svc[s].mem[j] \in Job /\ Runnable(svc[s].mem[j], now)
<1>1. MarkIsClaimed(j) /\ s \in Services
  BY DEF IInv, WithoutOverlaps, Alive, Started
<1>2. j \in DOMAIN svc[s].mem /\ j \in DOMAIN disk /\ svc[s].mem[j].running = 0
  BY <1>1 DEF MarkIsClaimed, Due
<1>3. disk[j].enabled = svc[s].mem[j].enabled /\ (disk[j].enabled => disk[j].next = svc[s].mem[j].next)
  BY <1>2 DEF Ledger, Agree, SameTimes
<1>4. svc[s].mem[j] \in Job
  BY <1>1, <1>2, Basics, StoreElim
<1> QED
  BY <1>2, <1>3, <1>4 DEF Due, Runnable

LEMMA ClearMarkersSlots ==
  ASSUME IInv, NEW s \in Services, ClearMarkers(s), NEW j \in Jobs
  PROVE  SlotKept(j)
<1>1. disk' = [i \in DOMAIN disk |-> [disk[i] EXCEPT !.running = 0]] /\ now' = now
  BY DEF ClearMarkers
<1>2. j \in DOMAIN disk => disk[j] \in Job
  BY Basics, StoreElim
<1>3. ASSUME Due(j) PROVE Due(j)'
  <2>1. j \in DOMAIN disk /\ disk'[j] = [disk[j] EXCEPT !.running = 0] /\ j \in DOMAIN disk'
    BY <1>1, <1>3 DEF Due
  <2>2. /\ disk'[j].enabled = disk[j].enabled /\ disk'[j].next = disk[j].next /\ disk'[j].running = 0
    BY <1>2, <2>1 DEF Job
  <2> QED
    BY <1>1, <1>3, <2>1, <2>2 DEF Due, Runnable
<1> QED
  BY <1>3 DEF SlotKept

LEMMA PlanCatchupSlots ==
  ASSUME IInv, IInv', Ledger, NEW s \in Services, PlanCatchup(s), NEW j \in Jobs
  PROVE  SlotKept(j)
<1> DEFINE mem == svc[s].mem
<1> PICK missed : missed = { i \in DOMAIN mem \ svc[s].skip : Missed(i, mem[i], now) }
  OBVIOUS
<1> PICK due : due = { i \in missed : Rank(mem, missed, i) <= MaxImmediate }
  OBVIOUS
<1>1. /\ svc[s].phase = "plan" /\ now' = now
      /\ disk' = (IF missed = {} THEN disk ELSE WithMarks(mem, due))
      /\ batch' = [batch EXCEPT ![s]["startup"] = Claiming(due)]
  BY DEF PlanCatchup, Claiming, WithMarks
<1>2. s \in Alive
  BY <1>1 DEF Alive, Started
<1>3. CASE missed = {}
  <2>1. Types /\ Types' /\ now \in Nat
    BY Bounds DEF IInv, Types
  <2>2. disk' = disk /\ now <= now'
    BY <1>1, <1>3, <2>1
  <2> QED
    BY <2>1, <2>2, SameFileKeeps
<1>4. CASE j \in due
  <2>1. "startup" \in Batches /\ Claiming(due)[j].stage = "claimed"
    BY <1>4 DEF Batches, Claiming, NoRun
  <2>2. batch'[s]["startup"] = Claiming(due)
    BY <1>1, <2>1 DEF IInv, Types
  <2>3. << s, "startup" >> \in BatchRuns(j)'
    BY <2>1, <2>2 DEF BatchRuns
  <2> QED
    BY <2>3 DEF SlotKept, Claimed
<1>5. CASE missed # {} /\ j \notin due
  <2> SUFFICES ASSUME Due(j), ~Claimed(j), overlaps = 0 PROVE Due(j)'
    BY DEF SlotKept
  <2>1. s = Cur
    BY <1>1, <1>2, OnlyCurActs
  <2>2. j \in DOMAIN mem /\ Runnable(mem[j], now)
    BY <1>1, <1>2, <2>1, CurHoldsDue
  <2>3. j \in DOMAIN disk' /\ disk'[j] = mem[j]
    BY <1>1, <1>5, <2>2 DEF WithMarks
  <2> QED
    BY <1>1, <2>2, <2>3 DEF Due
<1> QED
  BY <1>3, <1>4, <1>5

\* A batch leaves the jobs alone that it did not run.
LEMMA UnclaimedAreSettled ==
  ASSUME IInv, NEW j \in Jobs, ~Claimed(j), Due(j), NEW s \in Services, NEW b \in Batches
  PROVE  /\ j \in DOMAIN Settled(disk, batch[s][b], now) /\ Settled(disk, batch[s][b], now)[j] = disk[j]
         /\ disk[j] \in Job
<1>1. batch[s][b][j].stage = "none"
  BY UnclaimedRuns
<1>2. j \in DOMAIN disk /\ disk[j] \in Job
  BY Basics, StoreElim DEF Due
<1> QED
  BY <1>1, <1>2 DEF Settled

LEMMA ApplyCatchupSlots ==
  ASSUME IInv, NEW s \in Services, ApplyCatchup(s), NEW j \in Jobs, svc[s].deferred[j] = 0
  PROVE  SlotKept(j)
<1> SUFFICES ASSUME Due(j), ~Claimed(j), overlaps = 0 PROVE Due(j)'
  BY DEF SlotKept
<1> DEFINE settled == Settled(disk, batch[s]["startup"], now)
           late == { i \in DOMAIN settled : svc[s].deferred[i] # 0 /\ settled[i].enabled }
           place(i) == Cardinality({ k \in late : svc[s].deferred[k] <= svc[s].deferred[i] })
           jobs == PutOff(settled, late, place)
<1>1. disk' = Maintained(jobs, now, FALSE) /\ now' = now
  BY DEF ApplyCatchup, PutOff
<1>2. j \in DOMAIN settled /\ settled[j] = disk[j] /\ disk[j] \in Job
  BY UnclaimedAreSettled DEF Batches
<1> HIDE DEF settled
<1>3. j \notin late
  OBVIOUS
<1>4. j \in DOMAIN jobs /\ jobs[j] = disk[j]
  BY <1>2, <1>3 DEF PutOff
<1> HIDE DEF jobs
<1>5. Runnable(jobs[j], now) /\ now \in 1 .. MaxTime
  BY <1>4, Basics DEF Due
<1>6. Maintained(jobs, now, FALSE)[j] = jobs[j]
  BY <1>2, <1>4, <1>5, DueIsMaintained
<1>7. DOMAIN Maintained(jobs, now, FALSE) = DOMAIN jobs
  BY DEF Maintained
<1> QED
  BY <1>1, <1>4, <1>5, <1>6, <1>7 DEF Due

LEMMA ApplyTickSlots ==
  ASSUME IInv, NEW s \in Services, ApplyTick(s), NEW j \in Jobs
  PROVE  SlotKept(j)
<1> SUFFICES ASSUME Due(j), ~Claimed(j), overlaps = 0 PROVE Due(j)'
  BY DEF SlotKept
<1> DEFINE jobs == Settled(disk, batch[s]["tick"], now)
<1>1. disk' = Maintained(jobs, now, FALSE) /\ now' = now
  BY DEF ApplyTick
<1>2. j \in DOMAIN jobs /\ jobs[j] = disk[j] /\ disk[j] \in Job
  BY UnclaimedAreSettled DEF Batches
<1> HIDE DEF jobs
<1>3. Runnable(jobs[j], now) /\ now \in 1 .. MaxTime
  BY <1>2, Basics DEF Due
<1>4. Maintained(jobs, now, FALSE)[j] = jobs[j]
  BY <1>2, <1>3, DueIsMaintained
<1>5. DOMAIN Maintained(jobs, now, FALSE) = DOMAIN jobs
  BY DEF Maintained
<1> QED
  BY <1>1, <1>2, <1>3, <1>4, <1>5 DEF Due

\* The timer claims all that is due.
LEMMA OnTimerSlots ==
  ASSUME IInv, NEW s \in Services, OnTimer(s), NEW j \in Jobs
  PROVE  SlotKept(j)
<1> SUFFICES ASSUME Due(j) PROVE Claimed(j)'
  BY DEF SlotKept
<1> PICK due : due = { i \in DOMAIN disk : Runnable(disk[i], now) }
  OBVIOUS
<1>1. batch' = [batch EXCEPT ![s]["tick"] = Claiming(due)]
  BY DEF OnTimer, Claiming
<1>2. j \in due
  BY DEF Due
<1>3. batch'[s]["tick"][j].stage = "claimed"
  BY <1>1, <1>2, Basics DEF Types, Batches, Claiming, NoRun
<1>4. << s, "tick" >> \in BatchRuns(j)'
  BY <1>3 DEF BatchRuns, Batches
<1> QED
  BY <1>4 DEF Claimed

\* Without overlaps requests work on the memory of the current service.
LEMMA RequestSlots ==
  ASSUME IInv, Ledger, NEW s \in Services, NEW j \in Jobs,
         \/ Read(s)
         \/ \E i \in Jobs : Remove(s, i)
         \/ \E i \in Jobs \ {j}, b \in BOOLEAN : Update(s, i, b)
  PROVE  SlotKept(j)
<1> SUFFICES ASSUME Due(j), ~Claimed(j), overlaps' = 0, j \in DOMAIN disk' PROVE Due(j)'
  BY DEF SlotKept
<1> DEFINE mem == svc[s].mem
<1>1. Serving(s) /\ Overlap(s # Cur) /\ now' = now
  BY DEF Read, Remove, Update
<1>2. s = Cur /\ overlaps = 0 /\ s \in Alive /\ svc[s].phase # "boot"
  BY <1>1, ServingIsCur
<1>3. j \in DOMAIN mem /\ mem[j] \in Job /\ Runnable(mem[j], now) /\ now \in 1 .. MaxTime
  BY <1>2, CurHoldsDue, Basics
<1>4. disk'[j] = mem[j]
  <2>1. CASE Read(s)
    <3>1. disk' = Maintained(mem, now, FALSE)
      BY <2>1 DEF Read, Persist
    <3> HIDE DEF mem
    <3> QED
      BY <1>3, <3>1, DueIsMaintained
  <2>2. ASSUME NEW i \in Jobs, Remove(s, i) PROVE disk'[j] = mem[j]
    <3>1. disk' = [k \in DOMAIN mem \ {i} |-> mem[k]]
      BY <2>2 DEF Remove, PersistAndArm
    <3> QED
      BY <3>1
  <2>3. ASSUME NEW i \in Jobs \ {j}, NEW b \in BOOLEAN, Update(s, i, b) PROVE disk'[j] = mem[j]
    <3>1. \E x : disk' = [mem EXCEPT ![i] = x]
      BY <2>3 DEF Update, PersistAndArm
    <3> QED
      BY <1>3, <2>3, <3>1
  <2> QED
    BY <2>1, <2>2, <2>3
<1> QED
  BY <1>1, <1>3, <1>4 DEF Due

LEMMA ReserveSlots ==
  ASSUME IInv, IInv', Ledger, NEW m \in Manuals, Reserve(m), NEW j \in Jobs
  PROVE  SlotKept(j)
<1>1. /\ Types /\ Types' /\ manual \in [Manuals -> ManualState] /\ manual[m] \in ManualState /\ m \in AtWork
      /\ manual[m].svc \in Alive /\ svc[manual[m].svc].phase # "boot" /\ now' = now /\ now <= now'
  <2>1. m \in AtWork /\ now' = now
    BY DEF Reserve, AtWork
  <2> QED
    BY <2>1, Bounds DEF IInv, Types, Owners
<1> PICK s \in Services, i \in Jobs, at \in 0 .. MaxTime :
           s = manual[m].svc /\ i = manual[m].job /\ at = manual[m].at
  BY <1>1 DEF ManualState, Alive, Started, IInv, Owners
<1> DEFINE mem == svc[s].mem
           jobs == [mem EXCEPT ![i].running = at]
           free == i \in DOMAIN mem /\ mem[i].running = 0
           y == [manual[m] EXCEPT !.stage = "reserved",
                                  !.run = [NoRun EXCEPT !.stage = "running", !.start = at]]
<1>2. /\ free => disk' = jobs /\ manual' = [manual EXCEPT ![m] = y]
      /\ ~free => disk' = disk
  BY DEF Reserve, store, Persist
<1>3. y.stage = "reserved" /\ y.job = i
  BY <1>1 DEF ManualState
<1> HIDE DEF y
<1>4. CASE ~free
  BY <1>1, <1>2, <1>4, SameFileKeeps
<1>5. CASE free /\ i = j
  <2>1. m \in ManualRuns(j)'
    BY <1>1, <1>2, <1>3, <1>5 DEF ManualRuns
  <2> QED
    BY <2>1 DEF SlotKept, Claimed
<1>6. CASE free /\ i # j
  <2> SUFFICES ASSUME Due(j), ~Claimed(j), overlaps = 0 PROVE Due(j)'
    BY DEF SlotKept
  <2>1. s = Cur
    BY <1>1, OnlyCurActs
  <2>2. j \in DOMAIN mem /\ Runnable(mem[j], now)
    BY <1>1, <2>1, CurHoldsDue
  <2>3. disk' = jobs
    BY <1>2, <1>6
  <2>4. j \in DOMAIN jobs /\ jobs[j] = mem[j]
    BY <1>6, <2>2
  <2> QED
    BY <1>1, <2>2, <2>3, <2>4 DEF Due
<1> QED
  BY <1>4, <1>5, <1>6

\* finishPreparedManualRun recomputes what was executed; a job that waits for a time
\* after its last run was not.
LEMMA FinishManualSlots ==
  ASSUME IInv, IInv', Ledger, PositiveDelays, NEW m \in Manuals, FinishManual(m), NEW j \in Jobs
  PROVE  SlotKept(j)
<1> SUFFICES ASSUME Due(j), ~Claimed(j), overlaps = 0, j \in DOMAIN disk' PROVE Due(j)'
  BY DEF SlotKept
<1>1. manual[m].stage = "reserved" /\ now' = now /\ manual[m].job # j
  BY UnclaimedRuns DEF FinishManual
<1> DEFINE s == manual[m].svc
           i == manual[m].job
           run == manual[m].run
           D == IF Deleted(i, run) THEN DOMAIN disk \ {i} ELSE DOMAIN disk
           new == Result(i, svc[s].mem[i], run, now)
           merged == [k \in D |-> IF k = i THEN new ELSE disk[k]]
<1>2. disk' = disk \/ disk' = Maintained(merged, now, TRUE)
  BY DEF FinishManual, PersistAndArm, store
<1>3. disk[j] \in Job /\ now \in 1 .. MaxTime /\ Runnable(disk[j], now) /\ j \in DOMAIN disk
  BY StoreElim DEF Due, IInv, Types
<1>4. CASE disk' = disk
  BY <1>1, <1>3, <1>4 DEF Due
<1>5. CASE disk' = Maintained(merged, now, TRUE)
  <2> HIDE DEF new
  <2>1. j \in DOMAIN merged /\ merged[j] = disk[j]
    BY <1>1, <1>3
  <2>2. TimeIsNew(j, disk[j], now)
    BY <1>3 DEF Ledger, Books, Good, GoodJob
  <2> HIDE DEF merged
  <2>3. Runnable(Maintained(merged, now, TRUE)[j], now)
    BY <1>3, <2>1, <2>2, DueIsMaintained
  <2> QED
    BY <1>1, <1>5, <2>3 DEF Due
<1> QED
  BY <1>2, <1>4, <1>5

\* What has overlapped is not forgotten.
LEMMA OverlapsStay ==
  ASSUME IInv, Next
  PROVE  overlaps' = 0 => overlaps = 0
<1>1. overlaps \in Nat
  BY Bounds DEF IInv, Types
<1>2. ASSUME NEW yes, Overlap(yes)
      PROVE  overlaps' = 0 => overlaps = 0
  BY <1>1, <1>2 DEF Overlap
<1>3. ASSUME NEW s \in Services, Reload(s) \/ Read(s) \/ Look(s)
      PROVE  overlaps' = 0 => overlaps = 0
  BY <1>2, <1>3 DEF Reload, Read, Look
<1>4. ASSUME NEW s \in Services, Boot(s) \/ Starting(s) \/ OnTimer(s) \/ ApplyTick(s) \/ Working(s)
      PROVE  overlaps' = overlaps
  BY <1>4 DEF Boot, Starting, ClearMarkers, PlanCatchup, ApplyCatchup, Arm, OnTimer, ApplyTick,
              Working, BeginRun, EndRun, history
<1>5. ASSUME NEW m \in Manuals, Manually(m)
      PROVE  overlaps' = overlaps
  BY <1>5 DEF Manually, Reserve, EndManual, FinishManual, history
<1>6. ASSUME Tick \/ Crash
      PROVE  overlaps' = overlaps
  BY <1>6 DEF Tick, Crash, history
<1>7. ASSUME NEW s \in Services, Request(s) \/ Reload(s)
      PROVE  overlaps' = 0 => overlaps = 0
  <2>1. ASSUME NEW j \in Jobs, NEW b \in BOOLEAN, NEW m \in Manuals,
               Add(s, j) \/ Remove(s, j) \/ Update(s, j, b) \/ Inspect(m, s, j, b)
        PROVE  Overlap(s # Cur)
    BY <2>1 DEF Add, Remove, Update, Inspect
  <2>2. ASSUME NEW j \in Jobs, NEW b \in BOOLEAN, Add(s, j) \/ Remove(s, j) \/ Update(s, j, b)
        PROVE  Overlap(s # Cur)
    BY <2>2 DEF Add, Remove, Update
  <2> QED
    BY <1>2, <1>3, <1>7, <2>1, <2>2 DEF Request
<1> QED
  BY <1>4, <1>5, <1>6, <1>7 DEF Next

\* Nothing moves a job that is due to a later slot before it has run: not a tick, not the
\* result of another job, not maintenance, not a read; only an update of the job, an add
\* and the two sections of a start that say so, or an overlap of services.  The delays
\* after errors and between missed jobs must not be 0.
THEOREM DueSlotsStay == PositiveDelays /\ Spec => DueSlotsAreKept
<1> DEFINE Moved(j) ==
             \E s \in Services :
               \/ Arm(s) \/ (\E i \in Jobs : Add(s, i)) \/ (\E b \in BOOLEAN : Update(s, j, b))
               \/ ApplyCatchup(s) /\ svc[s].deferred[j] # 0
<1>1. ASSUME PositiveDelays, IInv, IInv', Ledger, Next, NEW j \in Jobs
      PROVE  SlotKept(j) \/ Moved(j)
  <2> HIDE DEF Moved
  <2>1. Types /\ Types' /\ (now' = now => now <= now')
    BY <1>1, Bounds DEF IInv, Types
  <2>2. ASSUME NEW s \in Services,
               \/ Boot(s) \/ Reload(s) \/ Starting(s) \/ OnTimer(s) \/ ApplyTick(s) \/ Working(s) \/ Request(s)
        PROVE  SlotKept(j) \/ Moved(j)
    <3>1. CASE Boot(s) \/ Reload(s)
      BY <2>1, <3>1, SameFileKeeps DEF Boot, Reload
    <3>2. CASE ClearMarkers(s) \/ PlanCatchup(s)
      BY <1>1, <3>2, ClearMarkersSlots, PlanCatchupSlots
    <3>3. CASE ApplyCatchup(s)
      <4>1. CASE svc[s].deferred[j] = 0
        BY <1>1, <3>3, <4>1, ApplyCatchupSlots
      <4>2. CASE svc[s].deferred[j] # 0
        BY <3>3, <4>2 DEF Moved
      <4> QED
        BY <4>1, <4>2
    <3>4. CASE Arm(s)
      BY <3>4 DEF Moved
    <3>5. CASE OnTimer(s) \/ ApplyTick(s)
      BY <1>1, <3>5, OnTimerSlots, ApplyTickSlots
    <3>6. CASE Working(s)
      <4>1. disk' = disk /\ now' = now
        BY <3>6 DEF Working, BeginRun, EndRun, store
      <4> QED
        BY <2>1, <4>1, SameFileKeeps
    <3>7. CASE Request(s)
      <4>1. CASE Read(s) \/ \E i \in Jobs : Remove(s, i)
        BY <1>1, <4>1, RequestSlots
      <4>2. CASE \E i \in Jobs : Add(s, i)
        BY <4>2 DEF Moved
      <4>3. ASSUME NEW i \in Jobs, NEW b \in BOOLEAN, Update(s, i, b)
            PROVE  SlotKept(j) \/ Moved(j)
        <5>1. CASE i = j
          BY <4>3, <5>1 DEF Moved
        <5>2. CASE i # j
          BY <1>1, <4>3, <5>2, RequestSlots
        <5> QED
          BY <5>1, <5>2
      <4>4. CASE Look(s)
        BY <2>1, <4>4, SameFileKeeps DEF Look
      <4>5. ASSUME NEW m \in Manuals, NEW i \in Jobs, NEW b \in BOOLEAN, Inspect(m, s, i, b)
            PROVE  SlotKept(j)
        BY <2>1, <4>5, SameFileKeeps DEF Inspect
      <4> QED
        BY <3>7, <4>1, <4>2, <4>3, <4>4, <4>5 DEF Request
    <3> QED
      BY <2>2, <3>1, <3>2, <3>3, <3>4, <3>5, <3>6, <3>7 DEF Starting
  <2>3. ASSUME NEW m \in Manuals, Manually(m)
        PROVE  SlotKept(j)
    <3>1. CASE Reserve(m) \/ FinishManual(m)
      BY <1>1, <3>1, ReserveSlots, FinishManualSlots
    <3>2. ASSUME NEW o \in Outcomes, EndManual(m, o)
          PROVE  SlotKept(j)
      BY <2>1, <3>2, SameFileKeeps DEF EndManual, store
    <3> QED
      BY <2>3, <3>1, <3>2 DEF Manually
  <2>4. CASE Tick
    <3>1. disk' = disk /\ now <= now'
      BY <2>1, <2>4, Bounds DEF Tick, store, Types
    <3> QED
      BY <2>1, <3>1, SameFileKeeps
  <2>5. CASE Crash
    BY <2>1, <2>5, SameFileKeeps DEF Crash
  <2> QED
    BY <1>1, <2>2, <2>3, <2>4, <2>5 DEF Next
<1>2. ASSUME PositiveDelays, IInv, IInv', Ledger, Next, NEW j \in Jobs,
             Due(j), ~Claimed(j), j \in DOMAIN disk', ~Due(j)'
      PROVE  Claimed(j)' \/ overlaps' # 0 \/ Moved(j)
  <2> HIDE DEF Moved
  <2> QED
    BY <1>1, <1>2, OverlapsStay DEF SlotKept
<1>3. PositiveDelays /\ IInv /\ IInv' /\ Ledger /\ [Next]_vars =>
        [ \A j \in Jobs :
            Due(j) /\ ~Claimed(j) /\ j \in DOMAIN disk' /\ ~Due(j)'
            => \/ Claimed(j)' \/ overlaps' # 0
               \/ \E s \in Services :
                    \/ Arm(s) \/ (\E i \in Jobs : Add(s, i)) \/ (\E b \in BOOLEAN : Update(s, j, b))
                    \/ ApplyCatchup(s) /\ svc[s].deferred[j] # 0 ]_vars
  BY <1>2
<1>4. PositiveDelays /\ [Next]_vars => PositiveDelays'
  BY DEF PositiveDelays
<1> QED
  BY <1>3, <1>4, Invariance, LedgerHolds, PTL DEF Spec, DueSlotsAreKept
=============================================================================
