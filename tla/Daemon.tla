------------------------------- MODULE Daemon -------------------------------
(***************************************************************************)
(* `bookhound daemon run-once` run by several processes over one database:  *)
(* DaemonRunner.run_once (daemon.py) and the crawl_jobs table               *)
(* (CrawlJobRepository, jobs.py).  A process is one slot of Daemons; when   *)
(* its run returns the slot may run the command again.                      *)
(*                                                                          *)
(* Each system call on the lock file and each committed statement on the    *)
(* database is a step of its own.  Events whose content no property reads   *)
(* (daemon.locked, daemon.stale_lock_recovered) are part of the step before *)
(* them.  Time is in ticks and does not go backwards.                       *)
(***************************************************************************)
EXTENDS Integers, FiniteSets

CONSTANTS
    Daemons,            \* processes that run the command
    NoDaemon,           \* "no process": the lock file does not exist
    Jobs,               \* identifiers of crawl_jobs, given out in increasing order
    Priorities,         \* values `job add --priority` may get
    TicksPerSecond,     \* how fine the clock is; a datetime has 1000000
    RetryDelay,         \* DaemonConfig.retry_delay_seconds, in ticks
    StaleRecovery,      \* DaemonConfig.stale_lock_after_seconds is not None
    StaleAfter,         \* its value then, in ticks
    MaxClock,           \* bound: the clock stops here
    MaxRetries,         \* bound: no attempt at a job fails after so many
    MaxFaults           \* bound: crashes and aborted runs in a behaviour

NoJob == 0

ASSUME DaemonAssumption ==
    /\ NoDaemon \notin Daemons
    /\ Jobs \subseteq Nat \ {NoJob}
    /\ Priorities \subseteq Int
    /\ TicksPerSecond \in Nat \ {0}
    /\ RetryDelay \in Nat
    /\ StaleRecovery \in BOOLEAN
    /\ StaleAfter \in Nat
    /\ MaxClock \in Nat /\ MaxRetries \in Nat /\ MaxFaults \in Nat

VARIABLES
    \* the lock file: who created it (its content, "running", does not say: the
    \* owner is a history variable) and its modification time
    lockOwner, lockMtime,
    \* a run: next step, the `now` read at its start, the row in hand, and the
    \* retry count mark_retryable returned
    pc, started, job, number,
    \* crawl_jobs; nextRun 0 stands for NULL
    status, priority, retries, nextRun,
    \* daemon.job_failed events by their retries field; daemon.completed events;
    \* collect.completed events, one for every result of the job in the catalogue
    failedEvents, completedEvents, collectEvents,
    clock,
    faults              \* history: crashes and aborts so far

lockVars == <<lockOwner, lockMtime>>
runVars == <<pc, started, job, number>>
tableVars == <<status, priority, retries, nextRun>>
eventVars == <<failedEvents, completedEvents, collectEvents>>
vars == <<lockVars, runVars, tableVars, eventVars, clock, faults>>

Statuses == {"absent", "pending", "running", "completed"}

\* the steps inside the try block, at which the process believes it has the lock
TrySteps == {"select", "claim", "execute", "markRetryable", "readRetries",
             "recordFailed", "markCompleted", "finish"}
LockSteps == TrySteps \cup {"release"}
Steps == LockSteps \cup {"idle", "checkAge", "unlink", "acquire"}

\* the steps at which a run has claimed its job and not yet stored the outcome
OwnSteps == {"execute", "markRetryable", "markCompleted"}

Owns(d, j) == pc[d] \in OwnSteps /\ job[d] = j
Owned(j) == \E d \in Daemons: Owns(d, j)

TypeOK ==
    /\ lockOwner \in Daemons \cup {NoDaemon}
    /\ lockMtime \in Nat
    /\ pc \in [Daemons -> Steps]
    /\ started \in [Daemons -> Nat]
    /\ job \in [Daemons -> Jobs \cup {NoJob}]
    /\ number \in [Daemons -> Nat]
    /\ status \in [Jobs -> Statuses]
    /\ priority \in [Jobs -> Int]
    /\ retries \in [Jobs -> Nat]
    /\ nextRun \in [Jobs -> Nat]
    /\ failedEvents \in [Jobs -> SUBSET Nat]
    /\ completedEvents \in [Jobs -> Nat]
    /\ collectEvents \in [Jobs -> Nat]
    /\ clock \in Nat
    /\ faults \in Nat

Init ==
    /\ lockOwner = NoDaemon /\ lockMtime = 0
    /\ pc = [d \in Daemons |-> "idle"]
    /\ started = [d \in Daemons |-> 0]
    /\ job = [d \in Daemons |-> NoJob]
    /\ number = [d \in Daemons |-> 0]
    /\ status = [j \in Jobs |-> "absent"]
    /\ priority = [j \in Jobs |-> 0]
    /\ retries = [j \in Jobs |-> 0]
    /\ nextRun = [j \in Jobs |-> 0]
    /\ failedEvents = [j \in Jobs |-> {}]
    /\ completedEvents = [j \in Jobs |-> 0]
    /\ collectEvents = [j \in Jobs |-> 0]
    /\ clock = 0
    /\ faults = 0

-----------------------------------------------------------------------------
(* Helpers                                                                  *)

Goto(d, to) == pc' = [pc EXCEPT ![d] = to]

\* the process ends; its local variables are gone
EndRun(d) ==
    /\ pc' = [pc EXCEPT ![d] = "idle"]
    /\ started' = [started EXCEPT ![d] = 0]
    /\ job' = [job EXCEPT ![d] = NoJob]
    /\ number' = [number EXCEPT ![d] = 0]

\* The place of a time among times as _format_datetime writes them: isoformat leaves
\* out a fraction of zero, and "." sorts before "Z", so that a whole second comes
\* after all fractions of its second and before the next.
SortKey(t) ==
    IF t % TicksPerSecond = 0 THEN 2 * t + 2 * TicksPerSecond - 1 ELSE 2 * t

\* next_run_at IS NULL OR next_run_at <= ?, a comparison of texts
Arrived(time, now) == time = 0 \/ SortKey(time) <= SortKey(now)

\* Mistake: a running row counts as claimable.
DueOrRunning(j, now) == status[j] \in {"pending", "running"} /\ Arrived(nextRun[j], now)

\* the WHERE clause of both statements of claim_next_pending
Due(j, now) == status[j] = "pending" /\ Arrived(nextRun[j], now)

\* ORDER BY priority DESC, created_at, id
Before(j, k) ==
    \/ priority[j] > priority[k]
    \/ priority[j] = priority[k] /\ j < k

-----------------------------------------------------------------------------
(* Mistakes a change of run_once or of the repository could make; each one  *)
(* takes the place of the action it is named after in a run that must then  *)
(* fail.                                                                    *)

\* the age taken the wrong way round
LockIsStaleReversed(d) ==
    /\ lockOwner # NoDaemon
    /\ lockMtime - started[d] >= StaleAfter

\* recovering a stale lock also requeues the running jobs
UnlinkStaleAndRequeue(d) ==
    /\ pc[d] = "unlink"
    /\ lockOwner' = NoDaemon /\ lockMtime' = 0
    /\ status' = [j \in Jobs |-> IF status[j] = "running" THEN "pending" ELSE status[j]]
    /\ Goto(d, "acquire")
    /\ UNCHANGED <<started, job, number, priority, retries, nextRun, eventVars,
                   clock, faults>>

\* write_text instead of O_EXCL
AcquireOverwriting(d) ==
    /\ pc[d] = "acquire"
    /\ lockOwner' = d /\ lockMtime' = clock
    /\ Goto(d, "select")
    /\ UNCHANGED <<started, job, number, tableVars, eventVars, clock, faults>>

\* the lock taken inside the try block, so that finally runs when it is held
AcquireInsideTry(d) ==
    /\ pc[d] = "acquire"
    /\ \/ /\ lockOwner = NoDaemon
          /\ lockOwner' = d /\ lockMtime' = clock
          /\ Goto(d, "select")
       \/ /\ lockOwner # NoDaemon
          /\ Goto(d, "release")
          /\ UNCHANGED lockVars
    /\ UNCHANGED <<started, job, number, tableVars, eventVars, clock, faults>>

\* UPDATE ... WHERE id = ?
ClaimUnconditional(d) ==
    /\ pc[d] = "claim"
    /\ status' = [status EXCEPT ![job[d]] = "running"]
    /\ Goto(d, "execute")
    /\ UNCHANGED <<lockVars, started, job, number, priority, retries, nextRun,
                   eventVars, clock, faults>>

\* UPDATE ... WHERE id = ? AND status = 'pending'
ClaimWhateverTheTime(d) ==
    /\ pc[d] = "claim"
    /\ \/ /\ status[job[d]] = "pending"
          /\ status' = [status EXCEPT ![job[d]] = "running"]
          /\ Goto(d, "execute")
          /\ UNCHANGED job
       \/ /\ status[job[d]] # "pending"
          /\ Goto(d, "finish")
          /\ job' = [job EXCEPT ![d] = NoJob]
          /\ UNCHANGED status
    /\ UNCHANGED <<lockVars, started, number, priority, retries, nextRun,
                   eventVars, clock, faults>>

MarkRetryableAs(d, stored, counted) ==
    /\ pc[d] = "markRetryable"
    /\ status' = [status EXCEPT ![job[d]] = stored]
    /\ retries' = [retries EXCEPT ![job[d]] = @ + counted]
    /\ nextRun' = [nextRun EXCEPT ![job[d]] = started[d] + RetryDelay]
    /\ Goto(d, "readRetries")
    /\ UNCHANGED <<lockVars, started, job, number, priority, eventVars, clock, faults>>

\* the retry is not counted
MarkRetryableUncounted(d) == MarkRetryableAs(d, "pending", 0)

\* the row is rescheduled and stays running
MarkRetryableStillRunning(d) == MarkRetryableAs(d, "running", 1)

\* the retries are counted down, as if the column held those that are left
MarkRetryableCountedDown(d) == MarkRetryableAs(d, "pending", -1)

\* an exception of the bookkeeping puts the job back, whose result may be saved by now
AbortRequeuing(d) ==
    /\ pc[d] \in TrySteps
    /\ faults < MaxFaults
    /\ faults' = faults + 1
    /\ status' = [j \in Jobs |-> IF Owns(d, j) THEN "pending" ELSE status[j]]
    /\ Goto(d, "release")
    /\ UNCHANGED <<lockVars, started, job, number, priority, retries, nextRun, eventVars,
                   clock>>

-----------------------------------------------------------------------------
(* `bookhound job add`, and time                                            *)

AddJob(j, p) ==
    /\ status[j] = "absent"
    /\ \A k \in Jobs: k < j => status[k] # "absent"
    /\ status' = [status EXCEPT ![j] = "pending"]
    /\ priority' = [priority EXCEPT ![j] = p]
    /\ UNCHANGED <<lockVars, runVars, retries, nextRun, eventVars, clock, faults>>

Tick ==
    /\ clock < MaxClock
    /\ clock' = clock + 1
    /\ UNCHANGED <<lockVars, runVars, tableVars, eventVars, faults>>

-----------------------------------------------------------------------------
(* run_once up to the lock                                                  *)

\* `now = self.clock()` and lock_path.exists(); without stale recovery a run that
\* finds the lock only records daemon.locked
Begin(d) ==
    /\ pc[d] = "idle"
    /\ \/ /\ lockOwner = NoDaemon
          /\ Goto(d, "acquire")
          /\ started' = [started EXCEPT ![d] = clock]
       \/ /\ lockOwner # NoDaemon
          /\ StaleRecovery
          /\ Goto(d, "checkAge")
          /\ started' = [started EXCEPT ![d] = clock]
       \/ /\ lockOwner # NoDaemon
          /\ ~StaleRecovery
          /\ UNCHANGED <<pc, started>>
    /\ UNCHANGED <<lockVars, job, number, tableVars, eventVars, clock, faults>>

\* the age of the lock, read after exists(), against the threshold
LockIsStale(d) ==
    /\ lockOwner # NoDaemon
    /\ started[d] - lockMtime >= StaleAfter

\* _is_stale_lock: a lock that is gone by now counts as held, the run is skipped
CheckAge(d) ==
    /\ pc[d] = "checkAge"
    /\ \/ /\ LockIsStale(d)
          /\ Goto(d, "unlink")
          /\ UNCHANGED <<started, job, number>>
       \/ ~LockIsStale(d) /\ EndRun(d)
    /\ UNCHANGED <<lockVars, tableVars, eventVars, clock, faults>>

RemoveLock == lockOwner' = NoDaemon /\ lockMtime' = 0

\* unlink(missing_ok=True): whatever file has that name by now
UnlinkStale(d) ==
    /\ pc[d] = "unlink"
    /\ RemoveLock
    /\ Goto(d, "acquire")
    /\ UNCHANGED <<started, job, number, tableVars, eventVars, clock, faults>>

\* open with O_CREAT | O_EXCL
Acquire(d) ==
    /\ pc[d] = "acquire"
    /\ \/ /\ lockOwner = NoDaemon
          /\ lockOwner' = d
          /\ lockMtime' = clock
          /\ Goto(d, "select")
          /\ UNCHANGED <<started, job, number>>
       \/ /\ lockOwner # NoDaemon
          /\ EndRun(d)
          /\ UNCHANGED lockVars
    /\ UNCHANGED <<tableVars, eventVars, clock, faults>>

-----------------------------------------------------------------------------
(* run_once inside the try block                                            *)

\* the SELECT of claim_next_pending
Select(d) ==
    /\ pc[d] = "select"
    /\ \/ /\ \A j \in Jobs: ~Due(j, started[d])
          /\ job' = [job EXCEPT ![d] = NoJob]
          /\ Goto(d, "finish")
       \/ \E j \in Jobs:
             /\ Due(j, started[d])
             /\ \A k \in Jobs: Due(k, started[d]) => k = j \/ Before(j, k)
             /\ job' = [job EXCEPT ![d] = j]
             /\ Goto(d, "claim")
    /\ UNCHANGED <<lockVars, started, number, tableVars, eventVars, clock, faults>>

\* the conditional UPDATE of claim_next_pending; rowcount 0 means no job
Claim(d) ==
    /\ pc[d] = "claim"
    /\ \/ /\ Due(job[d], started[d])
          /\ status' = [status EXCEPT ![job[d]] = "running"]
          /\ Goto(d, "execute")
          /\ UNCHANGED job
       \/ /\ ~Due(job[d], started[d])
          /\ Goto(d, "finish")
          /\ job' = [job EXCEPT ![d] = NoJob]
          /\ UNCHANGED status
    /\ UNCHANGED <<lockVars, started, number, priority, retries, nextRun,
                   eventVars, clock, faults>>

\* execute_job: save_discovery_result commits the whole result and its event (Collect's
\* CommitJob) and execute_job returns, or it raises an Exception and has saved nothing
Execute(d) ==
    /\ pc[d] = "execute"
    /\ \/ /\ collectEvents' = [collectEvents EXCEPT ![job[d]] = @ + 1]
          /\ Goto(d, "markCompleted")
       \/ /\ retries[job[d]] < MaxRetries
          /\ started[d] + RetryDelay <= MaxClock
          /\ Goto(d, "markRetryable")
          /\ UNCHANGED collectEvents
    /\ UNCHANGED <<lockVars, started, job, number, tableVars, failedEvents,
                   completedEvents, clock, faults>>

\* the UPDATE of mark_retryable, with the `now` the run started with
MarkRetryable(d) ==
    /\ pc[d] = "markRetryable"
    /\ \/ /\ status[job[d]] = "running"
          /\ status' = [status EXCEPT ![job[d]] = "pending"]
          /\ retries' = [retries EXCEPT ![job[d]] = @ + 1]
          /\ nextRun' = [nextRun EXCEPT ![job[d]] = started[d] + RetryDelay]
       \/ /\ status[job[d]] # "running"
          /\ UNCHANGED <<status, retries, nextRun>>
    /\ Goto(d, "readRetries")
    /\ UNCHANGED <<lockVars, started, job, number, priority, eventVars, clock, faults>>

\* the SELECT that follows its commit
ReadRetries(d) ==
    /\ pc[d] = "readRetries"
    /\ number' = [number EXCEPT ![d] = retries[job[d]]]
    /\ Goto(d, "recordFailed")
    /\ UNCHANGED <<lockVars, started, job, tableVars, eventVars, clock, faults>>

\* the daemon.job_failed event; the exception then leaves through finally
RecordFailed(d) ==
    /\ pc[d] = "recordFailed"
    /\ failedEvents' = [failedEvents EXCEPT ![job[d]] = @ \cup {number[d]}]
    /\ Goto(d, "release")
    /\ UNCHANGED <<lockVars, started, job, number, tableVars, completedEvents,
                   collectEvents, clock, faults>>

\* _mark_job_completed: by id alone, no condition on the status
MarkCompleted(d) ==
    /\ pc[d] = "markCompleted"
    /\ status' = [status EXCEPT ![job[d]] = "completed"]
    /\ Goto(d, "finish")
    /\ UNCHANGED <<lockVars, started, job, number, priority, retries, nextRun,
                   eventVars, clock, faults>>

\* the downloads, if a workflow is configured, and the daemon.completed event
Finish(d) ==
    /\ pc[d] = "finish"
    /\ \/ /\ job[d] # NoJob
          /\ completedEvents' = [completedEvents EXCEPT ![job[d]] = @ + 1]
       \/ job[d] = NoJob /\ UNCHANGED completedEvents
    /\ Goto(d, "release")
    /\ UNCHANGED <<lockVars, started, job, number, tableVars, failedEvents,
                   collectEvents, clock, faults>>

\* finally: unlink(missing_ok=True), whoever created the file
Release(d) ==
    /\ pc[d] = "release"
    /\ RemoveLock
    /\ EndRun(d)
    /\ UNCHANGED <<tableVars, eventVars, clock, faults>>

-----------------------------------------------------------------------------
(* Faults                                                                   *)

\* the process is killed: no finally, the lock file and the row stay
Crash(d) ==
    /\ pc[d] # "idle"
    /\ faults < MaxFaults
    /\ faults' = faults + 1
    /\ EndRun(d)
    /\ UNCHANGED <<lockVars, tableVars, eventVars, clock>>

\* sqlite3.OperationalError from a statement, KeyboardInterrupt during the
\* executor, an exception of the download workflow: finally runs, the
\* bookkeeping of the job does not
Abort(d) ==
    /\ pc[d] \in TrySteps
    /\ faults < MaxFaults
    /\ faults' = faults + 1
    /\ Goto(d, "release")
    /\ UNCHANGED <<lockVars, started, job, number, tableVars, eventVars, clock>>

-----------------------------------------------------------------------------

Run(d) ==
    \/ Begin(d) \/ CheckAge(d) \/ UnlinkStale(d) \/ Acquire(d)
    \/ Select(d) \/ Claim(d) \/ Execute(d)
    \/ MarkRetryable(d) \/ ReadRetries(d) \/ RecordFailed(d)
    \/ MarkCompleted(d) \/ Finish(d) \/ Release(d)

Next ==
    \/ \E j \in Jobs, p \in Priorities: AddJob(j, p)
    \/ Tick
    \/ \E d \in Daemons: Run(d) \/ Crash(d) \/ Abort(d)

Spec == Init /\ [][Next]_vars

(* The operating system schedules every process, the command is run again   *)
(* and again, and time passes.                                              *)
Fairness == WF_vars(Tick) /\ \A d \in Daemons: WF_vars(Run(d))

FairSpec == Spec /\ Fairness

-----------------------------------------------------------------------------
(* Properties of every configuration                                        *)

\* A job is in the hands of at most one process, even when stale-lock recovery
\* lets two runs past the lock: the second condition of claim_next_pending's
\* UPDATE decides, not the lock.
SingleOwner ==
    \A d1, d2 \in Daemons, j \in Jobs:
        Owns(d1, j) /\ Owns(d2, j) => d1 = d2

\* While a process works on a job its row says so; otherwise mark_retryable
\* would change nothing and daemon.job_failed would announce a retry that was
\* never scheduled.
OwnedIsRunning ==
    \A d \in Daemons, j \in Jobs: Owns(d, j) => status[j] = "running"

\* No attempt starts a second or more before the time the last failure scheduled,
\* even when another process failed and rescheduled the job between this one's
\* SELECT and its UPDATE.  Times are compared as texts, so it can be early by a
\* fraction of a second.
NeverBeforeRetryTime ==
    \A d \in Daemons, j \in Jobs:
        Owns(d, j) => nextRun[j] < started[d] + TicksPerSecond /\ started[d] <= clock

\* The event log agrees with the table: a job has at most one daemon.completed event
\* and then is completed, and every daemon.job_failed event carries a retry count the
\* job really reached.  So does the catalogue: wherever a process is killed between the
\* commit of a result and the UPDATE of its job, the result of a job is saved once, never
\* again by a retry, and a completed job has its result there.
EventsMatchTable ==
    \A j \in Jobs:
        /\ completedEvents[j] <= 1
        /\ completedEvents[j] = 1 => status[j] = "completed"
        /\ failedEvents[j] \subseteq 1 .. retries[j]
        /\ collectEvents[j] <= 1
        /\ collectEvents[j] = 1 => status[j] \in {"running", "completed"}
        /\ status[j] = "completed" => collectEvents[j] = 1

\* The stage of a row in the terms of JobLedger: a running row that no process
\* holds was left behind, and nothing in the code takes it up again.
Stage(j) ==
    IF status[j] # "running" THEN status[j]
    ELSE IF Owned(j) THEN "taken" ELSE "abandoned"

Ledger == INSTANCE JobLedger WITH stage <- [j \in Jobs |-> Stage(j)]

\* The daemon implements the ledger of jobs: no job is taken twice, taken when
\* completed, or resumed after its process was lost.
ImplementsLedger == Ledger!Spec

-----------------------------------------------------------------------------
(* Properties of the production configuration: no stale-lock recovery       *)

\* Between creating the lock file and removing it a process is alone.
MutualExclusion ==
    \A d1, d2 \in Daemons:
        pc[d1] \in LockSteps /\ pc[d2] \in LockSteps => d1 = d2

\* The lock file goes away only when the process that created it releases it:
\* the unconditional unlink in finally never removes another run's lock, and
\* the lock of a killed process stays.
OnlyOwnerUnlocks ==
    [][lockOwner # NoDaemon /\ lockOwner' # lockOwner =>
          pc[lockOwner] = "release" /\ pc'[lockOwner] = "idle"]_vars

\* The retry count in a daemon.job_failed event is the job's own: read after
\* the commit that counted it, it is still the latest and names no earlier
\* failure.
FailureNumberedOnce ==
    \A d \in Daemons:
        pc[d] = "recordFailed" =>
            /\ number[d] = retries[job[d]]
            /\ number[d] \notin failedEvents[job[d]]

-----------------------------------------------------------------------------
(* Liveness                                                                 *)

NoFaults == [](faults = 0)

\* Without faults, and if attempts stop failing, every job that was added is
\* completed, whatever the priorities: a job waiting for its retry time does
\* not hold the others back for ever.
JobsComplete ==
    NoFaults => \A j \in Jobs: status[j] = "pending" ~> status[j] = "completed"

\* The lock file of a process that is gone.
AbandonedLock ==
    /\ lockOwner # NoDaemon
    /\ pc[lockOwner] \notin LockSteps

\* With stale-lock recovery the lock of a killed process does not keep the
\* daemon out for ever, if the clock can reach its threshold.
AbandonedLockRecovered ==
    AbandonedLock /\ lockMtime + StaleAfter <= MaxClock ~> ~AbandonedLock

-----------------------------------------------------------------------------
(* What a test says of stale-lock recovery                                  *)

\* Stale-lock recovery (_is_stale_lock, then unlink) never removes a lock file that is
\* younger than the threshold at that moment
\* (test_stale_lock_below_threshold_uses_injected_clock).  The removals of finally are
\* not meant here: see OnlyOwnerUnlocks.
FreshLockKept ==
    [][\A d \in Daemons:
          pc[d] = "unlink" /\ pc'[d] = "acquire" /\ lockOwner # NoDaemon =>
              clock - lockMtime >= StaleAfter]_vars
=============================================================================
