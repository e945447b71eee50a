---------------------------- MODULE DaemonProofs ----------------------------
(* Theorems about Daemon, for every number of processes and jobs. *)
EXTENDS Daemon, TLAPS

(***************************************************************************)
(* Types.  A run that names a job in a statement has one in hand.           *)
(***************************************************************************)
JobSteps == {"claim", "execute", "markRetryable", "readRetries",
             "recordFailed", "markCompleted"}

JobInHand == \A d \in Daemons: pc[d] \in JobSteps => job[d] \in Jobs

TypeInv == TypeOK /\ JobInHand

LEMMA TypeInit == Init => TypeInv
BY DaemonAssumption DEF Init, TypeInv, TypeOK, JobInHand, JobSteps, Steps,
    LockSteps, TrySteps, Statuses, NoJob

LEMMA TypeNext == TypeInv /\ [Next]_vars => TypeInv'
<1> SUFFICES ASSUME TypeInv, [Next]_vars PROVE TypeInv'
  OBVIOUS
<1> USE DaemonAssumption DEF TypeInv, TypeOK, JobInHand, JobSteps, Steps,
        LockSteps, TrySteps, Statuses, Goto, EndRun, RemoveLock, NoJob,
        lockVars, runVars, tableVars, eventVars
<1>1. ASSUME NEW j \in Jobs, NEW p \in Priorities, AddJob(j, p) PROVE TypeInv'
  BY <1>1 DEF AddJob
<1>2. CASE Tick
  BY <1>2 DEF Tick
<1>3. ASSUME NEW d \in Daemons, Run(d) PROVE TypeInv'
  <2>1. CASE Begin(d)
    BY <2>1 DEF Begin
  <2>2. CASE CheckAge(d)
    BY <2>2 DEF CheckAge
  <2>3. CASE UnlinkStale(d)
    BY <2>3 DEF UnlinkStale
  <2>4. CASE Acquire(d)
    BY <2>4 DEF Acquire
  <2>5. CASE Select(d)
    BY <2>5 DEF Select
  <2>6. CASE Claim(d)
    BY <2>6 DEF Claim
  <2>7. CASE Execute(d)
    BY <2>7 DEF Execute
  <2>8. CASE MarkRetryable(d)
    BY <2>8 DEF MarkRetryable
  <2>9. CASE ReadRetries(d)
    BY <2>9 DEF ReadRetries
  <2>10. CASE RecordFailed(d)
    <3>1. number[d] \in Nat /\ job[d] \in Jobs
      BY <2>10 DEF RecordFailed
    <3>2. failedEvents[job[d]] \cup {number[d]} \in SUBSET Nat
      BY <3>1
    <3>3. failedEvents' \in [Jobs -> SUBSET Nat]
      BY <2>10, <3>1, <3>2 DEF RecordFailed
    <3> QED
      BY <2>10, <3>3 DEF RecordFailed
  <2>11. CASE MarkCompleted(d)
    BY <2>11 DEF MarkCompleted
  <2>12. CASE Finish(d)
    BY <2>12 DEF Finish
  <2>13. CASE Release(d)
    BY <2>13 DEF Release
  <2> QED
    BY <1>3, <2>1, <2>2, <2>3, <2>4, <2>5, <2>6, <2>7, <2>8, <2>9, <2>10,
       <2>11, <2>12, <2>13 DEF Run
<1>4. ASSUME NEW d \in Daemons, Crash(d) PROVE TypeInv'
  BY <1>4 DEF Crash
<1>5. ASSUME NEW d \in Daemons, Abort(d) PROVE TypeInv'
  BY <1>5 DEF Abort
<1>6. CASE UNCHANGED vars
  BY <1>6 DEF vars
<1> QED
  BY <1>1, <1>2, <1>3, <1>4, <1>5, <1>6 DEF Next

\* Every variable keeps its type, and a statement about a job has a job.
THEOREM TypeCorrect == Spec => []TypeOK
<1>1. TypeInv => TypeOK
  BY DEF TypeInv
<1> QED
  BY <1>1, TypeInit, TypeNext, PTL DEF Spec

(***************************************************************************)
(* Ownership.  The conditional UPDATE of Claim takes a pending row, and an  *)
(* owned row is running, so the new owner is the only one; only owners      *)
(* move a running row, so the three facts carry each other.                 *)
(***************************************************************************)
StartedInPast == \A d \in Daemons: started[d] <= clock

OwnInv == SingleOwner /\ OwnedIsRunning /\ NeverBeforeRetryTime /\ StartedInPast

LEMMA OwnInit == Init => OwnInv
BY DaemonAssumption DEF Init, OwnInv, SingleOwner, OwnedIsRunning,
    NeverBeforeRetryTime, StartedInPast, Owns, OwnSteps

\* A time that counts as arrived by its text is less than a second ahead.
LEMMA ArrivedSoon ==
  ASSUME NEW time \in Nat, NEW now \in Nat, Arrived(time, now)
  PROVE  time < now + TicksPerSecond
  <1> USE DaemonAssumption
  <1>1. SortKey(time) >= 2 * time
    BY DEF SortKey
  <1>2. SortKey(now) <= 2 * now + 2 * TicksPerSecond - 1
    BY DEF SortKey
  <1>3. SortKey(time) \in Int /\ SortKey(now) \in Int
    BY DEF SortKey
  <1> QED
    BY <1>1, <1>2, <1>3 DEF Arrived

\* a step of d that leaves the table and the clock alone and after which d holds no
\* job disturbs nobody's claim
LEMMA OwnUndisturbed ==
  ASSUME TypeInv, OwnInv, NEW d \in Daemons,
         UNCHANGED <<status, nextRun, clock>>,
         \A e \in Daemons \ {d}: pc'[e] = pc[e] /\ job'[e] = job[e]
                                   /\ started'[e] = started[e],
         pc'[d] \notin OwnSteps, started'[d] <= clock
  PROVE  OwnInv'
  <1>1. \A e \in Daemons, j \in Jobs: Owns(e, j)' => e # d /\ Owns(e, j)
    BY DEF Owns
  <1>2. SingleOwner'
    BY <1>1 DEF OwnInv, SingleOwner
  <1>3. OwnedIsRunning'
    BY <1>1 DEF OwnInv, OwnedIsRunning
  <1>4. NeverBeforeRetryTime'
    BY <1>1 DEF OwnInv, NeverBeforeRetryTime
  <1>5. StartedInPast'
    BY DEF OwnInv, StartedInPast
  <1> QED
    BY <1>2, <1>3, <1>4, <1>5 DEF OwnInv

LEMMA OwnNext == TypeInv /\ OwnInv /\ [Next]_vars => OwnInv'
<1> SUFFICES ASSUME TypeInv, OwnInv, [Next]_vars PROVE OwnInv'
  OBVIOUS
<1> USE DaemonAssumption DEF TypeInv, TypeOK, JobInHand, JobSteps, Steps,
        LockSteps, TrySteps, OwnInv, SingleOwner, OwnedIsRunning,
        NeverBeforeRetryTime, StartedInPast, Owns, OwnSteps, Due, Goto,
        EndRun, RemoveLock, NoJob, lockVars, runVars, tableVars, eventVars
<1>1. ASSUME NEW j \in Jobs, NEW p \in Priorities, AddJob(j, p) PROVE OwnInv'
  BY <1>1 DEF AddJob
<1>2. CASE Tick
  BY <1>2 DEF Tick
<1>3. ASSUME NEW d \in Daemons, Run(d) PROVE OwnInv'
  <2>1. CASE Begin(d)
    <3>1. /\ UNCHANGED <<status, nextRun, clock>>
          /\ \A e \in Daemons \ {d}: pc'[e] = pc[e] /\ job'[e] = job[e]
                                    /\ started'[e] = started[e]
          /\ pc'[d] \notin OwnSteps /\ started'[d] <= clock
      BY <2>1 DEF Begin
    <3> QED
      BY <3>1, OwnUndisturbed
  <2>2. CASE CheckAge(d)
    <3>1. /\ UNCHANGED <<status, nextRun, clock>>
          /\ \A e \in Daemons \ {d}: pc'[e] = pc[e] /\ job'[e] = job[e]
                                    /\ started'[e] = started[e]
          /\ pc'[d] \notin OwnSteps /\ started'[d] <= clock
      BY <2>2 DEF CheckAge
    <3> QED
      BY <3>1, OwnUndisturbed
  <2>3. CASE UnlinkStale(d)
    <3>1. /\ UNCHANGED <<status, nextRun, clock>>
          /\ \A e \in Daemons \ {d}: pc'[e] = pc[e] /\ job'[e] = job[e]
                                    /\ started'[e] = started[e]
          /\ pc'[d] \notin OwnSteps /\ started'[d] <= clock
      BY <2>3 DEF UnlinkStale
    <3> QED
      BY <3>1, OwnUndisturbed
  <2>4. CASE Acquire(d)
    <3>1. /\ UNCHANGED <<status, nextRun, clock>>
          /\ \A e \in Daemons \ {d}: pc'[e] = pc[e] /\ job'[e] = job[e]
                                    /\ started'[e] = started[e]
          /\ pc'[d] \notin OwnSteps /\ started'[d] <= clock
      BY <2>4 DEF Acquire
    <3> QED
      BY <3>1, OwnUndisturbed
  <2>5. CASE Select(d)
    <3>1. /\ UNCHANGED <<status, nextRun, clock>>
          /\ \A e \in Daemons \ {d}: pc'[e] = pc[e] /\ job'[e] = job[e]
                                    /\ started'[e] = started[e]
          /\ pc'[d] \notin OwnSteps /\ started'[d] <= clock
      BY <2>5 DEF Select
    <3> QED
      BY <3>1, OwnUndisturbed
  <2>6. CASE Claim(d)
    <3>1. CASE Due(job[d], started[d])
      <4>1. /\ status' = [status EXCEPT ![job[d]] = "running"]
            /\ pc' = [pc EXCEPT ![d] = "execute"]
            /\ UNCHANGED <<job, started, nextRun, clock>>
        BY <2>6, <3>1 DEF Claim
      <4>2. job[d] \in Jobs /\ status[job[d]] = "pending"
               /\ nextRun[job[d]] < started[d] + TicksPerSecond
        BY <2>6, <3>1, ArrivedSoon DEF Claim
      <4>3. \A e \in Daemons: e # d /\ pc[e] \in OwnSteps => job[e] # job[d]
        BY <4>2
      <4>4. \A e \in Daemons, j \in Jobs: Owns(e, j)' =>
               \/ e = d /\ j = job[d]
               \/ e # d /\ Owns(e, j) /\ j # job[d]
        BY <4>1, <4>3
      <4>5. \A e \in Daemons, j \in Jobs: Owns(e, j) =>
               /\ status[j] = "running" /\ nextRun[j] < started[e] + TicksPerSecond
               /\ started[e] <= clock
        OBVIOUS
      <4>6. SingleOwner'
        BY <4>4
      <4>7. OwnedIsRunning'
        BY <4>1, <4>2, <4>4, <4>5
      <4>8. NeverBeforeRetryTime'
        BY <4>1, <4>2, <4>4, <4>5
      <4>9. StartedInPast'
        BY <4>1
      <4> QED
        BY <4>6, <4>7, <4>8, <4>9
    <3>2. CASE ~Due(job[d], started[d])
      <4>1. /\ UNCHANGED <<status, nextRun, clock>>
            /\ \A e \in Daemons \ {d}: pc'[e] = pc[e] /\ job'[e] = job[e]
                                      /\ started'[e] = started[e]
            /\ pc'[d] \notin OwnSteps /\ started'[d] <= clock
        BY <2>6, <3>2 DEF Claim
      <4> QED
        BY <4>1, OwnUndisturbed
    <3> QED
      BY <3>1, <3>2
  <2>7. CASE Execute(d)
    <3>1. UNCHANGED <<status, nextRun, clock, started, job>>
      BY <2>7 DEF Execute
    <3>2. \A e \in Daemons: pc'[e] \in OwnSteps => pc[e] \in OwnSteps
      BY <2>7 DEF Execute
    <3>3. \A e \in Daemons, j \in Jobs: Owns(e, j)' => Owns(e, j)
      BY <3>1, <3>2
    <3>4. SingleOwner'
      BY <3>3
    <3>5. OwnedIsRunning' /\ NeverBeforeRetryTime' /\ StartedInPast'
      BY <3>1, <3>3
    <3> QED
      BY <3>4, <3>5
  <2>8. CASE MarkRetryable(d)
    BY <2>8 DEF MarkRetryable
  <2>9. CASE ReadRetries(d)
    <3>1. /\ UNCHANGED <<status, nextRun, clock>>
          /\ \A e \in Daemons \ {d}: pc'[e] = pc[e] /\ job'[e] = job[e]
                                    /\ started'[e] = started[e]
          /\ pc'[d] \notin OwnSteps /\ started'[d] <= clock
      BY <2>9 DEF ReadRetries
    <3> QED
      BY <3>1, OwnUndisturbed
  <2>10. CASE RecordFailed(d)
    <3>1. /\ UNCHANGED <<status, nextRun, clock>>
          /\ \A e \in Daemons \ {d}: pc'[e] = pc[e] /\ job'[e] = job[e]
                                    /\ started'[e] = started[e]
          /\ pc'[d] \notin OwnSteps /\ started'[d] <= clock
      BY <2>10 DEF RecordFailed
    <3> QED
      BY <3>1, OwnUndisturbed
  <2>11. CASE MarkCompleted(d)
    BY <2>11 DEF MarkCompleted
  <2>12. CASE Finish(d)
    <3>1. /\ UNCHANGED <<status, nextRun, clock>>
          /\ \A e \in Daemons \ {d}: pc'[e] = pc[e] /\ job'[e] = job[e]
                                    /\ started'[e] = started[e]
          /\ pc'[d] \notin OwnSteps /\ started'[d] <= clock
      BY <2>12 DEF Finish
    <3> QED
      BY <3>1, OwnUndisturbed
  <2>13. CASE Release(d)
    <3>1. /\ UNCHANGED <<status, nextRun, clock>>
          /\ \A e \in Daemons \ {d}: pc'[e] = pc[e] /\ job'[e] = job[e]
                                    /\ started'[e] = started[e]
          /\ pc'[d] \notin OwnSteps /\ started'[d] <= clock
      BY <2>13 DEF Release
    <3> QED
      BY <3>1, OwnUndisturbed
  <2> QED
    BY <1>3, <2>1, <2>2, <2>3, <2>4, <2>5, <2>6, <2>7,
       <2>8, <2>9, <2>10, <2>11, <2>12, <2>13 DEF Run
<1>4. ASSUME NEW d \in Daemons, Crash(d) PROVE OwnInv'
  <2>1. /\ UNCHANGED <<status, nextRun, clock>>
        /\ \A e \in Daemons \ {d}: pc'[e] = pc[e] /\ job'[e] = job[e]
                                  /\ started'[e] = started[e]
        /\ pc'[d] \notin OwnSteps /\ started'[d] <= clock
    BY <1>4 DEF Crash
  <2> QED
    BY <2>1, OwnUndisturbed
<1>5. ASSUME NEW d \in Daemons, Abort(d) PROVE OwnInv'
  <2>1. /\ UNCHANGED <<status, nextRun, clock>>
        /\ \A e \in Daemons \ {d}: pc'[e] = pc[e] /\ job'[e] = job[e]
                                  /\ started'[e] = started[e]
        /\ pc'[d] \notin OwnSteps /\ started'[d] <= clock
    BY <1>5 DEF Abort
  <2> QED
    BY <2>1, OwnUndisturbed
<1>6. CASE UNCHANGED vars
  BY <1>6 DEF vars
<1> QED
  BY <1>1, <1>2, <1>3, <1>4, <1>5, <1>6 DEF Next

\* No job is ever in the hands of two processes, with or without stale-lock
\* recovery and whatever crashes; see SingleOwner.
THEOREM OneOwnerPerJob == Spec => []SingleOwner
<1>1. TypeInv /\ OwnInv => SingleOwner
  BY DEF OwnInv
<1> QED
  BY <1>1, TypeInit, TypeNext, OwnInit, OwnNext, PTL DEF Spec

\* A job in a process's hands is running in the table; see OwnedIsRunning.
THEOREM OwnedRowsAreRunning == Spec => []OwnedIsRunning
<1>1. TypeInv /\ OwnInv => OwnedIsRunning
  BY DEF OwnInv
<1> QED
  BY <1>1, TypeInit, TypeNext, OwnInit, OwnNext, PTL DEF Spec

\* No attempt starts a second or more before the scheduled retry time; see
\* NeverBeforeRetryTime, which has why up to a second is possible.
THEOREM RetryTimeRespected == Spec => []NeverBeforeRetryTime
<1>1. TypeInv /\ OwnInv => NeverBeforeRetryTime
  BY DEF OwnInv
<1> QED
  BY <1>1, TypeInit, TypeNext, OwnInit, OwnNext, PTL DEF Spec

(***************************************************************************)
(* Events.  A run reaches Finish with a job only through MarkCompleted, as  *)
(* its owner; from then on the row is completed and can have no owner, so   *)
(* no other run gets there with the same job.                               *)
(***************************************************************************)
DoneInv ==
    /\ \A j \in Jobs: completedEvents[j] <= 1
    /\ \A j \in Jobs: status[j] # "completed" => completedEvents[j] = 0
    /\ \A d \in Daemons: pc[d] = "finish" /\ job[d] \in Jobs =>
          status[job[d]] = "completed" /\ completedEvents[job[d]] = 0
    /\ \A d, e \in Daemons:
          pc[d] = "finish" /\ pc[e] = "finish" /\ job[d] \in Jobs
             /\ job[d] = job[e] => d = e

FailedInv ==
    /\ \A j \in Jobs: \A n \in failedEvents[j]: 1 <= n /\ n <= retries[j]
    /\ \A d \in Daemons: pc[d] = "readRetries" => 1 <= retries[job[d]]
    /\ \A d \in Daemons: pc[d] = "recordFailed" =>
          1 <= number[d] /\ number[d] <= retries[job[d]]

SavedInv ==
    /\ \A j \in Jobs: collectEvents[j] <= 1
    /\ \A j \in Jobs: status[j] = "completed" => collectEvents[j] = 1
    /\ \A j \in Jobs: status[j] \in {"absent", "pending"} => collectEvents[j] = 0
    /\ \A d \in Daemons: pc[d] \in {"execute", "markRetryable"} => collectEvents[job[d]] = 0
    /\ \A d \in Daemons: pc[d] = "markCompleted" => collectEvents[job[d]] = 1

\* Counting one more at an index lowers no count.
LEMMA CountOne ==
    ASSUME NEW S, NEW f \in [S -> Nat], NEW x \in S, NEW g,
           g = [f EXCEPT ![x] = @ + 1]
    PROVE  /\ g[x] = f[x] + 1 /\ g[x] >= 1
           /\ \A y \in S: f[y] \in Nat /\ g[y] \in Nat /\ f[y] <= g[y]
OBVIOUS

LEMMA EventInit == Init => DoneInv /\ FailedInv /\ SavedInv
BY DaemonAssumption DEF Init, DoneInv, FailedInv, SavedInv

\* a step after which no completed job is anything else and no other process is at
\* the event of a job
LEMMA DoneKept ==
  ASSUME DoneInv, completedEvents' = completedEvents,
         \A j \in Jobs: status[j] = "completed" => status'[j] = "completed",
         \A e \in Daemons: pc'[e] = "finish" /\ job'[e] \in Jobs =>
               pc[e] = "finish" /\ job'[e] = job[e]
  PROVE  DoneInv'
  BY DEF DoneInv

LEMMA DoneNext == TypeInv /\ OwnInv /\ DoneInv /\ [Next]_vars => DoneInv'
<1> SUFFICES ASSUME TypeInv, OwnInv, DoneInv, [Next]_vars PROVE DoneInv'
  OBVIOUS
<1>0. \A d \in Daemons: pc[d] \in OwnSteps => status[job[d]] = "running"
  BY DEF OwnInv, OwnedIsRunning, Owns, TypeInv, TypeOK, JobInHand, JobSteps, OwnSteps
<1> USE <1>0, DaemonAssumption DEF TypeInv, TypeOK, JobInHand, JobSteps, Steps,
        LockSteps, TrySteps, OwnSteps, DoneInv, Due, Goto, EndRun, RemoveLock,
        NoJob, lockVars, runVars, tableVars, eventVars
<1>1. ASSUME NEW j \in Jobs, NEW p \in Priorities, AddJob(j, p) PROVE DoneInv'
  BY <1>1, DoneKept DEF AddJob
<1>2. CASE Tick
  BY <1>2, DoneKept DEF Tick
<1>3. ASSUME NEW d \in Daemons, Run(d) PROVE DoneInv'
  <2>1. CASE Begin(d)
    <3>1. /\ completedEvents' = completedEvents
          /\ \A j \in Jobs: status[j] = "completed" => status'[j] = "completed"
          /\ \A e \in Daemons: pc'[e] = "finish" /\ job'[e] \in Jobs =>
                pc[e] = "finish" /\ job'[e] = job[e]
      BY <2>1 DEF Begin
    <3> QED
      BY <3>1, DoneKept
  <2>2. CASE CheckAge(d)
    <3>1. /\ completedEvents' = completedEvents
          /\ \A j \in Jobs: status[j] = "completed" => status'[j] = "completed"
          /\ \A e \in Daemons: pc'[e] = "finish" /\ job'[e] \in Jobs =>
                pc[e] = "finish" /\ job'[e] = job[e]
      BY <2>2 DEF CheckAge
    <3> QED
      BY <3>1, DoneKept
  <2>3. CASE UnlinkStale(d)
    <3>1. /\ completedEvents' = completedEvents
          /\ \A j \in Jobs: status[j] = "completed" => status'[j] = "completed"
          /\ \A e \in Daemons: pc'[e] = "finish" /\ job'[e] \in Jobs =>
                pc[e] = "finish" /\ job'[e] = job[e]
      BY <2>3 DEF UnlinkStale
    <3> QED
      BY <3>1, DoneKept
  <2>4. CASE Acquire(d)
    <3>1. /\ completedEvents' = completedEvents
          /\ \A j \in Jobs: status[j] = "completed" => status'[j] = "completed"
          /\ \A e \in Daemons: pc'[e] = "finish" /\ job'[e] \in Jobs =>
                pc[e] = "finish" /\ job'[e] = job[e]
      BY <2>4 DEF Acquire
    <3> QED
      BY <3>1, DoneKept
  <2>5. CASE Select(d)
    <3>1. /\ completedEvents' = completedEvents
          /\ \A j \in Jobs: status[j] = "completed" => status'[j] = "completed"
          /\ \A e \in Daemons: pc'[e] = "finish" /\ job'[e] \in Jobs =>
                pc[e] = "finish" /\ job'[e] = job[e]
      BY <2>5 DEF Select
    <3> QED
      BY <3>1, DoneKept
  <2>6. CASE Claim(d)
    <3>1. /\ completedEvents' = completedEvents
          /\ \A j \in Jobs: status[j] = "completed" => status'[j] = "completed"
          /\ \A e \in Daemons: pc'[e] = "finish" /\ job'[e] \in Jobs =>
                pc[e] = "finish" /\ job'[e] = job[e]
      BY <2>6 DEF Claim
    <3> QED
      BY <3>1, DoneKept
  <2>7. CASE Execute(d)
    <3>1. /\ completedEvents' = completedEvents
          /\ \A j \in Jobs: status[j] = "completed" => status'[j] = "completed"
          /\ \A e \in Daemons: pc'[e] = "finish" /\ job'[e] \in Jobs =>
                pc[e] = "finish" /\ job'[e] = job[e]
      BY <2>7 DEF Execute
    <3> QED
      BY <3>1, DoneKept
  <2>8. CASE MarkRetryable(d)
    <3>1. /\ completedEvents' = completedEvents
          /\ \A j \in Jobs: status[j] = "completed" => status'[j] = "completed"
          /\ \A e \in Daemons: pc'[e] = "finish" /\ job'[e] \in Jobs =>
                pc[e] = "finish" /\ job'[e] = job[e]
      BY <2>8 DEF MarkRetryable
    <3> QED
      BY <3>1, DoneKept
  <2>9. CASE ReadRetries(d)
    <3>1. /\ completedEvents' = completedEvents
          /\ \A j \in Jobs: status[j] = "completed" => status'[j] = "completed"
          /\ \A e \in Daemons: pc'[e] = "finish" /\ job'[e] \in Jobs =>
                pc[e] = "finish" /\ job'[e] = job[e]
      BY <2>9 DEF ReadRetries
    <3> QED
      BY <3>1, DoneKept
  <2>10. CASE RecordFailed(d)
    <3>1. /\ completedEvents' = completedEvents
          /\ \A j \in Jobs: status[j] = "completed" => status'[j] = "completed"
          /\ \A e \in Daemons: pc'[e] = "finish" /\ job'[e] \in Jobs =>
                pc[e] = "finish" /\ job'[e] = job[e]
      BY <2>10 DEF RecordFailed
    <3> QED
      BY <3>1, DoneKept
  <2>11. CASE MarkCompleted(d)
    <3>1. /\ job[d] \in Jobs /\ status[job[d]] = "running"
          /\ UNCHANGED <<job, completedEvents>>
          /\ pc' = [pc EXCEPT ![d] = "finish"]
          /\ status' = [status EXCEPT ![job[d]] = "completed"]
      BY <2>11 DEF MarkCompleted
    <3>2. completedEvents[job[d]] = 0
      BY <3>1
    <3>3. \A j \in Jobs: status'[j] = IF j = job[d] THEN "completed" ELSE status[j]
      BY <3>1
    <3>4. \A e \in Daemons: pc'[e] = "finish" /\ job[e] \in Jobs =>
             \/ e = d
             \/ e # d /\ pc[e] = "finish" /\ job[e] # job[d]
      BY <3>1
    <3> QED
      BY <3>1, <3>2, <3>3, <3>4
  <2>12. CASE Finish(d)
    <3>1. pc' = [pc EXCEPT ![d] = "release"] /\ UNCHANGED <<job, status>>
      BY <2>12 DEF Finish
    <3>2. \A e \in Daemons: e # d /\ pc[e] = "finish" /\ job[e] \in Jobs
                               => job[e] # job[d]
      BY <2>12 DEF Finish
    <3>3. CASE job[d] \in Jobs
      <4>1. status[job[d]] = "completed" /\ completedEvents[job[d]] = 0
        BY <2>12, <3>3 DEF Finish
      <4>2. completedEvents' = [completedEvents EXCEPT ![job[d]] = 1]
        BY <2>12, <3>3, <4>1 DEF Finish
      <4> QED
        BY <3>1, <3>2, <3>3, <4>1, <4>2
    <3>4. CASE job[d] = NoJob
      BY <2>12, <3>1, <3>4 DEF Finish
    <3> QED
      BY <3>3, <3>4
  <2>13. CASE Release(d)
    <3>1. /\ completedEvents' = completedEvents
          /\ \A j \in Jobs: status[j] = "completed" => status'[j] = "completed"
          /\ \A e \in Daemons: pc'[e] = "finish" /\ job'[e] \in Jobs =>
                pc[e] = "finish" /\ job'[e] = job[e]
      BY <2>13 DEF Release
    <3> QED
      BY <3>1, DoneKept
  <2> QED
    BY <1>3, <2>1, <2>2, <2>3, <2>4, <2>5, <2>6, <2>7,
       <2>8, <2>9, <2>10, <2>11, <2>12, <2>13 DEF Run
<1>4. ASSUME NEW d \in Daemons, Crash(d) PROVE DoneInv'
  <2>1. /\ completedEvents' = completedEvents
        /\ \A j \in Jobs: status[j] = "completed" => status'[j] = "completed"
        /\ \A e \in Daemons: pc'[e] = "finish" /\ job'[e] \in Jobs =>
              pc[e] = "finish" /\ job'[e] = job[e]
    BY <1>4 DEF Crash
  <2> QED
    BY <2>1, DoneKept
<1>5. ASSUME NEW d \in Daemons, Abort(d) PROVE DoneInv'
  <2>1. /\ completedEvents' = completedEvents
        /\ \A j \in Jobs: status[j] = "completed" => status'[j] = "completed"
        /\ \A e \in Daemons: pc'[e] = "finish" /\ job'[e] \in Jobs =>
              pc[e] = "finish" /\ job'[e] = job[e]
    BY <1>5 DEF Abort
  <2> QED
    BY <2>1, DoneKept
<1>6. CASE UNCHANGED vars
  BY <1>6 DEF vars
<1> QED
  BY <1>1, <1>2, <1>3, <1>4, <1>5, <1>6 DEF Next

LEMMA FailedNext == TypeInv /\ OwnInv /\ FailedInv /\ [Next]_vars => FailedInv'
<1> SUFFICES ASSUME TypeInv, OwnInv, FailedInv, [Next]_vars PROVE FailedInv'
  OBVIOUS
<1>0. \A d \in Daemons: pc[d] \in OwnSteps => status[job[d]] = "running"
  BY DEF OwnInv, OwnedIsRunning, Owns, TypeInv, TypeOK, JobInHand, JobSteps, OwnSteps
<1> USE <1>0, DaemonAssumption DEF TypeInv, TypeOK, JobInHand, JobSteps, Steps,
        LockSteps, TrySteps, OwnSteps, FailedInv, Due, Goto, EndRun, RemoveLock,
        NoJob, lockVars, runVars, tableVars, eventVars
<1>1. ASSUME NEW j \in Jobs, NEW p \in Priorities, AddJob(j, p) PROVE FailedInv'
  BY <1>1 DEF AddJob
<1>2. CASE Tick
  BY <1>2 DEF Tick
<1>3. ASSUME NEW d \in Daemons, Run(d) PROVE FailedInv'
  <2>1. CASE Begin(d)
    BY <2>1 DEF Begin
  <2>2. CASE CheckAge(d)
    BY <2>2 DEF CheckAge
  <2>3. CASE UnlinkStale(d)
    BY <2>3 DEF UnlinkStale
  <2>4. CASE Acquire(d)
    BY <2>4 DEF Acquire
  <2>5. CASE Select(d)
    BY <2>5 DEF Select
  <2>6. CASE Claim(d)
    BY <2>6 DEF Claim
  <2>7. CASE Execute(d)
    BY <2>7 DEF Execute
  <2>8. CASE MarkRetryable(d)
    <3>1. status[job[d]] = "running" /\ job[d] \in Jobs
      BY <2>8 DEF MarkRetryable
    <3>2. retries' = [retries EXCEPT ![job[d]] = @ + 1]
      BY <2>8, <3>1 DEF MarkRetryable
    <3>3. pc' = [pc EXCEPT ![d] = "readRetries"]
             /\ UNCHANGED <<job, number, failedEvents>>
      BY <2>8 DEF MarkRetryable
    <3>4. /\ retries'[job[d]] >= 1
          /\ \A k \in Jobs: retries[k] \in Nat /\ retries'[k] \in Nat
                            /\ retries[k] <= retries'[k]
      <4>1. retries \in [Jobs -> Nat]
        OBVIOUS
      <4> HIDE DEF TypeInv, TypeOK, FailedInv
      <4> QED
        BY <3>1, <3>2, <4>1, CountOne
    <3>5. \A k \in Jobs: \A n \in failedEvents'[k]: 1 <= n /\ n <= retries'[k]
      BY <3>3, <3>4
    <3>6. \A e \in Daemons: pc[e] = "readRetries" =>
             job[e] \in Jobs /\ 1 <= retries[job[e]]
      OBVIOUS
    <3>7. \A e \in Daemons: pc[e] = "recordFailed" =>
             job[e] \in Jobs /\ 1 <= number[e] /\ number[e] <= retries[job[e]]
      OBVIOUS
    <3>8. \A e \in Daemons: number[e] \in Nat /\ (e # d => pc'[e] = pc[e])
      BY <3>3
    <3>9. pc'[d] = "readRetries" /\ UNCHANGED <<job, number>>
      BY <3>3
    <3> HIDE DEF TypeInv, TypeOK, JobInHand, JobSteps, Steps, LockSteps, TrySteps,
            FailedInv
    <3>10. \A e \in Daemons: pc'[e] = "readRetries" => 1 <= retries'[job'[e]]
      <4> SUFFICES ASSUME NEW e \in Daemons, pc'[e] = "readRetries"
                   PROVE  1 <= retries'[job[e]]
        BY <3>9
      <4>1. CASE e = d
        BY <3>1, <3>4, <4>1
      <4>2. CASE e # d
        <5>1. job[e] \in Jobs /\ 1 <= retries[job[e]]
          BY <3>6, <3>8, <4>2
        <5>2. retries[job[e]] \in Nat /\ retries'[job[e]] \in Nat
                 /\ retries[job[e]] <= retries'[job[e]]
          BY <3>4, <5>1
        <5> QED
          BY <5>1, <5>2
      <4> QED
        BY <4>1, <4>2
    <3>11. \A e \in Daemons: pc'[e] = "recordFailed" =>
              1 <= number'[e] /\ number'[e] <= retries'[job'[e]]
      <4> SUFFICES ASSUME NEW e \in Daemons, pc'[e] = "recordFailed"
                   PROVE  1 <= number[e] /\ number[e] <= retries'[job[e]]
        BY <3>9
      <4>1. /\ job[e] \in Jobs /\ number[e] \in Nat
            /\ 1 <= number[e] /\ number[e] <= retries[job[e]]
        BY <3>7, <3>8, <3>9
      <4>2. retries[job[e]] \in Nat /\ retries'[job[e]] \in Nat
               /\ retries[job[e]] <= retries'[job[e]]
        BY <3>4, <4>1
      <4> QED
        BY <4>1, <4>2
    <3> QED
      BY <3>5, <3>10, <3>11 DEF FailedInv
  <2>9. CASE ReadRetries(d)
    <3>1. /\ job[d] \in Jobs
          /\ number' = [number EXCEPT ![d] = retries[job[d]]]
          /\ pc' = [pc EXCEPT ![d] = "recordFailed"]
          /\ UNCHANGED <<job, retries, failedEvents>>
      BY <2>9 DEF ReadRetries
    <3>2. 1 <= retries[job[d]] /\ retries[job[d]] \in Nat
      BY <2>9, <3>1 DEF ReadRetries
    <3> QED
      BY <3>1, <3>2
  <2>10. CASE RecordFailed(d)
    BY <2>10 DEF RecordFailed
  <2>11. CASE MarkCompleted(d)
    BY <2>11 DEF MarkCompleted
  <2>12. CASE Finish(d)
    BY <2>12 DEF Finish
  <2>13. CASE Release(d)
    BY <2>13 DEF Release
  <2> QED
    BY <1>3, <2>1, <2>2, <2>3, <2>4, <2>5, <2>6, <2>7,
       <2>8, <2>9, <2>10, <2>11, <2>12, <2>13 DEF Run
<1>4. ASSUME NEW d \in Daemons, Crash(d) PROVE FailedInv'
  BY <1>4 DEF Crash
<1>5. ASSUME NEW d \in Daemons, Abort(d) PROVE FailedInv'
  BY <1>5 DEF Abort
<1>6. CASE UNCHANGED vars
  BY <1>6 DEF vars
<1> QED
  BY <1>1, <1>2, <1>3, <1>4, <1>5, <1>6 DEF Next

LEMMA SavedNext == TypeInv /\ OwnInv /\ SavedInv /\ [Next]_vars => SavedInv'
<1> SUFFICES ASSUME TypeInv, OwnInv, SavedInv, [Next]_vars PROVE SavedInv'
  OBVIOUS
<1>0. /\ \A d \in Daemons: pc[d] \in OwnSteps => job[d] \in Jobs /\ status[job[d]] = "running"
      /\ \A d, e \in Daemons: pc[d] \in OwnSteps /\ pc[e] \in OwnSteps /\ job[d] = job[e]
            => d = e
  BY DEF OwnInv, OwnedIsRunning, SingleOwner, Owns, TypeInv, TypeOK, JobInHand, JobSteps, OwnSteps
<1> USE <1>0, DaemonAssumption DEF TypeInv, TypeOK, JobInHand, JobSteps, Steps,
        LockSteps, TrySteps, OwnSteps, SavedInv, Due, Goto, EndRun, RemoveLock,
        NoJob, lockVars, runVars, tableVars, eventVars
<1>1. ASSUME NEW j \in Jobs, NEW p \in Priorities, AddJob(j, p) PROVE SavedInv'
  BY <1>1 DEF AddJob
<1>2. CASE Tick
  BY <1>2 DEF Tick
<1>3. ASSUME NEW d \in Daemons, Run(d) PROVE SavedInv'
  <2>1. CASE Begin(d)
    BY <2>1 DEF Begin
  <2>2. CASE CheckAge(d)
    BY <2>2 DEF CheckAge
  <2>3. CASE UnlinkStale(d)
    BY <2>3 DEF UnlinkStale
  <2>4. CASE Acquire(d)
    BY <2>4 DEF Acquire
  <2>5. CASE Select(d)
    BY <2>5 DEF Select
  <2>6. CASE Claim(d)
    <3>1. UNCHANGED collectEvents
      BY <2>6 DEF Claim
    <3>2. CASE Due(job[d], started[d])
      <4>1. /\ status' = [status EXCEPT ![job[d]] = "running"]
            /\ pc' = [pc EXCEPT ![d] = "execute"]
            /\ UNCHANGED job
        BY <2>6, <3>2 DEF Claim
      <4>2. job[d] \in Jobs /\ status[job[d]] = "pending"
        BY <2>6, <3>2 DEF Claim
      <4>3. collectEvents[job[d]] = 0
        BY <4>2
      <4>4. \A j \in Jobs: status'[j] = IF j = job[d] THEN "running" ELSE status[j]
        BY <4>1, <4>2
      <4>5. \A e \in Daemons: pc'[e] = IF e = d THEN "execute" ELSE pc[e]
        BY <4>1
      <4> QED
        BY <3>1, <4>1, <4>2, <4>3, <4>4, <4>5
    <3>3. CASE ~Due(job[d], started[d])
      <4>1. /\ pc' = [pc EXCEPT ![d] = "finish"]
            /\ job' = [job EXCEPT ![d] = NoJob]
            /\ UNCHANGED status
        BY <2>6, <3>3 DEF Claim
      <4> QED
        BY <3>1, <4>1
    <3> QED
      BY <3>2, <3>3
  <2>7. CASE Execute(d)
    <3>1. /\ job[d] \in Jobs /\ status[job[d]] = "running" /\ collectEvents[job[d]] = 0
          /\ UNCHANGED <<job, status>>
      BY <2>7 DEF Execute
    <3>2. \A e \in Daemons: e # d /\ pc[e] \in OwnSteps => job[e] \in Jobs /\ job[e] # job[d]
      BY <2>7 DEF Execute
    <3>3. CASE pc' = [pc EXCEPT ![d] = "markRetryable"] /\ UNCHANGED collectEvents
      BY <3>1, <3>3
    <3>4. CASE /\ collectEvents' = [collectEvents EXCEPT ![job[d]] = @ + 1]
               /\ pc' = [pc EXCEPT ![d] = "markCompleted"]
      <4>1. /\ collectEvents'[job[d]] = 1
            /\ \A j \in Jobs: j # job[d] => collectEvents'[j] = collectEvents[j]
        BY <3>1, <3>4
      <4>2. \A e \in Daemons: pc'[e] = IF e = d THEN "markCompleted" ELSE pc[e]
        BY <3>4
      <4>3. /\ \A j \in Jobs: collectEvents'[j] <= 1
            /\ \A j \in Jobs: status[j] = "completed" => collectEvents'[j] = 1
            /\ \A j \in Jobs: status[j] \in {"absent", "pending"} => collectEvents'[j] = 0
        BY <3>1, <4>1
      <4>4. \A e \in Daemons: e # d /\ pc[e] \in OwnSteps =>
               collectEvents'[job[e]] = collectEvents[job[e]]
        BY <3>2, <4>1
      <4>5. /\ \A e \in Daemons: pc'[e] \in {"execute", "markRetryable"} =>
                  collectEvents'[job[e]] = 0
            /\ \A e \in Daemons: pc'[e] = "markCompleted" => collectEvents'[job[e]] = 1
        BY <4>1, <4>2, <4>4
      <4> QED
        BY <3>1, <4>3, <4>5
    <3> QED
      BY <2>7, <3>3, <3>4 DEF Execute
  <2>8. CASE MarkRetryable(d)
    BY <2>8 DEF MarkRetryable
  <2>9. CASE ReadRetries(d)
    BY <2>9 DEF ReadRetries
  <2>10. CASE RecordFailed(d)
    BY <2>10 DEF RecordFailed
  <2>11. CASE MarkCompleted(d)
    BY <2>11 DEF MarkCompleted
  <2>12. CASE Finish(d)
    BY <2>12 DEF Finish
  <2>13. CASE Release(d)
    BY <2>13 DEF Release
  <2> QED
    BY <1>3, <2>1, <2>2, <2>3, <2>4, <2>5, <2>6, <2>7,
       <2>8, <2>9, <2>10, <2>11, <2>12, <2>13 DEF Run
<1>4. ASSUME NEW d \in Daemons, Crash(d) PROVE SavedInv'
  BY <1>4 DEF Crash
<1>5. ASSUME NEW d \in Daemons, Abort(d) PROVE SavedInv'
  BY <1>5 DEF Abort
<1>6. CASE UNCHANGED vars
  BY <1>6 DEF vars
<1> QED
  BY <1>1, <1>2, <1>3, <1>4, <1>5, <1>6 DEF Next

\* The event log and the catalogue agree with crawl_jobs; see EventsMatchTable.
THEOREM EventsAgree == Spec => []EventsMatchTable
<1>1. TypeInv /\ DoneInv /\ FailedInv /\ SavedInv => EventsMatchTable
  BY DEF TypeInv, TypeOK, DoneInv, FailedInv, SavedInv, Statuses, EventsMatchTable
<1> QED
  BY <1>1, TypeInit, TypeNext, OwnInit, OwnNext, EventInit, DoneNext,
     FailedNext, SavedNext, PTL DEF Spec

(***************************************************************************)
(* Without stale-lock recovery.  Nobody unlinks before creating, so the     *)
(* file stays the one its owner created until the owner's finally.          *)
(***************************************************************************)
LockInv ==
    \A d \in Daemons:
        /\ pc[d] \in LockSteps => lockOwner = d
        /\ pc[d] \notin {"checkAge", "unlink"}

LEMMA LockInit == Init => LockInv
BY DaemonAssumption DEF Init, LockInv, LockSteps, TrySteps

LEMMA LockNext == ~StaleRecovery /\ TypeInv /\ LockInv /\ [Next]_vars => LockInv'
<1> SUFFICES ASSUME ~StaleRecovery, TypeInv, LockInv, [Next]_vars PROVE LockInv'
  OBVIOUS
<1> USE DaemonAssumption DEF TypeInv, TypeOK, Steps, LockSteps, TrySteps, LockInv,
        Goto, EndRun, RemoveLock, NoJob, lockVars, runVars, tableVars, eventVars
<1>1. ASSUME NEW j \in Jobs, NEW p \in Priorities, AddJob(j, p) PROVE LockInv'
  BY <1>1 DEF AddJob
<1>2. CASE Tick
  BY <1>2 DEF Tick
<1>3. ASSUME NEW d \in Daemons, Run(d) PROVE LockInv'
  <2>1. CASE Begin(d)
    BY <2>1 DEF Begin
  <2>2. CASE CheckAge(d)
    BY <2>2 DEF CheckAge
  <2>3. CASE UnlinkStale(d)
    BY <2>3 DEF UnlinkStale
  <2>4. CASE Acquire(d)
    BY <2>4 DEF Acquire
  <2>5. CASE Select(d)
    BY <2>5 DEF Select
  <2>6. CASE Claim(d)
    BY <2>6 DEF Claim
  <2>7. CASE Execute(d)
    BY <2>7 DEF Execute
  <2>8. CASE MarkRetryable(d)
    BY <2>8 DEF MarkRetryable
  <2>9. CASE ReadRetries(d)
    BY <2>9 DEF ReadRetries
  <2>10. CASE RecordFailed(d)
    BY <2>10 DEF RecordFailed
  <2>11. CASE MarkCompleted(d)
    BY <2>11 DEF MarkCompleted
  <2>12. CASE Finish(d)
    BY <2>12 DEF Finish
  <2>13. CASE Release(d)
    BY <2>13 DEF Release
  <2> QED
    BY <1>3, <2>1, <2>2, <2>3, <2>4, <2>5, <2>6, <2>7,
       <2>8, <2>9, <2>10, <2>11, <2>12, <2>13 DEF Run
<1>4. ASSUME NEW d \in Daemons, Crash(d) PROVE LockInv'
  BY <1>4 DEF Crash
<1>5. ASSUME NEW d \in Daemons, Abort(d) PROVE LockInv'
  BY <1>5 DEF Abort
<1>6. CASE UNCHANGED vars
  BY <1>6 DEF vars
<1> QED
  BY <1>1, <1>2, <1>3, <1>4, <1>5, <1>6 DEF Next

LEMMA UnlockStep ==
    ~StaleRecovery /\ TypeInv /\ LockInv /\ [Next]_vars
       /\ lockOwner # NoDaemon /\ lockOwner' # lockOwner
    => pc[lockOwner] = "release" /\ pc'[lockOwner] = "idle"
<1> SUFFICES ASSUME ~StaleRecovery, TypeInv, LockInv, [Next]_vars,
                    lockOwner # NoDaemon, lockOwner' # lockOwner
             PROVE  pc[lockOwner] = "release" /\ pc'[lockOwner] = "idle"
  OBVIOUS
<1>1. PICK d \in Daemons: UnlinkStale(d) \/ Acquire(d) \/ Release(d)
  BY DEF Next, Run, vars, lockVars, AddJob, Tick, Begin, CheckAge, Select, Claim,
     Execute, MarkRetryable, ReadRetries, RecordFailed, MarkCompleted, Finish,
     Crash, Abort
<1>2. Release(d)
  BY <1>1 DEF UnlinkStale, Acquire, LockInv, lockVars
<1> QED
  BY <1>2 DEF Release, LockInv, LockSteps, EndRun, TypeInv, TypeOK

\* In the production configuration two runs are never past the lock at once.
THEOREM ProductionMutualExclusion ==
    ASSUME ~StaleRecovery PROVE Spec => []MutualExclusion
<1>1. LockInv => MutualExclusion
  BY DEF LockInv, MutualExclusion
<1>2. TypeInv /\ LockInv /\ [Next]_vars => LockInv'
  BY LockNext
<1> QED
  BY <1>1, <1>2, TypeInit, TypeNext, LockInit, PTL DEF Spec

\* In the production configuration only the run that created the lock file
\* removes it; see OnlyOwnerUnlocks.
THEOREM ProductionUnlock ==
    ASSUME ~StaleRecovery PROVE Spec => OnlyOwnerUnlocks
<1>1. TypeInv /\ LockInv /\ [Next]_vars => LockInv'
  BY LockNext
<1>2. TypeInv /\ LockInv /\ [Next]_vars =>
         [lockOwner # NoDaemon /\ lockOwner' # lockOwner =>
             pc[lockOwner] = "release" /\ pc'[lockOwner] = "idle"]_vars
  BY UnlockStep
<1> QED
  BY <1>1, <1>2, TypeInit, TypeNext, LockInit, PTL DEF Spec, OnlyOwnerUnlocks

\* While a failure waits to be reported, no event carries its number yet.
NumberInv ==
    \A d \in Daemons:
        /\ pc[d] = "readRetries" =>
              \A n \in failedEvents[job[d]]: n < retries[job[d]]
        /\ pc[d] = "recordFailed" =>
              /\ number[d] = retries[job[d]]
              /\ \A n \in failedEvents[job[d]]: n < retries[job[d]]

LEMMA NumberInit == Init => NumberInv
BY DaemonAssumption DEF Init, NumberInv

LEMMA NumberNext ==
    TypeInv /\ OwnInv /\ FailedInv /\ LockInv /\ NumberInv /\ [Next]_vars => NumberInv'
<1> SUFFICES ASSUME TypeInv, OwnInv, FailedInv, LockInv, NumberInv, [Next]_vars,
                    NEW r \in Daemons, pc'[r] \in {"readRetries", "recordFailed"}
             PROVE  /\ pc'[r] = "readRetries" =>
                          \A n \in failedEvents'[job'[r]]: n < retries'[job'[r]]
                    /\ pc'[r] = "recordFailed" =>
                          /\ number'[r] = retries'[job'[r]]
                          /\ \A n \in failedEvents'[job'[r]]: n < retries'[job'[r]]
  BY DEF NumberInv
<1>0. /\ pc \in [Daemons -> Steps] /\ job \in [Daemons -> Jobs \cup {NoJob}]
      /\ number \in [Daemons -> Nat] /\ retries \in [Jobs -> Nat]
      /\ failedEvents \in [Jobs -> SUBSET Nat]
  BY DEF TypeInv, TypeOK
<1>1. CASE MarkRetryable(r)
  <2>1. job[r] \in Jobs /\ status[job[r]] = "running"
    BY <1>1 DEF MarkRetryable, TypeInv, JobInHand, JobSteps, OwnInv, OwnedIsRunning,
       Owns, OwnSteps
  <2>2. /\ retries' = [retries EXCEPT ![job[r]] = @ + 1]
        /\ pc' = [pc EXCEPT ![r] = "readRetries"] /\ UNCHANGED <<job, failedEvents>>
    BY <1>1, <2>1 DEF MarkRetryable, Goto, eventVars
  <2>3. \A n \in failedEvents[job[r]]: n \in Nat /\ n <= retries[job[r]]
    BY <1>0, <2>1 DEF FailedInv
  <2>4. retries[job[r]] \in Nat /\ retries'[job[r]] = retries[job[r]] + 1
    BY <1>0, <2>1, <2>2
  <2>5. \A n \in failedEvents[job[r]]: n < retries'[job[r]]
    BY <2>3, <2>4
  <2> QED
    BY <1>0, <2>2, <2>5
<1>2. CASE ReadRetries(r)
  <2>1. /\ number' = [number EXCEPT ![r] = retries[job[r]]] /\ pc[r] = "readRetries"
        /\ pc' = [pc EXCEPT ![r] = "recordFailed"]
        /\ UNCHANGED <<job, retries, failedEvents>>
    BY <1>2 DEF ReadRetries, Goto, tableVars, eventVars
  <2>2. \A n \in failedEvents[job[r]]: n < retries[job[r]]
    BY <2>1 DEF NumberInv
  <2> QED
    BY <1>0, <2>1, <2>2
<1>3. CASE ~MarkRetryable(r) /\ ~ReadRetries(r)
  \* r was there already, alone behind the lock: nobody touched what it reads
  <2>1. pc'[r] = pc[r] /\ UNCHANGED <<retries, failedEvents>>
           /\ job'[r] = job[r] /\ number'[r] = number[r]
    <3>1. ASSUME NEW d \in Daemons, Run(d) PROVE pc'[r] = pc[r] /\ d # r
      BY <1>0, <1>3, <3>1 DEF Run, Begin, CheckAge, UnlinkStale, Acquire, Select, Claim,
         Execute, MarkRetryable, ReadRetries, RecordFailed, MarkCompleted, Finish,
         Release, Goto, EndRun
    <3>2. ASSUME NEW d \in Daemons, Crash(d) \/ Abort(d) PROVE pc'[r] = pc[r] /\ d # r
      BY <1>0, <3>2 DEF Crash, Abort, Goto, EndRun
    <3>3. ASSUME NEW d \in Daemons, Run(d)
          PROVE  UNCHANGED <<retries, failedEvents>>
                    /\ job'[r] = job[r] /\ number'[r] = number[r]
      <4>1. pc[r] \in LockSteps /\ d # r
        BY <3>1, <3>3 DEF LockSteps, TrySteps
      <4>2. pc[d] \notin LockSteps
        BY <4>1 DEF LockInv
      <4> QED
        BY <1>0, <3>3, <4>1, <4>2 DEF Run, Begin, CheckAge, UnlinkStale, Acquire,
           Select, Claim, Execute, MarkRetryable, ReadRetries, RecordFailed,
           MarkCompleted, Finish, Release, Goto, EndRun, LockSteps, TrySteps,
           tableVars, eventVars
    <3>4. ASSUME NEW d \in Daemons, Crash(d) \/ Abort(d)
          PROVE  UNCHANGED <<retries, failedEvents>>
                    /\ job'[r] = job[r] /\ number'[r] = number[r]
      BY <1>0, <3>2, <3>4 DEF Crash, Abort, EndRun, tableVars, eventVars
    <3>5. CASE (\E j \in Jobs, p \in Priorities: AddJob(j, p)) \/ Tick \/ UNCHANGED vars
      BY <3>5 DEF AddJob, Tick, vars, runVars, tableVars, eventVars
    <3> QED
      BY <3>1, <3>2, <3>3, <3>4, <3>5 DEF Next
  <2> QED
    BY <2>1 DEF NumberInv
<1> QED
  BY <1>1, <1>2, <1>3

\* In the production configuration each daemon.job_failed event of a job has a
\* retry count of its own; see FailureNumberedOnce.
THEOREM ProductionFailureNumbers ==
    ASSUME ~StaleRecovery PROVE Spec => []FailureNumberedOnce
<1>1. TypeInv /\ NumberInv => FailureNumberedOnce
  BY DEF TypeInv, TypeOK, JobInHand, JobSteps, NumberInv, FailureNumberedOnce
<1>2. TypeInv /\ LockInv /\ [Next]_vars => LockInv'
  BY LockNext
<1> QED
  BY <1>1, <1>2, TypeInit, TypeNext, OwnInit, OwnNext, EventInit, FailedNext,
     LockInit, NumberInit, NumberNext, PTL DEF Spec

(***************************************************************************)
(* Daemon implements JobLedger.  A step of one process changes the          *)
(* ownership of at most the job it has in hand, so it maps to one step of   *)
(* the ledger on that job, or to a stutter.                                 *)
(***************************************************************************)
\* A step in which only process d moves, and which neither takes nor drops
\* job k at d, leaves the ownership of k alone.
LEMMA OwnedFrame ==
    ASSUME NEW d \in Daemons, NEW k \in Jobs,
           \A e \in Daemons: e # d => pc'[e] = pc[e] /\ job'[e] = job[e],
           ~Owns(d, k), ~Owns(d, k)'
    PROVE  Owned(k)' = Owned(k)
<1>1. Owned(k) => Owned(k)'
  <2> SUFFICES ASSUME NEW e \in Daemons, Owns(e, k) PROVE Owns(e, k)'
    BY DEF Owned
  <2> QED
    BY DEF Owns
<1>2. Owned(k)' => Owned(k)
  <2> SUFFICES ASSUME NEW e \in Daemons, Owns(e, k)' PROVE Owns(e, k)
    BY DEF Owned
  <2> QED
    BY DEF Owns
<1>3. Owned(k) \in BOOLEAN /\ Owned(k)' \in BOOLEAN
  BY DEF Owned
<1> QED
  BY <1>1, <1>2, <1>3

\* The stage of one job changes and no other: a move of the ledger.
LEMMA MoveFromStages ==
    ASSUME NEW j \in Jobs, NEW from, NEW to,
           Stage(j) = from, Stage(j)' = to,
           \A k \in Jobs: k # j => Stage(k)' = Stage(k)
    PROVE  Ledger!Move(j, from, to)
BY DEF Ledger!Move

\* No stage changes: the ledger stutters.
LEMMA StutterFromStages ==
    ASSUME \A k \in Jobs: Stage(k)' = Stage(k), UNCHANGED retries
    PROVE  UNCHANGED Ledger!ledgerVars
BY DEF Ledger!ledgerVars

\* A step of d that leaves the table alone and neither takes nor drops a job.
LEMMA QuietStep ==
    ASSUME NEW d \in Daemons,
           \A e \in Daemons: e # d => pc'[e] = pc[e] /\ job'[e] = job[e],
           \A k \in Jobs: Owns(d, k)' = Owns(d, k),
           UNCHANGED <<status, retries>>
    PROVE  UNCHANGED Ledger!ledgerVars
<1>1. ASSUME NEW k \in Jobs PROVE Owned(k)' = Owned(k)
  <2>1. CASE Owns(d, k)
    BY <2>1 DEF Owned
  <2>2. CASE ~Owns(d, k)
    BY <2>2, OwnedFrame
  <2> QED
    BY <2>1, <2>2
<1>2. \A k \in Jobs: Stage(k)' = Stage(k)
  BY <1>1 DEF Stage
<1> QED
  BY <1>2, StutterFromStages

LEMMA LedgerInit == Init => Ledger!Init
BY DEF Init, Ledger!Init, Stage, Owned, Owns, OwnSteps

-----------------------------------------------------------------------------
(* The steps the ledger sees                                                *)

LEMMA AddMaps ==
    ASSUME TypeInv, OwnInv, NEW j \in Jobs, NEW p \in Priorities, AddJob(j, p)
    PROVE  Ledger!Add(j)
<1>1. status[j] = "absent" /\ status' = [status EXCEPT ![j] = "pending"]
         /\ UNCHANGED <<pc, job, retries>>
  BY DEF AddJob, runVars
<1>2. status \in [Jobs -> Statuses]
  BY DEF TypeInv, TypeOK
<1>3. \A k \in Jobs: Owned(k)' = Owned(k)
  BY <1>1 DEF Owned, Owns
<1>4. Stage(j) = "absent" /\ Stage(j)' = "pending"
  BY <1>1, <1>2 DEF Stage
<1>5. \A k \in Jobs: k # j => Stage(k)' = Stage(k)
  BY <1>1, <1>2, <1>3 DEF Stage
<1> QED
  BY <1>1, <1>4, <1>5, MoveFromStages DEF Ledger!Add

\* What a step of d on its own job does to the other jobs: nothing.
LEMMA OthersKeepStage ==
    ASSUME NEW d \in Daemons, NEW j \in Jobs, NEW to,
           \A e \in Daemons: e # d => pc'[e] = pc[e] /\ job'[e] = job[e],
           job[d] = j, job'[d] = j,
           status \in [Jobs -> Statuses], status' = [status EXCEPT ![j] = to]
    PROVE  \A k \in Jobs: k # j => Stage(k)' = Stage(k)
<1> SUFFICES ASSUME NEW k \in Jobs, k # j PROVE Stage(k)' = Stage(k)
  OBVIOUS
<1>1. ~Owns(d, k) /\ ~Owns(d, k)'
  BY DEF Owns
<1>2. Owned(k)' = Owned(k)
  BY <1>1, OwnedFrame
<1>3. status'[k] = status[k]
  OBVIOUS
<1> QED
  BY <1>2, <1>3 DEF Stage

LEMMA ClaimMaps ==
    ASSUME TypeInv, OwnInv, NEW d \in Daemons, Claim(d)
    PROVE  Ledger!Next \/ UNCHANGED Ledger!ledgerVars
<1> DEFINE j == job[d]
<1>0. /\ j \in Jobs /\ pc[d] = "claim"
      /\ pc \in [Daemons -> Steps] /\ job \in [Daemons -> Jobs \cup {NoJob}]
      /\ status \in [Jobs -> Statuses]
  BY DEF TypeInv, TypeOK, JobInHand, JobSteps, Claim
<1>1. CASE Due(j, started[d])
  <2>1. /\ status[j] = "pending" /\ status' = [status EXCEPT ![j] = "running"]
        /\ pc' = [pc EXCEPT ![d] = "execute"] /\ UNCHANGED <<job, retries>>
    BY <1>1 DEF Claim, Due, Goto
  <2>2. Owned(j)'
    BY <1>0, <2>1 DEF Owned, Owns, OwnSteps
  <2>3. Stage(j) = "pending" /\ Stage(j)' = "taken"
    BY <1>0, <2>1, <2>2 DEF Stage
  <2>4. \A k \in Jobs: k # j => Stage(k)' = Stage(k)
    BY <1>0, <2>1, OthersKeepStage
  <2>5. Ledger!Take(j)
    BY <1>0, <2>1, <2>3, <2>4, MoveFromStages DEF Ledger!Take
  <2> QED
    BY <1>0, <2>5 DEF Ledger!Next
<1>2. CASE ~Due(j, started[d])
  <2>1. /\ pc' = [pc EXCEPT ![d] = "finish"] /\ job' = [job EXCEPT ![d] = NoJob]
        /\ UNCHANGED <<status, retries>>
    BY <1>2 DEF Claim, Goto
  <2>2. \A k \in Jobs: Owns(d, k)' = Owns(d, k)
    BY <1>0, <2>1 DEF Owns, OwnSteps
  <2> QED
    BY <1>0, <2>1, <2>2, QuietStep
<1> QED
  BY <1>1, <1>2

\* When the owner lets go of a job, nobody else owns it.
LEMMA LastOwner ==
    ASSUME OwnInv, NEW d \in Daemons, NEW j \in Jobs, Owns(d, j),
           \A e \in Daemons: e # d => pc'[e] = pc[e] /\ job'[e] = job[e],
           pc'[d] \notin OwnSteps
    PROVE  ~Owned(j)'
<1> SUFFICES ASSUME NEW e \in Daemons, Owns(e, j)' PROVE FALSE
  BY DEF Owned
<1>1. e # d
  BY DEF Owns
<1>2. Owns(e, j)
  BY <1>1 DEF Owns
<1> QED
  BY <1>1, <1>2 DEF OwnInv, SingleOwner

LEMMA MarkRetryableMaps ==
    ASSUME TypeInv, OwnInv, NEW d \in Daemons, MarkRetryable(d)
    PROVE  Ledger!PutBack(job[d]) /\ job[d] \in Jobs
<1> DEFINE j == job[d]
<1>0. /\ j \in Jobs /\ pc[d] = "markRetryable"
      /\ pc \in [Daemons -> Steps] /\ job \in [Daemons -> Jobs \cup {NoJob}]
      /\ status \in [Jobs -> Statuses]
  BY DEF TypeInv, TypeOK, JobInHand, JobSteps, MarkRetryable
<1>1. Owns(d, j) /\ Owned(j) /\ status[j] = "running"
  BY <1>0 DEF Owned, Owns, OwnSteps, OwnInv, OwnedIsRunning
<1>2. /\ status' = [status EXCEPT ![j] = "pending"]
      /\ retries' = [retries EXCEPT ![j] = @ + 1]
      /\ pc' = [pc EXCEPT ![d] = "readRetries"] /\ UNCHANGED job
  BY <1>1 DEF MarkRetryable, Goto
<1>3. Stage(j) = "taken" /\ Stage(j)' = "pending"
  BY <1>0, <1>1, <1>2 DEF Stage
<1>4. \A k \in Jobs: k # j => Stage(k)' = Stage(k)
  BY <1>0, <1>2, OthersKeepStage
<1> QED
  BY <1>0, <1>2, <1>3, <1>4, MoveFromStages DEF Ledger!PutBack

LEMMA MarkCompletedMaps ==
    ASSUME TypeInv, OwnInv, NEW d \in Daemons, MarkCompleted(d)
    PROVE  Ledger!Complete(job[d]) /\ job[d] \in Jobs
<1> DEFINE j == job[d]
<1>0. /\ j \in Jobs /\ pc[d] = "markCompleted"
      /\ pc \in [Daemons -> Steps] /\ job \in [Daemons -> Jobs \cup {NoJob}]
      /\ status \in [Jobs -> Statuses]
  BY DEF TypeInv, TypeOK, JobInHand, JobSteps, MarkCompleted
<1>1. Owns(d, j) /\ Owned(j) /\ status[j] = "running"
  BY <1>0 DEF Owned, Owns, OwnSteps, OwnInv, OwnedIsRunning
<1>2. /\ status' = [status EXCEPT ![j] = "completed"]
      /\ pc' = [pc EXCEPT ![d] = "finish"] /\ UNCHANGED <<job, retries>>
  BY DEF MarkCompleted, Goto
<1>3. Stage(j) = "taken" /\ Stage(j)' = "completed"
  BY <1>0, <1>1, <1>2 DEF Stage
<1>4. \A k \in Jobs: k # j => Stage(k)' = Stage(k)
  BY <1>0, <1>2, OthersKeepStage
<1> QED
  BY <1>0, <1>2, <1>3, <1>4, MoveFromStages DEF Ledger!Complete

\* A run that is cut short abandons the job it owned, if it owned one.
LEMMA CutShortMaps ==
    ASSUME TypeInv, OwnInv, NEW d \in Daemons,
           \A e \in Daemons: e # d => pc'[e] = pc[e] /\ job'[e] = job[e],
           pc'[d] \notin OwnSteps, UNCHANGED <<status, retries>>
    PROVE  Ledger!Next \/ UNCHANGED Ledger!ledgerVars
<1>1. CASE pc[d] \in OwnSteps
  <2>1. PICK j \in Jobs: j = job[d]
    BY <1>1 DEF TypeInv, JobInHand, JobSteps, OwnSteps
  <2>2. Owns(d, j) /\ Owned(j) /\ status[j] = "running"
    BY <1>1, <2>1 DEF Owned, Owns, OwnInv, OwnedIsRunning
  <2>3. ~Owned(j)'
    BY <2>1, <2>2, LastOwner
  <2>4. Stage(j) = "taken" /\ Stage(j)' = "abandoned"
    BY <2>2, <2>3 DEF Stage
  <2>5. ASSUME NEW k \in Jobs, k # j PROVE Stage(k)' = Stage(k)
    <3>1. ~Owns(d, k) /\ ~Owns(d, k)'
      BY <2>1, <2>5 DEF Owns
    <3>2. Owned(k)' = Owned(k)
      BY <3>1, OwnedFrame
    <3> QED
      BY <3>2 DEF Stage
  <2>6. Ledger!Abandon(j)
    BY <2>1, <2>4, <2>5, MoveFromStages DEF Ledger!Abandon
  <2> QED
    BY <2>1, <2>6 DEF Ledger!Next
<1>2. CASE pc[d] \notin OwnSteps
  <2>1. \A k \in Jobs: Owns(d, k)' = Owns(d, k)
    BY <1>2 DEF Owns
  <2> QED
    BY <2>1, QuietStep
<1> QED
  BY <1>1, <1>2

-----------------------------------------------------------------------------

LEMMA LedgerNext ==
    TypeInv /\ OwnInv /\ [Next]_vars => [Ledger!Next]_(Ledger!ledgerVars)
<1> SUFFICES ASSUME TypeInv, OwnInv, [Next]_vars
             PROVE  Ledger!Next \/ UNCHANGED Ledger!ledgerVars
  OBVIOUS
<1> DEFINE Mapped == Ledger!Next \/ UNCHANGED Ledger!ledgerVars
           Alone(d) == \A e \in Daemons: e # d => pc'[e] = pc[e] /\ job'[e] = job[e]
<1>0. pc \in [Daemons -> Steps] /\ job \in [Daemons -> Jobs \cup {NoJob}]
  BY DEF TypeInv, TypeOK
<1>1. ASSUME NEW j \in Jobs, NEW p \in Priorities, AddJob(j, p) PROVE Mapped
  BY <1>1, AddMaps DEF Ledger!Next
<1>2. ASSUME NEW d \in Daemons, Run(d) PROVE Mapped
  <2>1. ASSUME Begin(d) \/ CheckAge(d) \/ UnlinkStale(d) \/ Acquire(d) \/ Select(d)
                  \/ ReadRetries(d) \/ RecordFailed(d) \/ Finish(d) \/ Release(d)
        PROVE  Mapped
    <3>1. pc[d] \notin OwnSteps /\ pc'[d] \notin OwnSteps /\ Alone(d)
             /\ UNCHANGED <<status, retries>>
      BY <1>0, <2>1 DEF Begin, CheckAge, UnlinkStale, Acquire, Select, ReadRetries,
           RecordFailed, Finish, Release, OwnSteps, Goto, EndRun, tableVars
    <3>2. \A k \in Jobs: Owns(d, k)' = Owns(d, k)
      BY <3>1 DEF Owns
    <3> QED
      BY <3>1, <3>2, QuietStep
  <2>2. CASE Claim(d)
    BY <2>2, ClaimMaps
  <2>3. CASE Execute(d)
    <3>1. pc[d] \in OwnSteps /\ pc'[d] \in OwnSteps /\ Alone(d)
             /\ UNCHANGED <<job, status, retries>>
      BY <1>0, <2>3 DEF Execute, OwnSteps, Goto, tableVars
    <3>2. \A k \in Jobs: Owns(d, k)' = Owns(d, k)
      BY <3>1 DEF Owns
    <3> QED
      BY <3>1, <3>2, QuietStep
  <2>4. CASE MarkRetryable(d)
    BY <2>4, MarkRetryableMaps DEF Ledger!Next
  <2>5. CASE MarkCompleted(d)
    BY <2>5, MarkCompletedMaps DEF Ledger!Next
  <2> QED
    BY <1>2, <2>1, <2>2, <2>3, <2>4, <2>5 DEF Run
<1>3. ASSUME NEW d \in Daemons, Crash(d) \/ Abort(d) PROVE Mapped
  <2>1. Alone(d) /\ pc'[d] \notin OwnSteps /\ UNCHANGED <<status, retries>>
    BY <1>0, <1>3 DEF Crash, Abort, OwnSteps, Goto, EndRun, tableVars
  <2> QED
    BY <2>1, CutShortMaps
<1>4. CASE Tick \/ UNCHANGED vars
  <2>1. UNCHANGED <<pc, job, status, retries>>
    BY <1>4 DEF Tick, vars, runVars, tableVars
  <2>2. \A k \in Jobs: Stage(k)' = Stage(k)
    BY <2>1 DEF Stage, Owned, Owns
  <2> QED
    BY <2>1, <2>2, StutterFromStages
<1> QED
  BY <1>1, <1>2, <1>3, <1>4 DEF Next

\* Every behaviour of the daemon, with any number of processes, crashes and
\* stale-lock recoveries, is a behaviour of the ledger: a job is taken by one
\* run at a time, is final once completed, and is never resumed when the run
\* that took it is lost.
THEOREM LedgerImplemented == Spec => ImplementsLedger
<1>1. TypeInv /\ OwnInv /\ [Next]_vars => [Ledger!Next]_(Ledger!ledgerVars)
  BY LedgerNext
<1> QED
  BY <1>1, LedgerInit, TypeInit, TypeNext, OwnInit, OwnNext, PTL
     DEF Spec, ImplementsLedger, Ledger!Spec
=============================================================================
