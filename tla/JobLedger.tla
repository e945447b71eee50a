----------------------------- MODULE JobLedger -----------------------------
(***************************************************************************)
(* What the daemon promises about the rows of crawl_jobs, whatever the      *)
(* number of processes that run `bookhound daemon run-once`: a job is       *)
(* worked on by one process at a time, a failed attempt puts it back with   *)
(* one more retry, a finished job is never taken again, and an attempt that *)
(* is cut short leaves the job abandoned: no later run picks it up.         *)
(***************************************************************************)
EXTENDS Integers

CONSTANT Jobs           \* the identifiers the table may hand out

VARIABLES
    stage,              \* stage[j]: where job j is in its life
    retries             \* retries[j]: how many attempts at j were put back

ledgerVars == <<stage, retries>>

Stages == {"absent", "pending", "taken", "abandoned", "completed"}

LedgerTypeOK ==
    /\ stage \in [Jobs -> Stages]
    /\ retries \in [Jobs -> Nat]

Init ==
    /\ stage = [j \in Jobs |-> "absent"]
    /\ retries = [j \in Jobs |-> 0]

Move(j, from, to) ==
    /\ stage[j] = from
    /\ stage' = [stage EXCEPT ![j] = to]

\* `bookhound job add` stores a pending job
Add(j) == Move(j, "absent", "pending") /\ UNCHANGED retries

\* one process, and only one, moves the job from pending to running
Take(j) == Move(j, "pending", "taken") /\ UNCHANGED retries

\* the attempt raised: the job is put back and the retry counted
PutBack(j) ==
    /\ Move(j, "taken", "pending")
    /\ retries' = [retries EXCEPT ![j] = @ + 1]

Complete(j) == Move(j, "taken", "completed") /\ UNCHANGED retries

\* the process died, or could not record the outcome
Abandon(j) == Move(j, "taken", "abandoned") /\ UNCHANGED retries

Next == \E j \in Jobs:
    Add(j) \/ Take(j) \/ PutBack(j) \/ Complete(j) \/ Abandon(j)

Spec == Init /\ [][Next]_ledgerVars
=============================================================================
