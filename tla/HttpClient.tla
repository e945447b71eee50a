----------------------------- MODULE HttpClient ------------------------------
(***************************************************************************)
(* BookhoundHttpClient (http_client.py) as the sources of one process use   *)
(* it: one get() at a time, with a limit of the rate by key and retries of  *)
(* transient statuses.  A module that makes requests extends this one and   *)
(* says, for each of them, what its answer leads to.                        *)
(*                                                                          *)
(* Times are relative, in ticks: the client only compares the time since    *)
(* the last request of a key with the interval, so nothing longer than the  *)
(* interval is told apart from it.  The cache is left out: nothing in the   *)
(* program asks for it.                                                     *)
(***************************************************************************)
EXTENDS Integers, FiniteSets

CONSTANTS
    RateKeys,           \* the rate_limit_key of the requests
    Interval,           \* 1 / rate_limit_per_second; 0 if there is no limit
    MaxRetries,         \* max_retries of the configuration
    Backoff,            \* retry_backoff_seconds
    MaxLatency          \* bound: the longest a request takes, its timeout

ASSUME HttpClientAssumption ==
    /\ Interval \in Nat
    /\ MaxRetries \in Nat
    /\ Backoff \in Nat
    /\ MaxLatency \in Nat

VARIABLES
    elapsed,            \* by key: the time since _last_request_at_by_key says
    silence,            \* history: the time since the transport had a request of the key
    attempt,            \* of the get() under way; 0 if there is none
    phase,              \* before the rate limit, before the transport, or waiting for it
    key                 \* its rate_limit_key

httpVars == <<elapsed, silence, attempt, phase, key>>

Times == [RateKeys -> 0 .. Interval]

HttpTypeOK ==
    /\ elapsed \in Times
    /\ silence \in Times
    /\ attempt \in 0 .. MaxRetries + 1
    /\ phase \in {"limit", "send", "wait"}
    /\ key \in RateKeys

\* no request yet counts as one long ago
HttpInit ==
    /\ elapsed = [k \in RateKeys |-> Interval]
    /\ silence = [k \in RateKeys |-> Interval]
    /\ attempt = 0
    /\ phase = "limit"
    /\ key \in RateKeys

-----------------------------------------------------------------------------

Idle == attempt = 0
Later(times, t) ==
    [k \in RateKeys |-> IF times[k] + t < Interval THEN times[k] + t ELSE Interval]
Pass(t) == elapsed' = Later(elapsed, t) /\ silence' = Later(silence, t)

\* the stamp is the time before the sleep: now = clock() is not read again
StampBeforeSleep(wait) ==
    /\ silence' = Later(silence, wait)
    /\ elapsed' = [Later(elapsed, wait) EXCEPT
                      ![key] = IF wait < Interval THEN wait ELSE Interval]

\* the last attempt is retried too
RetryOneMore ==
    /\ ~Idle /\ phase = "wait" /\ attempt <= MaxRetries + 1
    /\ \E latency \in 0 .. MaxLatency: Pass(latency + Backoff)
    /\ attempt' = attempt + 1
    /\ phase' = "limit"
    /\ UNCHANGED key

\* a retry that does not count its attempts
RetryUncounted ==
    /\ ~Idle /\ phase = "wait" /\ attempt <= MaxRetries
    /\ \E latency \in 0 .. MaxLatency: Pass(latency + Backoff)
    /\ phase' = "limit"
    /\ UNCHANGED <<attempt, key>>

\* sleep what is left of the interval, and take the time of the request
Stamp(wait) ==
    /\ silence' = Later(silence, wait)
    /\ elapsed' = [Later(elapsed, wait) EXCEPT ![key] = 0]

\* get(): the first attempt of a request
Get(k) ==
    /\ Idle
    /\ attempt' = 1
    /\ phase' = "limit"
    /\ key' = k
    /\ UNCHANGED <<elapsed, silence>>

\* _apply_rate_limit
ApplyRateLimit ==
    /\ ~Idle /\ phase = "limit"
    /\ Stamp(Interval - elapsed[key])
    /\ phase' = "send"
    /\ UNCHANGED <<attempt, key>>

\* transport.request
Send ==
    /\ ~Idle /\ phase = "send"
    /\ silence' = [silence EXCEPT ![key] = 0]
    /\ phase' = "wait"
    /\ UNCHANGED <<elapsed, attempt, key>>

\* a transient status with attempts left: sleep and try again
Retry ==
    /\ ~Idle /\ phase = "wait" /\ attempt <= MaxRetries
    /\ \E latency \in 0 .. MaxLatency: Pass(latency + Backoff)
    /\ attempt' = attempt + 1
    /\ phase' = "limit"
    /\ UNCHANGED key

\* get() ends: with a response, after the last attempt whatever its status, or with an
\* exception, which a timeout raises at its first attempt
Return ==
    /\ ~Idle /\ phase = "wait"
    /\ \E latency \in 0 .. MaxLatency: Pass(latency)
    /\ attempt' = 0
    /\ phase' = "limit"
    /\ UNCHANGED key

HttpStep == ApplyRateLimit \/ Send \/ Retry

-----------------------------------------------------------------------------
(* Properties                                                               *)

\* Two requests of one key are at least an interval apart when they reach the
\* transport, whatever lies between them: an answer that takes long, the sleep of a
\* retry, requests of other keys, another search of the same process.
RequestsSpaced ==
    [][\A k \in RateKeys:
          (phase = "send" /\ phase' = "wait" /\ key = k) => silence[k] = Interval]_httpVars
=============================================================================
