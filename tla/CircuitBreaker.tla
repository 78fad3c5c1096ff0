--------------------------- MODULE CircuitBreaker ---------------------------
(***************************************************************************)
(* Lab 06: the breaker that several instances share in Redis               *)
(* (CircuitBreaker, cbFailScript).  Call asks whether the open key exists, *)
(* calls the downstream, and reports the outcome: three steps, between     *)
(* which the callers interleave.  Errors of Redis are dropped: an EXISTS   *)
(* that fails lets the call through, a report that fails is not made.      *)
(***************************************************************************)
EXTENDS Naturals, FiniteSets

CONSTANTS Caller,      \* calls in progress at the same time
          Threshold,   \* failures that open the breaker
          MaxSlips     \* bound on Redis errors and lost answers

ASSUME CallerAssumption == IsFiniteSet(Caller)
ASSUME ThresholdAssumption == Threshold \in Nat \ {0}
ASSUME SlipsAssumption == MaxSlips \in Nat

VARIABLES open,       \* the key cb:name:open exists
          failures,   \* the counter cb:name:failures; 0 when it does not exist
          call,       \* where each call is
          strikes,    \* failed downstream calls since the breaker last started over
          slips       \* Redis errors and lost answers so far
breakerVars == <<open, failures, call, strikes, slips>>

BreakerInit ==
    /\ open = FALSE /\ failures = 0 /\ strikes = 0 /\ slips = 0
    /\ call = [c \in Caller |-> "none"]

Goes(c, pc) == call' = [call EXCEPT ![c] = pc]

Allow_Always(c) ==
    /\ call[c] = "none" /\ Goes(c, "calling")
    /\ UNCHANGED <<open, failures, strikes, slips>>

\* allow: the call is let through when the open key does not exist; while it does,
\* Call answers the fallback and nothing changes.  An error counts as 0.
Allow(c) ==
    /\ call[c] = "none" /\ Goes(c, "calling")
    /\ \/ ~open /\ UNCHANGED slips
       \/ slips < MaxSlips /\ slips' = slips + 1
    /\ UNCHANGED <<open, failures, strikes>>

\* fn returns.
Downstream(c) ==
    /\ call[c] = "calling"
    /\ \/ Goes(c, "succeeded") /\ UNCHANGED strikes
       \/ Goes(c, "failed") /\ strikes' = strikes + 1
    /\ UNCHANGED <<open, failures, slips>>

\* onSuccess deletes the counter, also that of calls that failed meanwhile.
OnSuccess(c) ==
    /\ call[c] = "succeeded" /\ Goes(c, "none")
    /\ failures' = 0 /\ strikes' = 0
    /\ UNCHANGED <<open, slips>>

CountFailure_OneLate ==
    IF failures + 1 > Threshold THEN open' = TRUE /\ failures' = 0
                                ELSE failures' = failures + 1 /\ UNCHANGED open

\* cbFailScript, one atomic step.
CountFailure ==
    IF failures + 1 >= Threshold THEN open' = TRUE /\ failures' = 0
                                 ELSE failures' = failures + 1 /\ UNCHANGED open

\* onFailure.  A script whose answer is lost is run again.
OnFailure(c) ==
    /\ call[c] = "failed" /\ CountFailure
    /\ \/ Goes(c, "none") /\ UNCHANGED slips
       \/ slips < MaxSlips /\ slips' = slips + 1 /\ UNCHANGED call
    /\ UNCHANGED strikes

\* A report that fails is dropped.
ReportFails(c) ==
    /\ call[c] \in {"succeeded", "failed"} /\ Goes(c, "none")
    /\ slips < MaxSlips /\ slips' = slips + 1
    /\ UNCHANGED <<open, failures, strikes>>

\* The cooldown ends, or the window of the failures does: Redis drops the key.
OpenExpires ==
    open /\ open' = FALSE /\ strikes' = 0 /\ UNCHANGED <<failures, call, slips>>
FailuresExpire ==
    failures > 0 /\ failures' = 0 /\ strikes' = 0 /\ UNCHANGED <<open, call, slips>>

BreakerNext ==
    \/ OpenExpires \/ FailuresExpire
    \/ \E c \in Caller :
        Allow(c) \/ Downstream(c) \/ OnSuccess(c) \/ OnFailure(c) \/ ReportFails(c)

BreakerSpec == BreakerInit /\ [][BreakerNext]_breakerVars

BreakerTypeOK ==
    /\ open \in BOOLEAN /\ failures \in 0..(Threshold - 1) /\ strikes \in Nat
    /\ call \in [Caller -> {"none", "calling", "succeeded", "failed"}]
    /\ slips \in 0..MaxSlips

\* The breaker spares the downstream: since it last started over (a success, a
\* cooldown, a window that ended), at most Threshold - 1 failures and one more of
\* each call under way were possible, and one for each error of Redis.
DownstreamSpared == strikes <= Threshold - 1 + Cardinality(Caller) + slips

=============================================================================
