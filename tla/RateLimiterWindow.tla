-------------------------- MODULE RateLimiterWindow --------------------------
(* RateLimiter with a record of what was admitted when, by clock reading. *)
EXTENDS RateLimiter, Functions

VARIABLES
    spentAt,     \* per clock reading: the cost admitted under it
    denied       \* the last execution if it was refused: [at, cost], or cost 0

windowVars == <<vars, spentAt, denied>>

Readings == {t + o : t \in 0..MaxTime, o \in Offsets}
NotDenied == [at |-> 0, cost |-> 0]

WindowInit == Init /\ spentAt = [s \in Readings |-> 0] /\ denied = NotDenied

\* What Serve(c) is about to do, recorded.
Record(c) ==
    LET cost == Cost(asked[c])
    IN  IF answer'[c] = 1
        THEN spentAt' = [spentAt EXCEPT ![stamp[c]] = @ + cost] /\ denied' = NotDenied
        ELSE denied' = [at |-> stamp[c], cost |-> cost] /\ UNCHANGED spentAt

WindowNext ==
    \/ \E c \in Client : Serve(c) /\ Record(c)
    \/ /\ Tick \/ \E c \in Client : AllowN(c) \/ Retry(c) \/ Return(c)
       /\ UNCHANGED <<spentAt, denied>>

WindowSpec == WindowInit /\ [][WindowNext]_windowVars

\* Cost admitted with clock readings in the period that ends at t, or after t by a
\* client whose clock or call was faster.
Admitted(t) == SumFunctionOnSet(spentAt, {s \in Readings : s > t - Per})

\* ErrRateLimited is answered only when what was admitted since a period before
\* the call's clock reading, with this call, exceeds the limit (ratelimit.go 8-9,
\* 24): nobody is refused too early, whatever the clocks, the order of arrival,
\* the expiry of the bucket and the retries.
DenialJustified ==
    denied.cost > 0 => Admitted(denied.at) + denied.cost > Capacity

=============================================================================
