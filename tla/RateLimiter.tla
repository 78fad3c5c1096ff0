----------------------------- MODULE RateLimiter -----------------------------
(***************************************************************************)
(* The token bucket of rediskit/ratelimit.go and rateLimitScript for one   *)
(* key.  A call reads the client's clock, then sends the script; the       *)
(* script is executed some time later, possibly twice (go-redis retries),  *)
(* and trusts the clock reading it is given.                               *)
(*                                                                         *)
(* Amounts are the script's millitokens times Per/1000: the capacity       *)
(* limit*1000 becomes Limit*Per, the refill rate capM/perMs becomes Limit  *)
(* per millisecond and n tokens cost n*Per, all exact integers.  The       *)
(* rounding of the script's floats is not modelled.                        *)
(***************************************************************************)
EXTENDS Integers

CONSTANTS
    Client,      \* callers, on hosts with clocks of their own
    Limit,       \* RateLimiter.limit
    Per,         \* RateLimiter.per in whole milliseconds, at least 1
    Ns,          \* numbers of tokens asked for
    Offsets,     \* how far a client's clock may be from Redis's, in milliseconds
    MaxDelay,    \* longest time a call takes: its timeouts and retries together
    MaxRetries,  \* options.maxRetries
    MaxTime,     \* bound: milliseconds
    MaxCalls     \* bound: calls of AllowN

Capacity == Limit * Per
Cost(n) == n * Per

\* Delay and clock spread stay below one period, so that a bucket Redis expired
\* (two periods after its last use) would have been full again.
ASSUME RateAssumption ==
    /\ Limit \in Nat /\ Per \in Nat \ {0} /\ Ns \subseteq Nat
    /\ Offsets \subseteq Int
    /\ MaxDelay \in Nat /\ MaxRetries \in Nat /\ MaxTime \in Nat /\ MaxCalls \in Nat
    /\ \A a, b \in Offsets : MaxDelay + a - b <= Per

VARIABLES
    now,         \* Redis's clock
    tokens,      \* field t of the bucket
    ts,          \* field ts of the bucket
    expireAt,    \* when the bucket expires; None before it exists
    pc,          \* per client: "idle", "sent" (script not answered) or "answered"
    stamp,       \* the clock reading the call sends
    readAt,      \* Redis's time when the clock was read
    asked,       \* tokens asked for
    tries,       \* retries of the call
    answer,      \* the script's answer, 1 or 0
    \* history
    calls,       \* calls made
    admitted,    \* total cost admitted
    start,       \* clock reading the first bucket was made with
    regress,     \* how far ts was moved backwards, in all
    taken        \* per client: what the executions of its call took

bucket == <<tokens, ts, expireAt>>
call == <<pc, stamp, readAt, asked, tries, answer>>
counted == <<admitted, start, regress>>
vars == <<now, bucket, call, calls, counted, taken>>

None == -1
Lesser(a, b) == IF a < b THEN a ELSE b

Init ==
    /\ now = 0
    /\ tokens = 0 /\ ts = 0 /\ expireAt = None
    /\ pc = [c \in Client |-> "idle"]
    /\ stamp = [c \in Client |-> 0] /\ readAt = [c \in Client |-> 0]
    /\ asked = [c \in Client |-> 0] /\ tries = [c \in Client |-> 0]
    /\ answer = [c \in Client |-> 0]
    /\ calls = 0
    /\ admitted = 0 /\ start = 0 /\ regress = 0
    /\ taken = [c \in Client |-> 0]

\* Allow and AllowN: the clock is read once, before anything is sent.
AllowN(c) ==
    /\ pc[c] = "idle" /\ calls < MaxCalls
    /\ calls' = calls + 1
    /\ \E o \in Offsets, n \in Ns :
          stamp' = [stamp EXCEPT ![c] = now + o] /\ asked' = [asked EXCEPT ![c] = n]
    /\ readAt' = [readAt EXCEPT ![c] = now]
    /\ pc' = [pc EXCEPT ![c] = "sent"]
    /\ UNCHANGED <<now, bucket, tries, answer, counted, taken>>

-----------------------------------------------------------------------------
(* rateLimitScript.  X_Y is a faulty variant of X that no action uses.         *)

\* The key exists until its PEXPIRE.
Alive == expireAt # None /\ now <= expireAt

\* The refill without the cap.
Filled_NoCap(s) ==
    IF Alive THEN tokens + Limit * (IF s > ts THEN s - ts ELSE 0) ELSE Capacity

\* A bucket that exists is not refilled.
Filled_NoRefill(s) == IF Alive THEN tokens ELSE Capacity

\* Tokens in the bucket refilled up to the clock reading s.
Filled(s) ==
    IF Alive THEN Lesser(tokens + Limit * (IF s > ts THEN s - ts ELSE 0), Capacity)
    ELSE Capacity

\* HSET ts now, also when now is behind ts.
Stamped(s) == s

\* PEXPIRE with one millisecond.
Expiry_TooShort == now + 1

\* PEXPIRE ttlMs = perMs * 2.
Expiry == now + 2 * Per

\* The server executes the script of c's call.
Serve(c) ==
    /\ pc[c] = "sent"
    /\ LET filled == Filled(stamp[c])
           ok == filled >= Cost(asked[c])
           charge == IF ok THEN Cost(asked[c]) ELSE 0
       IN  /\ tokens' = filled - charge
           /\ answer' = [answer EXCEPT ![c] = IF ok THEN 1 ELSE 0]
           /\ taken' = [taken EXCEPT ![c] = @ + charge]
           /\ admitted' = admitted + charge
    /\ ts' = Stamped(stamp[c])
    /\ expireAt' = Expiry
    /\ start' = IF expireAt = None THEN stamp[c] ELSE start
    /\ regress' = regress + (IF Alive /\ stamp[c] < ts THEN ts - stamp[c] ELSE 0)
    /\ pc' = [pc EXCEPT ![c] = "answered"]
    /\ UNCHANGED <<now, stamp, readAt, asked, tries, calls>>

-----------------------------------------------------------------------------
\* The answer is lost, or the attempt is, and go-redis sends the same arguments.
Retry(c) ==
    /\ pc[c] # "idle" /\ tries[c] < MaxRetries
    /\ tries' = [tries EXCEPT ![c] = @ + 1]
    /\ pc' = [pc EXCEPT ![c] = "sent"]
    /\ UNCHANGED <<now, bucket, stamp, readAt, asked, answer, calls, counted, taken>>

\* The call returns what it was told: nil or ErrRateLimited when it was answered 1 or 0, and
\* MapError's sentinel when it was not.  The three have one step: the outcome is in answer
\* until then, and nothing is done with it afterwards.  (A caller that gave up while its last
\* attempt is on its way is a call still "sent".)
Return(c) ==
    /\ pc[c] # "idle"
    /\ pc' = [pc EXCEPT ![c] = "idle"]
    /\ stamp' = [stamp EXCEPT ![c] = 0] /\ readAt' = [readAt EXCEPT ![c] = 0]
    /\ asked' = [asked EXCEPT ![c] = 0] /\ tries' = [tries EXCEPT ![c] = 0]
    /\ answer' = [answer EXCEPT ![c] = 0] /\ taken' = [taken EXCEPT ![c] = 0]
    /\ UNCHANGED <<now, bucket, calls, counted>>

\* Time passes; no call takes longer than MaxDelay.
Tick ==
    /\ now < MaxTime
    /\ \A c \in Client : pc[c] # "idle" => now < readAt[c] + MaxDelay
    /\ now' = now + 1
    /\ UNCHANGED <<bucket, call, calls, counted, taken>>

Next == Tick \/ \E c \in Client : AllowN(c) \/ Serve(c) \/ Retry(c) \/ Return(c)

Spec == Init /\ [][Next]_vars

-----------------------------------------------------------------------------
(* Properties. *)

\* The types of the bucket, the calls and the history; the bucket holds between
\* nothing and its capacity.
TypeOK ==
    /\ now \in Nat /\ tokens \in 0..Capacity /\ ts \in Int /\ expireAt \in Nat \cup {None}
    /\ pc \in [Client -> {"idle", "sent", "answered"}]
    /\ stamp \in [Client -> Int] /\ readAt \in [Client -> Nat]
    /\ asked \in [Client -> Nat]
    /\ tries \in [Client -> 0..MaxRetries] /\ answer \in [Client -> {0, 1}]
    /\ calls \in 0..MaxCalls
    /\ admitted \in Nat /\ start \in Int /\ regress \in Nat
    /\ taken \in [Client -> Nat]

\* "Refills limit tokens every per, capacity = limit" (ratelimit.go 8-9): what was
\* admitted since the first clock reading never exceeds the capacity plus what
\* the elapsed time refills.
RateBound == admitted <= Capacity + Limit * (now - start)

\* What holds whatever the clocks and the order of arrival: every millisecond by
\* which ts is moved backwards (script.go 57-60, 72) may be refilled once more,
\* and nothing else is, neither by the expiry of the bucket nor by retries.
RateBoundUpToRegress ==
    expireAt # None =>
        admitted + tokens <= Capacity + Limit * (ts - start + regress)

\* A call is given all the tokens it asks for or none (ratelimit.go 29), so one that is told
\* ErrRateLimited took nothing.  A retry hides what an attempt took whose answer was lost.
DeniedTookNothing ==
    \A c \in Client : pc[c] = "answered" /\ answer[c] = 0 => taken[c] = 0

=============================================================================
