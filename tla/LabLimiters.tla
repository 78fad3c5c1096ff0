---------------------------- MODULE LabLimiters ----------------------------
(***************************************************************************)
(* Labs 01 and 06: five limiters of one key, each an atomic script.  The   *)
(* fixed window counts on Redis's clock; the sliding window, the two token *)
(* buckets, which keep their key for an hour (labs/06) or until it would   *)
(* be full (labs/01), and the leaky bucket are given the caller's reading, *)
(* which is older than the execution by up to Lag: the way to Redis, or a  *)
(* clock that runs behind.  So readings arrive in any order.               *)
(*                                                                         *)
(* A behaviour runs one of the five (algo).  An execution whose answer was *)
(* lost counts as admitted.                                                *)
(***************************************************************************)
EXTENDS Integers, FiniteSets, Sequences

CONSTANTS Limit,      \* limit, or capacity of the bucket
          Window,     \* length of a window, in ticks
          Rate,       \* refill, or leak, per tick
          Idle,       \* ttl of a bucket, in ticks
          Lag, MaxTime

ASSUME WindowAssumption ==
    /\ Limit \in Nat \ {0} /\ Window \in Nat \ {0} /\ Rate \in Nat \ {0}
    /\ Idle \in Nat /\ Lag \in Nat /\ MaxTime \in Nat
ASSUME IdleAssumption == Rate * (Idle - Lag) >= Limit

VARIABLES algo,
          clock,     \* Redis's clock
          ends,      \* when the key expires; 0 when there is none
          level,     \* the counter, tokens or water
          stamp,     \* the reading a bucket stored
          admitted,  \* execution time and reading of each request let through
          members    \* the sorted set: the requests it holds, as indices of admitted;
                     \* the score of one is its reading
limiterVars == <<algo, clock, ends, level, stamp, admitted, members>>

Algorithms == {"fixed", "sliding", "token", "brief", "leaky"}

LimiterInit ==
    /\ algo \in Algorithms
    /\ clock = Lag /\ ends = 0 /\ level = 0 /\ stamp = 0 /\ admitted = <<>> /\ members = {}

AtLeast(a, b) == IF a >= b THEN a ELSE b
AtMost(a, b) == IF a <= b THEN a ELSE b
NoKey == ends = 0

Answer(yes, now) ==
    admitted' = IF yes THEN Append(admitted, [at |-> clock, read |-> now]) ELSE admitted

\* INCR, and EXPIRE on the first: the script of labs/01, whose caller compares.
CountUp ==
    /\ level' = level + 1
    /\ ends' = IF NoKey THEN clock + Window ELSE ends

\* Counts past Limit + 1 are left out.
AllowFixed ==
    /\ algo = "fixed" /\ level <= Limit
    /\ CountUp
    /\ Answer(level + 1 <= Limit, clock)
    /\ UNCHANGED <<stamp, members>>

\* ZREMRANGEBYSCORE, ZCARD, ZADD, PEXPIRE; members are unique.  In both labs.
Slide(now) ==
    LET kept == {m \in members : admitted[m].read > now - Window}
        yes == Cardinality(kept) < Limit
    IN  /\ IF yes THEN members' = kept \cup {Len(admitted) + 1} /\ ends' = clock + Window
                  ELSE members' = kept /\ UNCHANGED ends
        /\ Answer(yes, now)
AllowSliding(now) == algo = "sliding" /\ Slide(now) /\ UNCHANGED <<level, stamp>>

TakeToken_Clamped(now, idle) ==
    LET elapsed == AtLeast(0, now - stamp)
        tokens == IF NoKey THEN Limit ELSE AtMost(Limit, level + elapsed * Rate)
    IN  /\ level' = IF tokens >= 1 THEN tokens - 1 ELSE tokens
        /\ stamp' = now /\ ends' = clock + idle
        /\ Answer(tokens >= 1, now)
        /\ UNCHANGED members

\* A full bucket at first; the refill is negative when a reading is behind the stored
\* one, which the scripts of the labs do not clamp.
TakeToken(now, idle) ==
    LET tokens == IF NoKey THEN Limit ELSE AtMost(Limit, level + (now - stamp) * Rate)
    IN  /\ level' = IF tokens >= 1 THEN tokens - 1 ELSE tokens
        /\ stamp' = now /\ ends' = clock + idle
        /\ Answer(tokens >= 1, now)
        /\ UNCHANGED members
AllowToken(now) == algo = "token" /\ TakeToken(now, Idle)

\* The bucket of labs/01 expires after ceil(capacity / rate), when it would be full.
BriefIdle == (Limit + Rate - 1) \div Rate
AllowBrief(now) == algo = "brief" /\ TakeToken(now, BriefIdle)

\* An empty bucket at first, and the same for the leak.
AllowLeaky(now) ==
    LET water == IF NoKey THEN 0 ELSE AtLeast(0, level - (now - stamp) * Rate)
    IN  /\ algo = "leaky"
        /\ level' = IF water + 1 <= Limit THEN water + 1 ELSE water
        /\ stamp' = now /\ ends' = clock + Idle
        /\ Answer(water + 1 <= Limit, now)
        /\ UNCHANGED members

\* Redis's clock, and the expiry of the key.
LimiterTick ==
    /\ clock < MaxTime /\ clock' = clock + 1
    /\ IF ends = clock + 1 THEN ends' = 0 /\ level' = 0 /\ members' = {}
                           ELSE UNCHANGED <<ends, level, members>>
    /\ UNCHANGED <<stamp, admitted>>

LimiterNext ==
    /\ \/ LimiterTick
       \/ /\ \/ AllowFixed
             \/ \E now \in (clock - Lag)..clock :
                   \/ AllowSliding(now) \/ AllowToken(now)
                   \/ AllowBrief(now) \/ AllowLeaky(now)
          /\ UNCHANGED clock
    /\ UNCHANGED algo

LimiterSpec == LimiterInit /\ [][LimiterNext]_limiterVars

LimiterTypeOK ==
    /\ algo \in Algorithms /\ clock \in Nat /\ ends \in Nat
    /\ level \in Int /\ (algo \in {"token", "brief"} => level <= Limit) /\ (algo = "leaky" => level >= 0)
    /\ stamp \in Int /\ admitted \in Seq([at : Nat, read : Int])
    /\ members \subseteq DOMAIN admitted /\ Cardinality(members) <= Limit

\* How many of the admitted were executed less than length after the i-th, it included.
Within(i, length) ==
    Cardinality({j \in i..Len(admitted) : admitted[j].at < admitted[i].at + length})

\* The fixed window lets a limit through on each side of its edge, never more.
FixedBound == \A i \in DOMAIN admitted : Within(i, Window) <= 2 * Limit

\* The sliding window keeps its limit in every window, shorter by the lag.
SlidingBound == \A i \in DOMAIN admitted : Within(i, Window - Lag) <= Limit

\* A bucket admits its capacity and what is refilled between the readings, in the order
\* of the executions: a reading that arrives late takes back what it refilled too early.
BucketBound ==
    \A i, j \in DOMAIN admitted :
        i <= j => j - i + 1 <= Limit + Rate * (admitted[j].read - admitted[i].read)

\* The bucket of labs/01 forgets Lag of what it owes whenever it may have expired: a
\* reading that is behind sees it full too early.
BriefBound ==
    \A i, j \in DOMAIN admitted :
        LET d == admitted[j].at - admitted[i].at
        IN  i <= j => j - i + 1 <= Limit + Rate * (d + Lag * (1 + d \div BriefIdle))

\* Each of the five limiters keeps its bound.
LimitsHold ==
    /\ algo = "fixed" => FixedBound
    /\ algo = "sliding" => SlidingBound
    /\ algo \in {"token", "leaky"} => BucketBound
    /\ algo = "brief" => BriefBound

=============================================================================
