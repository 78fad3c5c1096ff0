------------------------------ MODULE Watchdog ------------------------------
(***************************************************************************)
(* Lab 05: goroutines that spin for one lock (spinAcquire), keep it alive  *)
(* with a watchdog (startWatchdog) and, while they hold it, read, add one  *)
(* and write back a counter with separate commands (demoMutex100).  The    *)
(* lock is SET NX PX; Release and Refresh compare the token (lock.go).     *)
(*                                                                         *)
(* Time counts, because the watchdog is about time.  A watchdog step that  *)
(* waits for more than MaxDelay, in the scheduler or on the network, is    *)
(* possible, and excuses the process (excused), as does an error of        *)
(* Refresh, after which the watchdog stops without a word.                 *)
(*                                                                         *)
(* go-redis may give up an attempt that the server executes later, after   *)
(* the retry and after what the goroutine did next (Abandon, ServeLate).   *)
(***************************************************************************)
EXTENDS Naturals, FiniteSets

CONSTANTS G,            \* the goroutines
          TTL,          \* ttl of the lock, in ticks of the model
          MaxDelay,     \* the watchdog's usual delay, in ticks
          MaxStrays     \* bound on attempts that are given up

ASSUME TTLAssumption == TTL \in Nat /\ TTL >= 3
ASSUME DelayAssumption ==
    MaxDelay \in Nat /\ MaxDelay < TTL \div 3 /\ 2 * MaxDelay + TTL \div 3 < TTL
ASSUME StraysAssumption == MaxStrays \in Nat
ASSUME TokensAssumption == {"free", "orphan"} \cap G = {}

VARIABLES lockKey,   \* whose token the key holds, "free", or "orphan": a
                     \* token no goroutine remembers
          left,      \* what is left of its ttl
          pc,        \* where each goroutine is
          cur,       \* what it read from the counter
          counter,   \* the key app:counter
          dog,       \* its watchdog, and the ticks since it came there
          lapsed,    \* goroutines whose lock expired while they worked
          excused,   \* goroutines whose watchdog failed, or was delayed
          misread,   \* a read of the counter failed: the code takes 0
          wrote,     \* goroutines whose SET of the counter was executed
          overrun,   \* a SET was executed late, after somebody had read
          astray,    \* attempts that were given up and may still be executed
          behind,    \* those of them, of a SET, after which somebody read
          strays     \* how many were given up so far
account == <<counter, wrote, overrun>>
network == <<astray, behind, strays>>
watchdogVars ==
    <<lockKey, left, pc, cur, account, dog, lapsed, excused, misread, network>>
work == <<pc, cur, account, misread>>

Period == TTL \div 3
AtWork == {p \in G : pc[p] \in {"read", "write"}}
Dog(st, t) == [at |-> st, t |-> t]
\* The n-th attempt given up: a command of p, and the value that a SET writes.
Attempt(c, p, v, n) == [op |-> c, by |-> p, val |-> v, n |-> n]
Attempts ==
    [op : {"setnx", "set", "release", "refresh"}, by : G, val : Nat, n : 1..MaxStrays]

WatchdogInit ==
    /\ lockKey = "free" /\ left = 0
    /\ pc = [p \in G |-> "spin"] /\ cur = [p \in G |-> 0]
    /\ counter = 0 /\ wrote = {} /\ misread = FALSE /\ overrun = FALSE
    /\ dog = [p \in G |-> Dog("off", 0)]
    /\ lapsed = {} /\ excused = {} /\ astray = {} /\ behind = {} /\ strays = 0

Acquire_NoNX(p) ==
    /\ pc[p] = "spin" /\ left' = TTL /\ lockKey' = p
    /\ pc' = [pc EXCEPT ![p] = "read"]
    /\ dog' = [dog EXCEPT ![p] = Dog("starting", 0)]
    /\ UNCHANGED <<cur, account, lapsed, excused, misread, network>>

Acquire_NoTTL(p) ==
    /\ pc[p] = "spin" /\ lockKey = "free" /\ left' = 0 /\ lockKey' = p
    /\ pc' = [pc EXCEPT ![p] = "read"]
    /\ dog' = [dog EXCEPT ![p] = Dog("starting", 0)]
    /\ UNCHANGED <<cur, account, lapsed, excused, misread, network>>

\* Acquire finds the key free, and its answer arrives.
Acquire(p) ==
    /\ pc[p] = "spin" /\ lockKey = "free" /\ left' = TTL /\ lockKey' = p
    /\ pc' = [pc EXCEPT ![p] = "read"]
    /\ dog' = [dog EXCEPT ![p] = Dog("starting", 0)]
    /\ UNCHANGED <<cur, account, lapsed, excused, misread, network>>

\* An error, or a ctx that ends: the goroutine returns without the lock.
GiveUp(p) ==
    /\ pc[p] = "spin" /\ pc' = [pc EXCEPT ![p] = "done"]
    /\ UNCHANGED <<lockKey, left, cur, account, dog, lapsed, excused, misread, network>>

\* The goroutine of the watchdog runs and makes its ticker.
StartTicker(p) ==
    /\ dog[p].at = "starting" /\ dog' = [dog EXCEPT ![p] = Dog("ticking", 0)]
    /\ UNCHANGED <<work, lockKey, left, lapsed, excused, network>>

\* GET app:counter; an error is dropped and leaves 0.
ReadCounter(p) ==
    /\ pc[p] = "read" /\ pc' = [pc EXCEPT ![p] = "write"]
    /\ behind' = {m \in astray : m.op = "set"}
    /\ \/ cur' = [cur EXCEPT ![p] = counter] /\ UNCHANGED misread
       \/ cur' = [cur EXCEPT ![p] = 0] /\ misread' = TRUE
    /\ UNCHANGED <<lockKey, left, account, dog, lapsed, excused, astray, strays>>

\* The server executes p's SET app:counter.
SetCounter(p, v) == counter' = v /\ wrote' = wrote \cup {p}

\* SET app:counter returns; an error is dropped.  Then close(stop).
WriteCounter(p) ==
    /\ pc[p] = "write" /\ pc' = [pc EXCEPT ![p] = "release"]
    /\ SetCounter(p, cur[p] + 1) \/ UNCHANGED <<counter, wrote>>
    /\ cur' = [cur EXCEPT ![p] = 0]
    /\ UNCHANGED <<lockKey, left, overrun, dog, lapsed, excused, misread, network>>

\* The scripts of lock.go: the key is deleted, or its ttl set, only when it holds the token.
Delete(p) ==
    \/ lockKey = p /\ lockKey' = "free" /\ left' = 0
    \/ lockKey # p /\ UNCHANGED <<lockKey, left>>
Extend(p) ==
    /\ left' = IF lockKey = p THEN TTL ELSE left
    /\ UNCHANGED lockKey

\* The Release returns; an error is only logged.
Release(p) ==
    /\ pc[p] = "release" /\ pc' = [pc EXCEPT ![p] = "done"]
    /\ Delete(p) \/ UNCHANGED <<lockKey, left>>
    /\ UNCHANGED <<cur, account, dog, lapsed, excused, misread, network>>

Refresh_Once(p) ==
    /\ dog[p].at = "due"
    /\ left' = IF lockKey = p THEN TTL ELSE left
    /\ dog' = [dog EXCEPT ![p] = Dog("off", 0)]
    /\ UNCHANGED <<work, lockKey, lapsed, excused, network>>

\* A tick of the ticker is due: Refresh.  The ticker goes on when the key holds the token;
\* otherwise the watchdog ends.
Refresh(p) ==
    /\ dog[p].at = "due" /\ Extend(p)
    /\ dog' = [dog EXCEPT ![p] = IF lockKey = p THEN [@ EXCEPT !.at = "ticking"] ELSE Dog("off", 0)]
    /\ UNCHANGED <<work, lapsed, excused, network>>

\* Refresh fails, executed or not: the watchdog ends, the work goes on.
RefreshFails(p) ==
    /\ dog[p].at = "due" /\ dog' = [dog EXCEPT ![p] = Dog("off", 0)]
    /\ Extend(p) \/ UNCHANGED <<lockKey, left>>
    /\ excused' = excused \cup {p}
    /\ UNCHANGED <<work, lapsed, network>>

WatchdogStops_Never(p) == FALSE /\ UNCHANGED watchdogVars

\* The watchdog sees that stop is closed.  When a tick is due as well, select
\* takes either: a Refresh may follow the Release.
WatchdogStops(p) ==
    /\ pc[p] \in {"release", "done"} /\ dog[p].at # "off"
    /\ dog' = [dog EXCEPT ![p] = Dog("off", 0)]
    /\ UNCHANGED <<work, lockKey, left, lapsed, excused, network>>

\* The command p, or its watchdog, waits for.
Sent(p) ==
    (CASE pc[p] = "spin" -> {"setnx"} [] pc[p] = "write" -> {"set"}
       [] pc[p] = "release" -> {"release"} [] OTHER -> {})
    \cup (IF dog[p].at = "due" THEN {"refresh"} ELSE {})

\* go-redis gives up an attempt that may still reach the server; the call goes on with the
\* next attempt, or fails.
Abandon(p) ==
    /\ strays < MaxStrays /\ strays' = strays + 1
    /\ \E c \in Sent(p) :
          astray' = astray \cup {Attempt(c, p, IF c = "set" THEN cur[p] + 1 ELSE 0, strays')}
    /\ UNCHANGED <<work, lockKey, left, dog, lapsed, excused, behind>>

\* A SETNX executed late.  The key gets p's token when p obtained the lock by the retry, and
\* otherwise one that nobody remembers: also when p waits, since its retry finds the key taken.
LateSetNX(p) ==
    \/ /\ lockKey = "free" /\ left' = TTL
       /\ lockKey' \in {"orphan"} \cup (IF pc[p] = "spin" THEN {} ELSE {p})
    \/ lockKey # "free" /\ UNCHANGED <<lockKey, left>>

\* The server executes an attempt nobody waits for.
ServeLate(m) ==
    /\ m \in astray /\ astray' = astray \ {m} /\ behind' = behind \ {m}
    /\ overrun' = (overrun \/ m \in behind)
    /\ \/ m.op = "setnx" /\ LateSetNX(m.by) /\ UNCHANGED <<counter, wrote>>
       \/ m.op = "set" /\ SetCounter(m.by, m.val) /\ UNCHANGED <<lockKey, left>>
       \/ m.op = "release" /\ Delete(m.by) /\ UNCHANGED <<counter, wrote>>
       \/ m.op = "refresh" /\ Extend(m.by) /\ UNCHANGED <<counter, wrote>>
    /\ UNCHANGED <<pc, cur, dog, lapsed, excused, misread, strays>>

\* One tick for a watchdog; a ticker keeps one tick for a slow receiver.
Aged(d) ==
    CASE d.at = "off" -> d
      [] d.at = "ticking" -> IF d.t + 1 >= Period THEN Dog("due", 0) ELSE Dog("ticking", d.t + 1)
      [] OTHER -> [d EXCEPT !.t = IF d.t >= MaxDelay THEN d.t ELSE d.t + 1]

\* Redis's clock, and everybody's.
Tick ==
    /\ left > 0 \/ \E p \in G : dog[p].at # "off"
    /\ dog' = [p \in G |-> Aged(dog[p])]
    /\ excused' = excused \cup
          {p \in G : dog[p].at \in {"starting", "due"} /\ dog[p].t >= MaxDelay}
    /\ left' = IF left = 0 THEN 0 ELSE left - 1
    /\ lockKey' = IF left <= 1 THEN "free" ELSE lockKey
    /\ lapsed' = lapsed \cup (IF left = 1 THEN {lockKey} \cap AtWork ELSE {})
    /\ UNCHANGED <<work, network>>

Step(p) ==
    \/ Acquire(p) \/ GiveUp(p) \/ StartTicker(p) \/ ReadCounter(p) \/ WriteCounter(p)
    \/ Release(p) \/ Refresh(p) \/ RefreshFails(p) \/ WatchdogStops(p)
    \/ Abandon(p)
WatchdogNext == Tick \/ (\E p \in G : Step(p)) \/ (\E m \in astray : ServeLate(m))

\* Time passes, and a goroutine that can go on does: one that spins and finds the key free,
\* one at work, and a watchdog that sees a closed channel.
Advances(p) == Acquire(p) \/ ReadCounter(p) \/ WriteCounter(p) \/ Release(p) \/ WatchdogStops(p)
WatchdogFairness ==
    /\ WF_watchdogVars(Tick)
    /\ WF_watchdogVars(\E p \in G : Advances(p))

WatchdogSpec == WatchdogInit /\ [][WatchdogNext]_watchdogVars /\ WatchdogFairness

WatchdogTypeOK ==
    /\ lockKey \in G \cup {"free", "orphan"} /\ left \in 0..TTL
    /\ (lockKey = "free") = (left = 0)
    /\ pc \in [G -> {"spin", "read", "write", "release", "done"}]
    /\ cur \in [G -> Nat] /\ counter \in Nat /\ wrote \subseteq G
    /\ misread \in BOOLEAN /\ overrun \in BOOLEAN
    /\ dog \in [G -> [at : {"off", "starting", "ticking", "due"}, t : 0..TTL]]
    /\ lapsed \subseteq G /\ excused \subseteq G
    /\ strays \in 0..MaxStrays /\ astray \subseteq Attempts /\ behind \subseteq astray

\* The watchdog keeps the lock for as long as the work takes: it expires under a
\* goroutine at work only after a Refresh failed or the watchdog waited for more
\* than MaxDelay (main.go 152-171: Refresh every ttl/3).
LapseOnlyExcused == lapsed \subseteq excused

\* The counter is the number of goroutines whose SET was executed, as demoMutex100 tests
\* (main.go 88-90), though a SET is sent again, or executed late.  What loses an update is a
\* lock that lapsed, a read that failed, and a SET of a goroutine executed after the next one
\* had read (main.go 117-119 drop both errors, and the SET carries no fence).
NoLostUpdate == lapsed = {} /\ ~misread /\ ~overrun => counter = Cardinality(wrote)

\* What the comment on demoMutex100 claims of a lock that excludes: when all have written
\* the counter is exactly their number (main.go 88-89).
CounterExact ==
    wrote = G /\ lapsed = {} /\ ~misread /\ (\A p \in G : pc[p] = "done")
        => counter = Cardinality(G)

\* Every goroutine ends: a Release that failed, a Refresh after the Release, the token of
\* an answer that was lost and a SETNX executed late hold the others up for a ttl at most.
EveryGoroutineEnds == <>(\A p \in G : pc[p] = "done")

=============================================================================
