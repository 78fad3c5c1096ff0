-------------------------------- MODULE Cache --------------------------------
(***************************************************************************)
(* Cache-aside of rediskit/cache.go for one key: GetOrLoad with its        *)
(* singleflight group, on several hosts (each process has a group of its   *)
(* own), over one Redis and one database that writers change.  A writer    *)
(* changes the database and then calls Delete or Set (docs/09 78-80).      *)
(*                                                                         *)
(* A value is the version of the database it was read from.  GET, SET and  *)
(* DEL are idempotent, so how often go-redis sends one again is not        *)
(* counted: an executed command may simply be executed once more.          *)
(***************************************************************************)
EXTENDS Integers, FiniteSets

CONSTANTS
    Host,        \* processes, with a Cache each
    Caller,      \* callers of GetOrLoad
    HostOf,      \* the process a caller belongs to
    Writer,      \* writers of the database
    Refreshes,   \* what a writer may do to the cache: "delete", "set"
    TTLs,        \* kinds of ttl: "whole" (> 1 ns), "keep" (-1: go-redis's KeepTTL),
                 \* "none" (the other ttl <= 0, and 1 ns where jitter makes it 0)
    MaxVersion,  \* bound: versions of the database
    MaxCalls,    \* bound: calls of GetOrLoad
    MaxLate      \* bound: abandoned SETs on their way at a time

ASSUME CacheAssumption ==
    /\ IsFiniteSet(Caller) /\ HostOf \in [Caller -> Host]
    /\ Refreshes \subseteq {"delete", "set"} /\ TTLs \subseteq {"whole", "keep", "none"}
    /\ MaxVersion \in Nat \ {0} /\ MaxCalls \in Nat /\ MaxLate \in Nat

Versions == 1..MaxVersion
None == 0

VARIABLES
    db,          \* the current version
    \* Redis
    cached,      \* value of the key, or None
    px,          \* whether the key carries a TTL
    late,        \* abandoned SETs the server may still execute
    \* per writer
    wpc,         \* "idle", or the refresh it has to do: "delete", "set"
    written,     \* the version it wrote
    \* per host: the flight of singleflight for the key
    flight,      \* [step, val, ttl]
    waiting,     \* callers that wait for its result
    \* per caller
    pc,          \* "idle", "get", "missed", "waiting" or "answered"
    done,        \* the call's context is done
    result,      \* the version answered, or None
    outcome,     \* "none", "value", "failed" (Redis), "load_failed" or "canceled"
    \* history
    calls,       \* calls made
    fresh,       \* newest version whose refresh of the cache was executed
    since,       \* per caller: fresh when its call began
    overtaken,   \* versions held by a flight, a SET or a writer when a newer one refreshed
    loads,       \* loader runs per host
    upsets,      \* what may cause another load: expiry, deletion, a failure
    broken       \* a first GET or a loader failed, by no context of a caller

redis == <<cached, px, late>>
writers == <<db, wpc, written>>
flights == <<flight, waiting>>
caller == <<pc, done, result, outcome>>
history == <<calls, fresh, since, overtaken, loads, upsets, broken>>
vars == <<redis, writers, flights, caller, history>>

NoFlight == [step |-> "none", val |-> None, ttl |-> "none"]
Steps == {"none", "recheck", "found", "loading", "backfill", "filled"}
Flights == [step : Steps, val : Versions \cup {None}, ttl : TTLs \cup {"none"}]

Init ==
    /\ db = 1
    /\ cached = None /\ px = FALSE /\ late = {}
    /\ wpc = [w \in Writer |-> "idle"] /\ written = [w \in Writer |-> 1]
    /\ flight = [h \in Host |-> NoFlight] /\ waiting = [h \in Host |-> {}]
    /\ pc = [c \in Caller |-> "idle"] /\ done = [c \in Caller |-> FALSE]
    /\ result = [c \in Caller |-> None] /\ outcome = [c \in Caller |-> "none"]
    /\ calls = 0 /\ fresh = 1 /\ since = [c \in Caller |-> 1]
    /\ overtaken = {} /\ loads = [h \in Host |-> 0] /\ upsets = 0
    /\ broken = FALSE

\* No more than MaxCalls loads are possible, so no more upsets are counted.
Upset == upsets' = IF upsets < MaxCalls THEN upsets + 1 ELSE upsets

-----------------------------------------------------------------------------
(* Redis and the writers.  X_Y is a faulty variant of X that no action uses.   *)

\* Values that may still be stored or answered though the cache is refreshed now.
Held ==
    {flight[h].val : h \in Host} \cup late
    \cup {written[w] : w \in {v \in Writer : wpc[v] = "set"}}

\* History: the cache is refreshed with version v or because of it.
Refreshed(v) ==
    /\ fresh' = IF v > fresh THEN v ELSE fresh
    /\ overtaken' = overtaken \cup {u \in Held : u # None /\ u < v}

\* A SET that drops the ttl it is given.
Store_NoTTL(v, ttl) == cached' = v /\ px' = FALSE

\* SET key v with a ttl; jitterTTL returns what is <= 0 as it is.
Store(v, ttl) ==
    /\ cached' = v
    /\ px' = IF ttl = "keep" THEN px ELSE ttl = "whole"

Expire ==
    /\ cached # None /\ px
    /\ cached' = None /\ px' = FALSE
    /\ Upset
    /\ UNCHANGED <<late, writers, flights, caller, calls, fresh, since, overtaken, loads, broken>>

\* An abandoned SET is executed; its ttl is either.
ServeLate(v) ==
    /\ v \in late
    /\ \E ttl \in TTLs : Store(v, ttl)
    /\ late' = late \ {v}
    /\ UNCHANGED <<writers, flights, caller, history>>

\* The writer commits a new version and will refresh the cache with what it wrote.
Write(w) ==
    /\ wpc[w] = "idle" /\ db < MaxVersion
    /\ db' = db + 1
    /\ written' = [written EXCEPT ![w] = db']
    /\ \E r \in Refreshes : wpc' = [wpc EXCEPT ![w] = r]
    /\ UNCHANGED <<redis, flights, caller, history>>

\* The command is executed; its answer arrives, or is lost and it is sent again.
Answered(w) == wpc' = wpc \/ wpc' = [wpc EXCEPT ![w] = "idle"]

\* Nothing is deleted.
Delete_Nothing(w) ==
    /\ wpc[w] = "delete"
    /\ Answered(w)
    /\ Refreshed(written[w])
    /\ Upset
    /\ UNCHANGED <<redis, db, written, flights, caller, calls, since, loads, broken>>

Delete(w) ==
    /\ wpc[w] = "delete"
    /\ cached' = None /\ px' = FALSE
    /\ Answered(w)
    /\ Refreshed(written[w])
    /\ Upset
    /\ UNCHANGED <<late, db, written, flights, caller, calls, since, loads, broken>>

Set(w) ==
    /\ wpc[w] = "set"
    /\ \E ttl \in TTLs : Store(written[w], ttl)
    /\ Answered(w)
    /\ Refreshed(written[w])
    /\ UNCHANGED <<late, db, written, flights, caller, calls, since, loads, upsets, broken>>

\* Delete or Set returns an error, or the writer dies; a SET may be executed late.
RefreshFails(w) ==
    /\ wpc[w] # "idle"
    /\ wpc' = [wpc EXCEPT ![w] = "idle"]
    /\ \/ UNCHANGED late
       \/ /\ wpc[w] = "set" /\ Cardinality(late) < MaxLate
          /\ late' = late \cup {written[w]}
    /\ UNCHANGED <<cached, px, db, written, flights, caller, history>>

-----------------------------------------------------------------------------
(* GetOrLoad: the caller's goroutine. *)

Return(c, o, v) ==
    /\ pc' = [pc EXCEPT ![c] = "idle"]
    /\ outcome' = [outcome EXCEPT ![c] = o]
    /\ result' = [result EXCEPT ![c] = v]
    /\ UNCHANGED done

\* GetOrLoad sends the first GET.
GetOrLoad(c) ==
    /\ pc[c] = "idle" /\ calls < MaxCalls
    /\ calls' = calls + 1
    /\ pc' = [pc EXCEPT ![c] = "get"]
    /\ done' = [done EXCEPT ![c] = FALSE]
    /\ result' = [result EXCEPT ![c] = None]
    /\ outcome' = [outcome EXCEPT ![c] = "none"]
    /\ since' = [since EXCEPT ![c] = fresh]
    /\ UNCHANGED <<redis, writers, flights, fresh, overtaken, loads, upsets, broken>>

\* The context of a call ends, by cancellation or by its deadline.
CtxDone(c) ==
    /\ pc[c] # "idle" /\ ~done[c]
    /\ done' = [done EXCEPT ![c] = TRUE]
    /\ UNCHANGED <<redis, writers, flights, pc, result, outcome, history>>

\* The GET is answered: a value or nothing; or the context ends it.  GetFails: or
\* Redis fails.
GetReturns(c) ==
    /\ pc[c] = "get"
    /\ \/ cached # None /\ Return(c, "value", cached)
       \/ /\ cached = None
          /\ pc' = [pc EXCEPT ![c] = "missed"]
          /\ UNCHANGED <<done, result, outcome>>
       \/ done[c] /\ Return(c, "canceled", None)
    /\ UNCHANGED <<redis, writers, flights, history>>

GetFails(c) ==
    /\ pc[c] = "get"
    /\ Return(c, "failed", None)
    /\ broken' = TRUE
    /\ UNCHANGED <<redis, writers, flights, calls, fresh, since, overtaken, loads, upsets>>

\* DoChan: the caller joins the flight of its process, or starts one.
Join(c) ==
    LET h == HostOf[c]
    IN  /\ pc[c] = "missed"
        /\ pc' = [pc EXCEPT ![c] = "waiting"]
        /\ waiting' = [waiting EXCEPT ![h] = @ \cup {c}]
        /\ \/ flight[h].step # "none" /\ UNCHANGED flight
           \/ /\ flight[h].step = "none"
              /\ \E k \in TTLs :
                    flight' = [flight EXCEPT
                        ![h] = [step |-> "recheck", val |-> None, ttl |-> k]]
        /\ UNCHANGED <<redis, writers, done, result, outcome, history>>

\* The select takes ctx.Done; the flight goes on without the caller.
GiveUp(c) ==
    /\ pc[c] \in {"waiting", "answered"} /\ done[c]
    /\ Return(c, "canceled", None)
    /\ waiting' = [waiting EXCEPT ![HostOf[c]] = @ \ {c}]
    /\ UNCHANGED <<redis, writers, flight, history>>

\* The select takes the flight's result.  (Its type assertion fails only when callers load
\* one key with different types, which the code calls a caller's bug: values have one
\* type here.)
Take(c) ==
    /\ pc[c] = "answered"
    /\ Return(c, IF result[c] = None THEN "load_failed" ELSE "value", result[c])
    /\ UNCHANGED <<redis, writers, flights, history>>

-----------------------------------------------------------------------------
(* GetOrLoad: the flight's goroutine. *)

\* Only one waiter is told.
Finish_One(h, v) ==
    /\ flight' = [flight EXCEPT ![h] = NoFlight]
    /\ waiting' = [waiting EXCEPT ![h] = {}]
    /\ \E d \in waiting[h] \cup Caller :
          /\ waiting[h] # {} => d \in waiting[h]
          /\ pc' = [c \in Caller |-> IF c = d /\ c \in waiting[h] THEN "answered" ELSE pc[c]]
          /\ result' = [c \in Caller |-> IF c = d /\ c \in waiting[h] THEN v ELSE result[c]]
    /\ UNCHANGED <<done, outcome>>

\* singleflight forgets the flight and sends its result to all that wait, at once.
Finish(h, v) ==
    /\ flight' = [flight EXCEPT ![h] = NoFlight]
    /\ waiting' = [waiting EXCEPT ![h] = {}]
    /\ pc' = [c \in Caller |-> IF c \in waiting[h] THEN "answered" ELSE pc[c]]
    /\ result' = [c \in Caller |-> IF c \in waiting[h] THEN v ELSE result[c]]
    /\ UNCHANGED <<done, outcome>>

StartLoad(h) ==
    /\ flight' = [flight EXCEPT ![h].step = "loading"]
    /\ loads' = [loads EXCEPT ![h] = @ + 1]

\* The flight does not look into the cache again.
Recheck_Skipped(h) ==
    /\ flight[h].step = "recheck"
    /\ StartLoad(h)
    /\ UNCHANGED <<redis, writers, waiting, caller, calls, fresh, since, overtaken, upsets, broken>>

\* The GET of the flight, with the context of the caller that started it: it fails
\* when that caller is gone, or by an error of Redis.
Recheck(h) ==
    /\ flight[h].step = "recheck"
    /\ \/ /\ cached # None
          /\ flight' = [flight EXCEPT ![h].step = "found", ![h].val = cached]
          /\ UNCHANGED <<loads, upsets>>
       \/ cached = None /\ StartLoad(h) /\ UNCHANGED upsets
       \/ StartLoad(h) /\ Upset
    /\ UNCHANGED <<redis, writers, waiting, caller, calls, fresh, since, overtaken, broken>>

FoundReturns(h) ==
    /\ flight[h].step = "found"
    /\ Finish(h, flight[h].val)
    /\ UNCHANGED <<redis, writers, history>>

\* The loader runs under the context of a caller.
Load_CallerCtx(h) ==
    /\ flight[h].step = "loading"
    /\ \/ /\ flight' = [flight EXCEPT ![h].step = "backfill", ![h].val = db]
          /\ UNCHANGED <<waiting, caller>>
       \/ (\E c \in Caller : HostOf[c] = h /\ done[c]) /\ Finish(h, None)
    /\ UNCHANGED <<redis, writers, history>>

\* The loader reads the database; the SET of the back-fill is sent.
Load(h) ==
    /\ flight[h].step = "loading"
    /\ flight' = [flight EXCEPT ![h].step = "backfill", ![h].val = db]
    /\ UNCHANGED <<redis, writers, waiting, caller, history>>

\* A loader that fails is run again.
LoadFails_Retried(h) ==
    /\ flight[h].step = "loading"
    /\ StartLoad(h)
    /\ Upset /\ broken' = TRUE
    /\ UNCHANGED <<redis, writers, waiting, caller, calls, fresh, since, overtaken>>

\* The loader returns an error, of its own or because of loadTimeout.
LoadFails(h) ==
    /\ flight[h].step = "loading"
    /\ Finish(h, None)
    /\ Upset /\ broken' = TRUE
    /\ UNCHANGED <<redis, writers, calls, fresh, since, overtaken, loads>>

\* The server executes the SET; its answer arrives, or is lost and it is sent again.
Fill(h) ==
    /\ flight[h].step = "backfill"
    /\ Store(flight[h].val, flight[h].ttl)
    /\ flight' = flight \/ flight' = [flight EXCEPT ![h].step = "filled"]
    /\ UNCHANGED <<late, writers, waiting, caller, history>>

FillReturns(h) ==
    /\ flight[h].step = "filled"
    /\ Finish(h, flight[h].val)
    /\ UNCHANGED <<redis, writers, history>>

\* The back-fill fails (Redis, loadTimeout): the value is answered all the same.  The
\* attempt may be executed late.
FillFails(h) ==
    /\ flight[h].step = "backfill"
    /\ Finish(h, flight[h].val)
    /\ \/ UNCHANGED late
       \/ Cardinality(late) < MaxLate /\ late' = late \cup {flight[h].val}
    /\ Upset
    /\ UNCHANGED <<cached, px, writers, calls, fresh, since, overtaken, loads, broken>>

CallerStep(c) == GetReturns(c) \/ GetFails(c) \/ Join(c) \/ GiveUp(c) \/ Take(c)
FlightStep(h) ==
    \/ Recheck(h) \/ FoundReturns(h) \/ Load(h) \/ LoadFails(h)
    \/ FillReturns(h) \/ FillFails(h)

Next ==
    \/ Expire
    \/ \E v \in late : ServeLate(v)
    \/ \E w \in Writer : Write(w) \/ Delete(w) \/ Set(w) \/ RefreshFails(w)
    \/ \E c \in Caller : GetOrLoad(c) \/ CtxDone(c) \/ CallerStep(c)
    \/ \E h \in Host : Fill(h) \/ FlightStep(h)

Spec == Init /\ [][Next]_vars

\* Commands are answered or time out, the loader ends because it obeys loadTimeout
\* (options.go 84), goroutines run, and a TTL runs out.
FairSpec ==
    /\ Spec
    /\ WF_vars(Expire)
    /\ \A c \in Caller : WF_vars(CallerStep(c))
    /\ \A h \in Host : WF_vars(FlightStep(h))

-----------------------------------------------------------------------------
(* Properties. *)

\* The types of the cache, the flights, the calls and the history.
TypeOK ==
    /\ db \in Versions
    /\ cached \in Versions \cup {None} /\ px \in BOOLEAN /\ late \subseteq Versions
    /\ wpc \in [Writer -> {"idle", "delete", "set"}] /\ written \in [Writer -> Versions]
    /\ flight \in [Host -> Flights] /\ waiting \in [Host -> SUBSET Caller]
    /\ pc \in [Caller -> {"idle", "get", "missed", "waiting", "answered"}]
    /\ done \in [Caller -> BOOLEAN]
    /\ result \in [Caller -> Versions \cup {None}]
    /\ outcome \in [Caller -> {"none", "value", "failed", "load_failed", "canceled"}]
    /\ calls \in 0..MaxCalls /\ fresh \in Versions /\ since \in [Caller -> Versions]
    /\ overtaken \subseteq Versions
    /\ loads \in [Host -> 0..MaxCalls] /\ upsets \in 0..MaxCalls /\ broken \in BOOLEAN

\* A call that begins after the cache was refreshed for a version answers an older
\* one only if a flight, a SET or a writer held that one when the refresh was
\* executed (docs/09 78-80): there is no other way to a stale answer.
StaleOnlyByRace ==
    \A c \in Caller : result[c] # None /\ result[c] < since[c] => result[c] \in overtaken

\* The next read after a Delete that was executed reloads and gets the new data
\* (docs/09 79).
NextReadIsNew == \A c \in Caller : result[c] # None => result[c] >= since[c]

\* One load per miss and process, whatever the number of callers (cache.go 73,
\* 102-103): each further one needs an expiry, a deletion or a failure.
NoExtraLoad == \A h \in Host : loads[h] <= 1 + upsets

\* Nobody is answered an error because another caller went away (cache.go 79-81).
WaitersIndependent ==
    \A c \in Caller : outcome[c] \in {"load_failed", "canceled"} => done[c] \/ broken

\* Every call returns.
CallsReturn == \A c \in Caller : pc[c] # "idle" ~> pc[c] = "idle"

\* Whatever raced, a stale value is in the cache for its ttl at most: once the
\* writers rest, the cache agrees with the database or is empty.
AgreesInTheEnd == <>[](cached \in {None, db})

=============================================================================
