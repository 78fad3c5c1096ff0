----------------------------- MODULE CacheProofs -----------------------------
(* Proofs about Cache, for every set of hosts, callers and writers. *)
EXTENDS Cache, FiniteSetTheorems, TLAPS

USE DEF None, Versions, Steps

-----------------------------------------------------------------------------
(* Types.  A load is counted against the call that started its flight, and a call  *)
(* starts one flight at most: the calls that have not joined one yet are left over. *)

\* A flight that has found or loaded a value has it.
FlightHolds ==
    \A h \in Host : flight[h].step \in {"found", "backfill", "filled"} =>
                        flight[h].val \in Versions

Unjoined == {c \in Caller : pc[c] \in {"get", "missed"}}
Started(h) == loads[h] + (IF flight[h].step = "recheck" THEN 1 ELSE 0)
LoadsCounted == \A h \in Host : Started(h) + Cardinality(Unjoined) <= calls

CacheInv == TypeOK /\ FlightHolds /\ LoadsCounted

\* The calls that have not joined a flight are finitely many.
LEMMA UnjoinedFinite == IsFiniteSet(Unjoined) /\ Cardinality(Unjoined) \in Nat
<1>1. Unjoined \in SUBSET Caller
  BY DEF Unjoined
<1> QED
  BY <1>1, CacheAssumption, FS_Subset, FS_CardinalityType

\* A step that makes no further call and starts no flight keeps the count.
LEMMA CountKept ==
    ASSUME LoadsCounted, Unjoined' \subseteq Unjoined, calls' = calls,
           \A h \in Host : Started(h)' = Started(h), calls \in Nat,
           \A h \in Host : Started(h) \in Nat
    PROVE  LoadsCounted'
<1>1. Cardinality(Unjoined') <= Cardinality(Unjoined) /\ Cardinality(Unjoined') \in Nat
  BY UnjoinedFinite, FS_Subset, FS_CardinalityType
<1>2. Cardinality(Unjoined)' = Cardinality(Unjoined')
  OBVIOUS
<1> QED
  BY <1>1, <1>2, UnjoinedFinite DEF LoadsCounted

\* A counted load is within the bound on calls.
LEMMA CountBound ==
    ASSUME LoadsCounted', calls' \in 0..MaxCalls, loads' \in [Host -> Nat]
    PROVE  loads' \in [Host -> 0..MaxCalls]
<1>1. Cardinality(Unjoined)' \in Nat
  <2>1. Unjoined' \in SUBSET Caller
    BY DEF Unjoined
  <2> QED
    BY <2>1, CacheAssumption, FS_Subset, FS_CardinalityType
<1>2. ASSUME NEW h \in Host PROVE loads'[h] \in 0..MaxCalls
  <2>1. Started(h)' + Cardinality(Unjoined)' <= calls'
    BY DEF LoadsCounted
  <2> QED
    BY <1>1, <2>1, CacheAssumption DEF Started
<1> QED
  BY <1>2

\* The history of a refresh keeps its types.
LEMMA RefreshedType ==
    ASSUME TypeOK, NEW v \in Versions, Refreshed(v)
    PROVE  fresh' \in Versions /\ overtaken' \subseteq Versions
<1>1. \A h \in Host : flight[h].val \in Versions \cup {None}
  BY DEF TypeOK, Flights
<1>2. \A u \in Held : u \in Versions \cup {None}
  <2>1. late \subseteq Versions /\ \A w \in Writer : written[w] \in Versions
    BY DEF TypeOK
  <2> QED
    BY <1>1, <2>1 DEF Held
<1>3. fresh' \in Versions
  BY DEF TypeOK, Refreshed
<1>4. {u \in Held : u # None /\ u < v} \subseteq Versions
  BY <1>2
<1> QED
  BY <1>3, <1>4 DEF TypeOK, Refreshed

\* Counting an upset keeps its type.
LEMMA UpsetType ==
    ASSUME TypeOK, Upset
    PROVE  upsets' \in 0..MaxCalls
BY CacheAssumption DEF TypeOK, Upset

\* A call that returns keeps the types.
LEMMA ReturnType ==
    ASSUME CacheInv, NEW c \in Caller, pc[c] # "idle",
           NEW o \in {"none", "value", "failed", "load_failed", "canceled"},
           NEW v \in Versions \cup {None}, Return(c, o, v),
           UNCHANGED <<redis, writers, flight, calls, fresh, since, overtaken, loads, upsets>>,
           waiting' \in [Host -> SUBSET Caller], broken' \in BOOLEAN
    PROVE  CacheInv'
<1> USE DEF CacheInv, Return, redis, writers
<1>1. Unjoined' \subseteq Unjoined
  BY DEF TypeOK, Unjoined
<1>2. LoadsCounted'
  BY <1>1, CountKept DEF TypeOK, Started
<1> QED
  BY <1>2 DEF TypeOK, FlightHolds

\* A flight that ends, and answers its waiters, keeps the types.
LEMMA FinishType ==
    ASSUME CacheInv, NEW h \in Host, flight[h].step # "recheck",
           NEW v \in Versions \cup {None}, Finish(h, v),
           UNCHANGED <<cached, px, writers, calls, fresh, since, overtaken, loads>>,
           late' \subseteq Versions, upsets' \in 0..MaxCalls, broken' \in BOOLEAN
    PROVE  CacheInv'
<1> USE DEF CacheInv, Finish, writers
<1>1. Unjoined' \subseteq Unjoined
  BY DEF TypeOK, Unjoined
<1>2. flight' \in [Host -> Flights] /\ FlightHolds'
  BY DEF TypeOK, FlightHolds, Flights, NoFlight
<1>3. \A g \in Host : flight'[g].step = "recheck" <=> flight[g].step = "recheck"
  BY DEF TypeOK, NoFlight
<1>4. LoadsCounted'
  BY <1>1, <1>3, CountKept DEF TypeOK, Started
<1>5. pc' \in [Caller -> {"idle", "get", "missed", "waiting", "answered"}]
      /\ result' \in [Caller -> Versions \cup {None}]
  BY DEF TypeOK
<1> QED
  BY <1>2, <1>4, <1>5 DEF TypeOK

\* What happens to a flight of which one step, and the value if it finds one, changes.
LEMMA FlightUpdate ==
    ASSUME TypeOK, NEW h \in Host, NEW s \in Steps, NEW v \in Versions \cup {None},
           \/ flight' = [flight EXCEPT ![h].step = s] /\ v = flight[h].val
           \/ flight' = [flight EXCEPT ![h].step = s, ![h].val = v]
    PROVE  /\ flight' \in [Host -> Flights]
           /\ flight'[h].step = s /\ flight'[h].val = v
           /\ \A g \in Host \ {h} : flight'[g] = flight[g]
<1>1. flight \in [Host -> Flights] /\ flight[h] \in Flights
  BY DEF TypeOK
<1>2. [flight[h] EXCEPT !.step = s] \in Flights /\ [flight[h] EXCEPT !.step = s].step = s
      /\ [flight[h] EXCEPT !.step = s].val = flight[h].val
  BY <1>1 DEF Flights
<1>3. [flight[h] EXCEPT !.step = s, !.val = v] \in Flights
      /\ [flight[h] EXCEPT !.step = s, !.val = v].step = s
      /\ [flight[h] EXCEPT !.step = s, !.val = v].val = v
  BY <1>1 DEF Flights
<1>4. \/ flight' = [flight EXCEPT ![h] = [flight[h] EXCEPT !.step = s]] /\ v = flight[h].val
      \/ flight' = [flight EXCEPT ![h] = [flight[h] EXCEPT !.step = s, !.val = v]]
  BY <1>1
<1> QED
  BY <1>1, <1>2, <1>3, <1>4

\* Redis and the writers keep the types.
LEMMA ServerType ==
    ASSUME CacheInv,
           \/ Expire \/ \E v \in late : ServeLate(v)
           \/ \E w \in Writer : Write(w) \/ Delete(w) \/ Set(w) \/ RefreshFails(w)
    PROVE  CacheInv'
<1> USE DEF CacheInv, flights, caller
<1>1. /\ UNCHANGED <<flight, waiting, pc, done, result, outcome, calls, since, loads, broken>>
  BY DEF Expire, ServeLate, Write, Delete, Set, RefreshFails, history
<1>2. LoadsCounted' /\ FlightHolds'
  BY <1>1 DEF LoadsCounted, FlightHolds, Started, Unjoined
<1>3. CASE Expire
  BY <1>1, <1>2, <1>3, UpsetType DEF TypeOK, Expire, writers
<1>4. ASSUME NEW v \in late, ServeLate(v) PROVE CacheInv'
  <2>1. cached' \in Versions /\ px' \in BOOLEAN
    <3>1. PICK k \in TTLs : Store(v, k)
      BY <1>4 DEF ServeLate
    <3> QED
      BY <3>1 DEF Store, TypeOK
  <2> QED
    BY <1>1, <1>2, <1>4, <2>1 DEF TypeOK, ServeLate, writers, history
<1>5. ASSUME NEW w \in Writer, Write(w) PROVE CacheInv'
  <2>1. db' \in Versions /\ written' \in [Writer -> Versions]
    BY <1>5, CacheAssumption DEF TypeOK, Write
  <2>2. wpc' \in [Writer -> {"idle", "delete", "set"}]
    BY <1>5, CacheAssumption DEF TypeOK, Write
  <2> QED
    BY <1>1, <1>2, <1>5, <2>1, <2>2 DEF TypeOK, Write, redis, history
<1>6. ASSUME NEW w \in Writer, Delete(w) PROVE CacheInv'
  <2>1. fresh' \in Versions /\ overtaken' \subseteq Versions
    BY <1>6, RefreshedType DEF Delete, TypeOK
  <2> QED
    BY <1>1, <1>2, <1>6, <2>1, UpsetType DEF TypeOK, Delete, Answered
<1>7. ASSUME NEW w \in Writer, Set(w) PROVE CacheInv'
  <2>1. fresh' \in Versions /\ overtaken' \subseteq Versions
    BY <1>7, RefreshedType DEF Set, TypeOK
  <2>2. cached' \in Versions /\ px' \in BOOLEAN
    <3>1. PICK k \in TTLs : Store(written[w], k)
      BY <1>7 DEF Set
    <3> QED
      BY <3>1 DEF Store, TypeOK
  <2>3. wpc' \in [Writer -> {"idle", "delete", "set"}]
    BY <1>7 DEF TypeOK, Set, Answered
  <2>4. UNCHANGED <<late, db, written, upsets>>
    BY <1>7 DEF Set
  <2> QED
    BY <1>1, <1>2, <2>1, <2>2, <2>3, <2>4 DEF TypeOK
<1>8. ASSUME NEW w \in Writer, RefreshFails(w) PROVE CacheInv'
  <2>1. late' \subseteq Versions
    <3>1. written[w] \in Versions /\ late \subseteq Versions
      BY DEF TypeOK
    <3>2. late' = late \/ late' = late \cup {written[w]}
      BY <1>8 DEF RefreshFails
    <3> QED
      BY <3>1, <3>2
  <2>2. wpc' \in [Writer -> {"idle", "delete", "set"}]
    BY <1>8 DEF TypeOK, RefreshFails
  <2>3. UNCHANGED <<cached, px, db, written, history>>
    BY <1>8 DEF RefreshFails
  <2> QED
    BY <1>1, <1>2, <2>1, <2>2, <2>3 DEF TypeOK, history
<1> QED
  BY <1>3, <1>4, <1>5, <1>6, <1>7, <1>8

\* The callers keep the types.
LEMMA CallerType ==
    ASSUME CacheInv, NEW c \in Caller, GetOrLoad(c) \/ CtxDone(c) \/ CallerStep(c)
    PROVE  CacheInv'
<1> USE DEF CacheInv
<1>1. CASE GetOrLoad(c)
  <2>1. Unjoined' = Unjoined \cup {c} /\ c \notin Unjoined
    BY <1>1 DEF GetOrLoad, Unjoined, TypeOK
  <2>2. Cardinality(Unjoined') = Cardinality(Unjoined) + 1
    BY <2>1, UnjoinedFinite, FS_AddElement
  <2>3. LoadsCounted'
    <3>1. calls' = calls + 1 /\ \A h \in Host : Started(h)' = Started(h) /\ Started(h) \in Nat
      BY <1>1 DEF GetOrLoad, Started, flights, TypeOK
    <3>2. Cardinality(Unjoined)' = Cardinality(Unjoined) + 1
      BY <2>2
    <3> QED
      BY <3>1, <3>2, UnjoinedFinite DEF LoadsCounted, TypeOK
  <2>4. calls' \in 0..MaxCalls
    BY <1>1, CacheAssumption DEF GetOrLoad, TypeOK
  <2> QED
    BY <1>1, <2>3, <2>4 DEF GetOrLoad, TypeOK, FlightHolds, redis, writers, flights
<1>2. CASE CtxDone(c)
  BY <1>2 DEF CtxDone, TypeOK, FlightHolds, LoadsCounted, Started, Unjoined, redis, writers,
              flights, history
<1>3. CASE GetReturns(c)
  <2>1. CASE Return(c, "value", cached) \/ Return(c, "canceled", None)
    BY <1>3, <2>1, ReturnType DEF GetReturns, TypeOK, flights, history
  <2>2. CASE pc' = [pc EXCEPT ![c] = "missed"] /\ UNCHANGED <<done, result, outcome>>
    <3>1. Unjoined' \subseteq Unjoined
      BY <1>3, <2>2 DEF GetReturns, Unjoined, TypeOK
    <3>2. LoadsCounted'
      BY <1>3, <3>1, CountKept DEF GetReturns, TypeOK, Started, flights, history
    <3> QED
      BY <1>3, <2>2, <3>2 DEF GetReturns, TypeOK, FlightHolds, redis, writers, flights, history
  <2> QED
    BY <1>3, <2>1, <2>2 DEF GetReturns
<1>4. CASE GetFails(c)
  BY <1>4, ReturnType DEF GetFails, TypeOK, flights
<1>5. CASE Join(c)
  <2> DEFINE h == HostOf[c]
  <2>1. h \in Host /\ c \in Unjoined /\ pc[c] = "missed"
    BY <1>5, CacheAssumption DEF Join, Unjoined
  <2>2. Unjoined' = Unjoined \ {c}
    BY <1>5 DEF Join, Unjoined, TypeOK
  <2>3. Cardinality(Unjoined)' = Cardinality(Unjoined) - 1
    BY <2>1, <2>2, UnjoinedFinite, FS_RemoveElement
  <2>4. \/ UNCHANGED flight
        \/ /\ flight[h].step = "none"
           /\ \E k \in TTLs :
                flight' = [flight EXCEPT ![h] = [step |-> "recheck", val |-> None, ttl |-> k]]
    BY <1>5 DEF Join
  <2>5. flight' \in [Host -> Flights]
    <3>1. ASSUME NEW k \in TTLs PROVE [step |-> "recheck", val |-> None, ttl |-> k] \in Flights
      BY DEF Flights
    <3> HIDE DEF h
    <3> QED
      BY <2>1, <2>4, <3>1 DEF TypeOK
  <2>6. \A g \in Host : /\ g # h => flight'[g] = flight[g]
                        /\ flight'[g].step \in {"found", "backfill", "filled"}
                              => flight'[g] = flight[g]
    <3> HIDE DEF h
    <3>1. flight \in [Host -> Flights]
      BY DEF TypeOK
    <3>2. CASE UNCHANGED flight
      BY <3>2
    <3>3. ASSUME NEW k \in TTLs,
                 flight' = [flight EXCEPT ![h] = [step |-> "recheck", val |-> None, ttl |-> k]]
          PROVE  \A g \in Host : /\ g # h => flight'[g] = flight[g]
                                 /\ g = h => flight'[g].step = "recheck"
      BY <2>1, <3>1, <3>3
    <3> QED
      BY <2>4, <3>2, <3>3
  <2>7. LoadsCounted'
    <3>1. \A g \in Host : Started(g)' <= Started(g) + 1 /\ Started(g) \in Nat
                          /\ Started(g)' \in Nat
      BY <1>5 DEF Join, Started, TypeOK, history
    <3> QED
      BY <1>5, <2>3, <3>1, UnjoinedFinite DEF Join, LoadsCounted, TypeOK, history
  <2>8. waiting' \in [Host -> SUBSET Caller]
    BY <1>5 DEF Join, TypeOK
  <2>9. FlightHolds'
    BY <2>6 DEF FlightHolds
  <2> QED
    BY <1>5, <2>5, <2>7, <2>8, <2>9 DEF Join, TypeOK, redis, writers, history
<1>6. CASE GiveUp(c)
  <2>1. waiting' \in [Host -> SUBSET Caller]
    BY <1>6 DEF GiveUp, TypeOK
  <2> QED
    BY <1>6, <2>1, ReturnType DEF GiveUp, TypeOK, history
<1>7. CASE Take(c)
  BY <1>7, ReturnType DEF Take, TypeOK, flights, history
<1> QED
  BY <1>1, <1>2, <1>3, <1>4, <1>5, <1>6, <1>7 DEF CallerStep

\* The flights keep the types.
LEMMA FlightType ==
    ASSUME CacheInv, NEW h \in Host, Fill(h) \/ FlightStep(h)
    PROVE  CacheInv'
<1> USE DEF CacheInv
<1>1. flight[h] \in Flights /\ (flight[h].step \in {"found", "backfill", "filled"} =>
                                    flight[h].val \in Versions)
  BY DEF TypeOK, FlightHolds
<1>2. CASE Recheck(h)
  <2>1. /\ UNCHANGED <<redis, writers, waiting, caller, calls, fresh, since, overtaken, broken>>
        /\ flight[h].step = "recheck"
        /\ \/ /\ flight' = [flight EXCEPT ![h].step = "found", ![h].val = cached]
              /\ cached # None /\ loads' = loads
           \/ StartLoad(h)
    BY <1>2 DEF Recheck
  <2>2. upsets' \in 0..MaxCalls
    <3>1. upsets' = upsets \/ Upset
      BY <1>2 DEF Recheck
    <3> QED
      BY <3>1, UpsetType DEF TypeOK
  <2>3. PICK s \in {"found", "loading"}, v \in Versions \cup {None} :
           /\ \/ flight' = [flight EXCEPT ![h].step = s] /\ v = flight[h].val
              \/ flight' = [flight EXCEPT ![h].step = s, ![h].val = v]
           /\ s = "found" => v \in Versions /\ loads' = loads
           /\ s = "loading" => loads' = [loads EXCEPT ![h] = @ + 1]
    <3>1. CASE StartLoad(h)
      <4>1. flight[h].val \in Versions \cup {None}
        BY <1>1 DEF Flights
      <4> QED
        BY <3>1, <4>1 DEF StartLoad
    <3>2. CASE ~StartLoad(h)
      <4>1. cached \in Versions
        BY <2>1, <3>2 DEF TypeOK
      <4> QED
        BY <2>1, <3>2, <4>1
    <3> QED
      BY <3>1, <3>2
  <2>9. /\ flight' \in [Host -> Flights]
        /\ flight'[h].step = s /\ flight'[h].val = v
        /\ \A g \in Host \ {h} : flight'[g] = flight[g]
    BY <2>3, FlightUpdate
  <2>10. FlightHolds'
    BY <2>3, <2>9 DEF FlightHolds
  <2>4. Unjoined' = Unjoined
    BY <2>1 DEF Unjoined, caller
  <2>5. \A g \in Host : Started(g)' \in Nat /\ Started(g) \in Nat /\ Started(g)' <= Started(g)
    BY <2>1, <2>3, <2>9 DEF Started, TypeOK
  <2>6. LoadsCounted'
    <3>1. Cardinality(Unjoined)' = Cardinality(Unjoined) /\ calls' = calls /\ calls \in Nat
      BY <2>1, <2>4 DEF TypeOK
    <3> QED
      BY <2>5, <3>1, UnjoinedFinite DEF LoadsCounted
  <2>7. loads' \in [Host -> Nat] /\ calls' \in 0..MaxCalls
    BY <2>1 DEF StartLoad, TypeOK
  <2>8. loads' \in [Host -> 0..MaxCalls]
    BY <2>6, <2>7, CountBound
  <2> QED
    BY <2>1, <2>2, <2>6, <2>8, <2>9, <2>10 DEF TypeOK, redis, writers, caller
<1>3. CASE FoundReturns(h) \/ FillReturns(h)
  BY <1>1, <1>3, FinishType DEF FoundReturns, FillReturns, TypeOK, redis, history
<1>4. ASSUME \/ flight' = flight
             \/ /\ flight[h].step = "backfill"
                /\ flight' = [flight EXCEPT ![h].step = "filled"]
             \/ flight' = [flight EXCEPT ![h].step = "backfill", ![h].val = db],
             flight[h].step \in {"loading", "backfill"},
             cached' \in Versions \cup {None}, px' \in BOOLEAN,
             UNCHANGED <<late, writers, waiting, caller, history>>
      PROVE  CacheInv'
  <2>1. \/ flight' = flight
        \/ /\ flight' \in [Host -> Flights]
           /\ \A g \in Host \ {h} : flight'[g] = flight[g]
           /\ flight'[h].step \in {"filled", "backfill"} /\ flight'[h].val \in Versions
    <3>1. CASE flight[h].step = "backfill" /\ flight' = [flight EXCEPT ![h].step = "filled"]
      BY <1>1, <3>1, FlightUpdate
    <3>2. CASE flight' = [flight EXCEPT ![h].step = "backfill", ![h].val = db]
      BY <3>2, FlightUpdate DEF TypeOK
    <3> QED
      BY <1>4, <3>1, <3>2
  <2>2. \A g \in Host : flight'[g].step = "recheck" <=> flight[g].step = "recheck"
    BY <1>4, <2>1
  <2>4. flight' \in [Host -> Flights] /\ FlightHolds'
    BY <2>1 DEF TypeOK, FlightHolds
  <2>3. LoadsCounted'
    BY <1>4, <2>2 DEF LoadsCounted, Started, Unjoined, caller, history
  <2> QED
    BY <1>4, <2>3, <2>4 DEF TypeOK, writers, caller, history
<1>5. CASE Load(h)
  BY <1>4, <1>5 DEF Load, TypeOK, redis
<1>6. CASE LoadFails(h)
  BY <1>6, FinishType, UpsetType DEF LoadFails, TypeOK, redis
<1>7. CASE Fill(h)
  <2>1. cached' \in Versions /\ px' \in BOOLEAN
    BY <1>1, <1>7 DEF Fill, Store, TypeOK
  <2> QED
    BY <1>4, <1>7, <2>1 DEF Fill
<1>8. CASE FillFails(h)
  BY <1>1, <1>8, FinishType, UpsetType DEF FillFails, TypeOK
<1> QED
  BY <1>2, <1>3, <1>5, <1>6, <1>7, <1>8 DEF FlightStep

\* The types, and the count of the loads that bounds them, hold in every behaviour.
THEOREM CacheTypes == Spec => []CacheInv
<1>1. Init => CacheInv
  <2> SUFFICES ASSUME Init PROVE CacheInv
    OBVIOUS
  <2>1. Unjoined = {}
    BY DEF Init, Unjoined
  <2>2. LoadsCounted
    <3>1. \A h \in Host : Started(h) = 0
      BY DEF Init, Started, NoFlight
    <3> QED
      BY <2>1, <3>1, FS_EmptySet DEF Init, LoadsCounted
  <2>3. NoFlight \in Flights /\ NoFlight.step = "none"
    BY DEF NoFlight, Flights
  <2>4. FlightHolds /\ flight \in [Host -> Flights] /\ waiting \in [Host -> SUBSET Caller]
    BY <2>3 DEF Init, FlightHolds
  <2>5. 1 \in Versions /\ 0 \in 0..MaxCalls
    BY CacheAssumption
  <2>6. TypeOK
    BY <2>4, <2>5 DEF Init, TypeOK
  <2> QED
    BY <2>2, <2>4, <2>6 DEF CacheInv
<1>2. CacheInv /\ [Next]_vars => CacheInv'
  <2> SUFFICES ASSUME CacheInv, [Next]_vars PROVE CacheInv'
    OBVIOUS
  <2>1. CASE UNCHANGED vars
    BY <2>1 DEF CacheInv, TypeOK, FlightHolds, LoadsCounted, Started, Unjoined, vars, redis,
                writers, flights, caller, history
  <2> QED
    BY <2>1, ServerType, CallerType, FlightType DEF Next
<1> QED
  BY <1>1, <1>2, PTL DEF Spec

\* The types of Cache hold, for every number of callers, hosts and writers.
THEOREM CacheTypeCorrect == Spec => []TypeOK
<1>1. CacheInv => TypeOK
  BY DEF CacheInv
<1> QED
  BY <1>1, CacheTypes, PTL

-----------------------------------------------------------------------------
(* Stale answers.  A value that is cached, or may still be stored or answered, and  *)
(* is older than the last refresh was held by somebody when that was executed.       *)

Stale(v) == v < fresh
Carried == {cached} \cup Held

RaceInv ==
    /\ fresh <= db
    /\ \A w \in Writer : written[w] <= db
    /\ \A c \in Caller : since[c] <= fresh
    /\ \A v \in Carried \ {None} : Stale(v) => v \in overtaken
    /\ StaleOnlyByRace

\* Carried values are versions, or nothing.
LEMMA CarriedType ==
    ASSUME TypeOK
    PROVE  Carried \subseteq Versions \cup {None}
<1>1. \A h \in Host : flight[h].val \in Versions \cup {None}
  BY DEF TypeOK, Flights
<1>2. /\ late \subseteq Versions /\ cached \in Versions \cup {None}
      /\ \A w \in Writer : written[w] \in Versions
  BY DEF TypeOK
<1> QED
  BY <1>1, <1>2 DEF Carried, Held

\* A step that refreshes nothing keeps the invariant if it carries on what was carried
\* or the newest version, and answers what was carried.
LEMMA RaceQuiet ==
    ASSUME CacheInv, RaceInv, TypeOK', UNCHANGED <<fresh, overtaken>>, db <= db',
           Carried' \subseteq Carried \cup {None, db'},
           \A w \in Writer : written'[w] \in {written[w], db'},
           \A c \in Caller :
              \/ since'[c] = since[c] /\ result'[c] \in Carried \cup {result[c], None}
              \/ since'[c] = fresh /\ result'[c] = None
    PROVE  RaceInv'
<1> USE DEF RaceInv
<1>1. /\ db \in Int /\ db' \in Int /\ fresh \in Int /\ \A w \in Writer : written[w] \in Int
      /\ \A c \in Caller : since[c] \in Int /\ result[c] \in Int
      /\ \A v \in Carried : v \in Int
  BY CarriedType DEF CacheInv, TypeOK
<1>2. fresh' <= db' /\ \A w \in Writer : written'[w] <= db'
  BY <1>1
<1>3. \A c \in Caller : since'[c] <= fresh'
  BY <1>1
<1>4. \A v \in Carried' \ {None} : Stale(v)' => v \in overtaken'
  BY <1>1 DEF Stale
<1>5. StaleOnlyByRace'
  <2> SUFFICES ASSUME NEW c \in Caller, result'[c] # None, result'[c] < since'[c]
               PROVE  result'[c] \in overtaken
    BY DEF StaleOnlyByRace
  <2>1. since'[c] = since[c] /\ since[c] <= fresh
    OBVIOUS
  <2>2. CASE result'[c] = result[c]
    BY <2>1, <2>2 DEF StaleOnlyByRace
  <2>3. CASE result'[c] \in Carried
    BY <2>1, <2>3, <1>1 DEF Stale
  <2> QED
    BY <2>1, <2>2, <2>3
<1> QED
  BY <1>2, <1>3, <1>4, <1>5

\* A refresh that is executed keeps the invariant: what is carried past it, it overtakes.
LEMMA RaceRefresh ==
    ASSUME CacheInv, RaceInv, TypeOK', NEW w \in Writer, Refreshed(written[w]),
           UNCHANGED <<db, written, since, result>>,
           Carried' \subseteq Held \cup {None}
    PROVE  RaceInv'
<1> USE DEF RaceInv
<1>1. /\ db \in Int /\ fresh \in Int /\ written[w] \in Int
      /\ \A c \in Caller : since[c] \in Int /\ result[c] \in Int
      /\ \A v \in Held : v \in Int /\ v \in Carried
  BY CarriedType DEF CacheInv, TypeOK, Carried
<1>2. fresh' <= db' /\ fresh <= fresh' /\ overtaken \subseteq overtaken'
  BY <1>1 DEF Refreshed
<1>3. \A c \in Caller : since'[c] <= fresh'
  BY <1>1, <1>2 DEF CacheInv, TypeOK
<1>4. \A v \in Carried' \ {None} : Stale(v)' => v \in overtaken'
  <2> SUFFICES ASSUME NEW v \in Held \ {None}, v < fresh' PROVE v \in overtaken'
    BY DEF Stale
  <2>1. CASE v < fresh
    BY <2>1, <1>1, <1>2 DEF Stale
  <2>2. CASE ~(v < fresh)
    BY <2>2, <1>1 DEF Refreshed
  <2> QED
    BY <2>1, <2>2
<1>5. StaleOnlyByRace'
  BY <1>2 DEF StaleOnlyByRace
<1> QED
  BY <1>2, <1>3, <1>4, <1>5

\* Redis and the writers keep the invariant.
LEMMA RaceServer ==
    ASSUME CacheInv, RaceInv, TypeOK',
           \/ Expire \/ \E v \in late : ServeLate(v)
           \/ \E w \in Writer : Write(w) \/ Delete(w) \/ Set(w) \/ RefreshFails(w)
    PROVE  RaceInv'
<1>1. db \in Int /\ db <= db /\ written \in [Writer -> Versions]
      /\ wpc \in [Writer -> {"idle", "delete", "set"}]
  BY DEF CacheInv, TypeOK
<1>2. CASE Expire
  <2>1. Carried' \subseteq Carried \cup {None}
    BY <1>2 DEF Expire, Carried, Held, writers, flights
  <2> QED
    BY <1>1, <1>2, <2>1, RaceQuiet DEF Expire, writers, caller
<1>3. ASSUME NEW v \in late, ServeLate(v) PROVE RaceInv'
  <2>1. cached' = v
    BY <1>3 DEF ServeLate, Store
  <2>2. Carried' \subseteq Carried
    BY <1>3, <2>1 DEF ServeLate, Carried, Held, writers, flights
  <2> QED
    BY <1>1, <1>3, <2>2, RaceQuiet DEF ServeLate, writers, caller, history
<1>4. ASSUME NEW w \in Writer, Write(w) PROVE RaceInv'
  <2>1. db' = db + 1 /\ wpc[w] = "idle"
        /\ written'[w] = db' /\ \A u \in Writer \ {w} : written'[u] = written[u] /\ wpc'[u] = wpc[u]
    BY <1>1, <1>4 DEF Write
  <2>2. Carried' \subseteq Carried \cup {db'}
    BY <1>4, <2>1 DEF Write, Carried, Held, redis, flights
  <2> QED
    BY <1>1, <1>4, <2>1, <2>2, RaceQuiet DEF Write, caller, history
<1>5. ASSUME NEW w \in Writer, Delete(w) \/ Set(w) PROVE RaceInv'
  <2>1. /\ Refreshed(written[w]) /\ UNCHANGED <<db, written, late, flights, caller, since>>
        /\ \A u \in Writer : wpc'[u] = "set" => wpc[u] = "set"
    BY <1>1, <1>5 DEF Delete, Set, Answered
  <2>2. cached' = None \/ (cached' = written[w] /\ wpc[w] = "set")
    BY <1>5 DEF Delete, Set, Store
  <2>3. Carried' \subseteq Held \cup {None}
    BY <2>1, <2>2 DEF Carried, Held, flights
  <2> QED
    BY <2>1, <2>3, RaceRefresh DEF caller
<1>6. ASSUME NEW w \in Writer, RefreshFails(w) PROVE RaceInv'
  <2>1. /\ wpc'[w] = "idle" /\ \A u \in Writer \ {w} : wpc'[u] = wpc[u]
        /\ late' = late \/ (wpc[w] = "set" /\ late' = late \cup {written[w]})
    BY <1>1, <1>6 DEF RefreshFails
  <2>2. Carried' \subseteq Carried
    BY <1>6, <2>1 DEF RefreshFails, Carried, Held, flights
  <2> QED
    BY <1>1, <1>6, <2>2, RaceQuiet DEF RefreshFails, caller, history
<1> QED
  BY <1>2, <1>3, <1>4, <1>5, <1>6

\* The callers keep it: what they are answered was cached, or came from a flight.
LEMMA RaceCaller ==
    ASSUME CacheInv, RaceInv, TypeOK', NEW c \in Caller,
           GetOrLoad(c) \/ CtxDone(c) \/ CallerStep(c)
    PROVE  RaceInv'
<1>1. db \in Int /\ db <= db /\ result \in [Caller -> Versions \cup {None}]
      /\ since \in [Caller -> Versions]
  BY DEF CacheInv, TypeOK
<1>2. UNCHANGED <<redis, writers, fresh, overtaken>>
  BY DEF GetOrLoad, CtxDone, CallerStep, GetReturns, GetFails, Join, GiveUp, Take, history
<1>3. \A h \in Host : flight'[h].val \in {flight[h].val, None}
  <2>1. CASE flight' = flight
    BY <2>1
  <2>2. CASE flight' # flight
    <3>1. PICK k \in TTLs : flight' = [flight EXCEPT
                 ![HostOf[c]] = [step |-> "recheck", val |-> None, ttl |-> k]]
      BY <2>2 DEF GetOrLoad, CtxDone, CallerStep, GetReturns, GetFails, Join, GiveUp, Take, flights
    <3>2. flight \in [Host -> Flights]
      BY DEF CacheInv, TypeOK
    <3> QED
      BY <3>1, <3>2
  <2> QED
    BY <2>1, <2>2
<1>4. Carried' \subseteq Carried \cup {None}
  BY <1>2, <1>3 DEF Carried, Held, redis, writers
<1>5. \A d \in Caller :
         \/ since'[d] = since[d] /\ result'[d] \in Carried \cup {result[d], None}
         \/ since'[d] = fresh /\ result'[d] = None
  <2>1. CASE GetOrLoad(c)
    BY <1>1, <2>1 DEF GetOrLoad
  <2>2. CASE CtxDone(c) \/ CallerStep(c)
    <3>1. since' = since /\ (result' = result
                             \/ \E v \in {cached, None, result[c]} : result' = [result EXCEPT ![c] = v])
      BY <2>2 DEF CtxDone, CallerStep, GetReturns, GetFails, Join, GiveUp, Take, Return, history
    <3> QED
      BY <1>1, <3>1 DEF Carried
  <2> QED
    BY <2>1, <2>2
<1> QED
  BY <1>1, <1>2, <1>4, <1>5, RaceQuiet DEF writers

\* The flights keep it: they carry what was cached or is the newest version.
LEMMA RaceFlight ==
    ASSUME CacheInv, RaceInv, TypeOK', NEW h \in Host, Fill(h) \/ FlightStep(h)
    PROVE  RaceInv'
<1> USE DEF CacheInv
<1>1. /\ db \in Versions /\ db <= db /\ result \in [Caller -> Versions \cup {None}]
      /\ flight[h].val \in Versions \cup {None} /\ flight \in [Host -> Flights]
      /\ cached \in Versions \cup {None}
  BY DEF TypeOK, Flights
<1>2. UNCHANGED <<writers, fresh, overtaken, since>>
  BY DEF Fill, FlightStep, Recheck, FoundReturns, Load, LoadFails, FillReturns, FillFails, history
<1>3. cached' \in {cached, flight[h].val} /\ late' \subseteq late \cup {flight[h].val}
  BY DEF Fill, Store, FlightStep, Recheck, FoundReturns, Load, LoadFails, FillReturns, FillFails,
         redis
<1>4. \A g \in Host : flight'[g].val \in {flight[g].val, cached, db, None}
  <2>1. CASE \E s \in Steps, v \in {flight[h].val, cached, db} :
                \/ flight' = [flight EXCEPT ![h].step = s] /\ v = flight[h].val
                \/ flight' = [flight EXCEPT ![h].step = s, ![h].val = v]
    <3>1. PICK s \in Steps, v \in {flight[h].val, cached, db} :
             \/ flight' = [flight EXCEPT ![h].step = s] /\ v = flight[h].val
             \/ flight' = [flight EXCEPT ![h].step = s, ![h].val = v]
      BY <2>1
    <3>2. v \in Versions \cup {None}
      BY <1>1
    <3>3. flight'[h].val = v /\ \A g \in Host \ {h} : flight'[g] = flight[g]
      BY <3>1, <3>2, FlightUpdate
    <3> QED
      BY <3>3
  <2>2. CASE flight' = flight \/ flight' = [flight EXCEPT ![h] = NoFlight]
    BY <1>1, <2>2 DEF NoFlight
  <2>3. CASE Recheck(h)
    <3>1. \/ flight' = [flight EXCEPT ![h].step = "found", ![h].val = cached]
          \/ flight' = [flight EXCEPT ![h].step = "loading"]
      BY <2>3 DEF Recheck, StartLoad
    <3> QED
      BY <3>1, <2>1
  <2>4. CASE Load(h)
    BY <2>4, <2>1 DEF Load
  <2>5. CASE Fill(h)
    BY <2>5, <2>1, <2>2 DEF Fill
  <2>6. CASE FoundReturns(h) \/ LoadFails(h) \/ FillReturns(h) \/ FillFails(h)
    BY <2>6, <2>2 DEF FoundReturns, LoadFails, FillReturns, FillFails, Finish
  <2> QED
    BY <2>3, <2>4, <2>5, <2>6 DEF FlightStep
<1>5. Carried' \subseteq Carried \cup {None, db}
  BY <1>2, <1>3, <1>4 DEF Carried, Held, writers
<1>6. \A c \in Caller : result'[c] \in {result[c], flight[h].val, None}
  BY DEF Fill, FlightStep, Recheck, FoundReturns, Load, LoadFails, FillReturns, FillFails, Finish,
         caller
<1>7. flight[h].val \in Carried
  BY DEF Carried, Held
<1> QED
  BY <1>1, <1>2, <1>5, <1>6, <1>7, RaceQuiet DEF writers

\* A stale answer needs a race: whoever answers one had it, or got it from somebody who
\* had it, when the refresh was executed.
THEOREM StaleByRaceHolds == Spec => []StaleOnlyByRace
<1>1. Init /\ CacheInv => RaceInv
  <2> SUFFICES ASSUME Init, CacheInv PROVE RaceInv
    OBVIOUS
  <2>1. \A v \in Carried \ {None} : ~Stale(v)
    BY DEF Init, Carried, Held, NoFlight, Stale
  <2>2. StaleOnlyByRace
    BY DEF Init, StaleOnlyByRace
  <2>3. /\ db = 1 /\ fresh = 1 /\ \A w \in Writer : written[w] = 1
        /\ \A c \in Caller : since[c] = 1
    BY DEF Init
  <2> QED
    BY <2>1, <2>2, <2>3 DEF RaceInv
<1>2. RaceInv /\ CacheInv /\ CacheInv' /\ [Next]_vars => RaceInv'
  <2> SUFFICES ASSUME RaceInv, CacheInv, CacheInv', [Next]_vars PROVE RaceInv'
    OBVIOUS
  <2>1. CASE UNCHANGED vars
    BY <2>1 DEF RaceInv, StaleOnlyByRace, Carried, Held, Stale, vars, redis, writers, flights,
                caller, history
  <2>2. TypeOK'
    BY DEF CacheInv
  <2> QED
    BY <2>1, <2>2, RaceServer, RaceCaller, RaceFlight DEF Next
<1>3. RaceInv => StaleOnlyByRace
  BY DEF RaceInv
<1> QED
  BY <1>1, <1>2, <1>3, CacheTypes, PTL DEF Spec

-----------------------------------------------------------------------------
(* Loads.  A load of a host is the first since the last upset: the host still runs *)
(* it, or the value it brought is cached.  (Upsets are counted to MaxCalls, which   *)
(* no number of loads exceeds.)                                                     *)

Covered(h) == cached # None \/ flight[h].step \in {"loading", "backfill"}
LoadInv ==
    upsets < MaxCalls =>
        \A h \in Host : loads[h] <= upsets + 1 /\ (~Covered(h) => loads[h] <= upsets)

\* A step that counts an upset makes room for one more load of every host.
LEMMA LoadUpset ==
    ASSUME CacheInv, LoadInv, Upset, NEW h \in Host,
           \A g \in Host \ {h} : loads'[g] = loads[g],
           loads'[h] = loads[h] \/ (loads'[h] = loads[h] + 1 /\ flight'[h].step = "loading")
    PROVE  LoadInv'
<1>1. /\ upsets \in Nat /\ MaxCalls \in Nat /\ \A g \in Host : loads[g] \in Nat
      /\ upsets' < MaxCalls => upsets' = upsets + 1 /\ upsets < MaxCalls
  BY CacheAssumption DEF CacheInv, TypeOK, Upset
<1> QED
  BY <1>1 DEF LoadInv, Covered

\* A step that counts none and loads nothing keeps the invariant if what covered a
\* load still does.
LEMMA LoadQuiet ==
    ASSUME LoadInv, UNCHANGED <<upsets, loads>>,
           \A h \in Host : Covered(h) => Covered(h)'
    PROVE  LoadInv'
BY DEF LoadInv

\* The flights keep the invariant.
LEMMA LoadFlight ==
    ASSUME CacheInv, LoadInv, NEW h \in Host, Fill(h) \/ FlightStep(h)
    PROVE  LoadInv'
<1> USE DEF CacheInv
<1>1. /\ flight \in [Host -> Flights] /\ loads \in [Host -> Nat]
      /\ flight[h].step \in {"backfill", "filled", "found"} => flight[h].val # None
  BY DEF TypeOK, FlightHolds
<1>2. CASE Recheck(h)
  <2>1. CASE StartLoad(h)
    <3>1. /\ \A g \in Host \ {h} : loads'[g] = loads[g] /\ flight'[g] = flight[g]
          /\ loads'[h] = loads[h] + 1
      BY <1>1, <2>1 DEF StartLoad
    <3>2. flight'[h].step = "loading"
      <4>1. flight[h].val \in Versions \cup {None}
        BY <1>1 DEF Flights
      <4> QED
        BY <2>1, <4>1, FlightUpdate DEF StartLoad
    <3>3. CASE Upset
      BY <3>1, <3>2, <3>3, LoadUpset
    <3>4. CASE cached = None /\ UNCHANGED upsets
      <4>1. ~Covered(h) /\ cached' = cached /\ Covered(h)'
        BY <1>2, <3>2, <3>4 DEF Recheck, Covered, redis
      <4>2. \A g \in Host \ {h} : Covered(g)' = Covered(g)
        BY <3>1, <4>1 DEF Covered
      <4> QED
        BY <1>1, <3>1, <3>4, <4>1, <4>2 DEF LoadInv, TypeOK
    <3>5. CASE cached # None /\ ~Upset
      <4>1. loads' = loads
        BY <1>2, <3>5 DEF Recheck
      <4> QED
        BY <1>1, <3>1, <4>1
    <3> QED
      BY <1>2, <3>3, <3>4, <3>5 DEF Recheck
  <2>2. CASE ~StartLoad(h)
    <3>1. UNCHANGED <<loads, upsets, cached>> /\ cached # None
      BY <1>2, <2>2 DEF Recheck, redis
    <3> QED
      BY <3>1, LoadQuiet DEF Covered
  <2> QED
    BY <2>1, <2>2
<1>3. CASE FoundReturns(h) \/ FillReturns(h)
  <2>1. UNCHANGED <<loads, upsets, cached>>
        /\ \A g \in Host : Covered(g) => Covered(g)'
    BY <1>1, <1>3 DEF FoundReturns, FillReturns, Finish, redis, history, Covered
  <2> QED
    BY <2>1, LoadQuiet
<1>4. CASE Load(h)
  <2>1. flight'[h].step = "backfill" /\ \A g \in Host \ {h} : flight'[g] = flight[g]
    BY <1>4, FlightUpdate DEF Load, TypeOK
  <2> QED
    BY <1>4, <2>1, LoadQuiet DEF Load, Covered, redis, history
<1>5. CASE Fill(h)
  <2>1. cached' # None /\ UNCHANGED <<loads, upsets>>
    BY <1>1, <1>5 DEF Fill, Store, history
  <2> QED
    BY <2>1, LoadQuiet DEF Covered
<1>6. CASE LoadFails(h) \/ FillFails(h)
  BY <1>6, LoadUpset DEF LoadFails, FillFails
<1> QED
  BY <1>2, <1>3, <1>4, <1>5, <1>6 DEF FlightStep

\* So do Redis, the writers and the callers, who load nothing.
LEMMA LoadOthers ==
    ASSUME CacheInv, LoadInv,
           \/ Expire \/ \E v \in late : ServeLate(v)
           \/ \E w \in Writer : Write(w) \/ Delete(w) \/ Set(w) \/ RefreshFails(w)
           \/ \E c \in Caller : GetOrLoad(c) \/ CtxDone(c) \/ CallerStep(c)
    PROVE  LoadInv'
<1>1. CASE Expire \/ \E w \in Writer : Delete(w)
  <2>1. Upset /\ loads' = loads
    BY <1>1 DEF Expire, Delete
  <2>2. ASSUME NEW h \in Host PROVE LoadInv'
    BY <2>1, <2>2, LoadUpset
  <2>3. CASE Host = {}
    BY <2>3 DEF LoadInv
  <2> QED
    BY <2>2, <2>3
<1>2. CASE \/ \E v \in late : ServeLate(v)
           \/ \E w \in Writer : Set(w)
  <2>1. cached' # None /\ UNCHANGED <<loads, upsets>>
    BY <1>2 DEF ServeLate, Set, Store, history, CacheInv, TypeOK
  <2> QED
    BY <2>1, LoadQuiet DEF Covered
<1>3. CASE \E w \in Writer : Write(w) \/ RefreshFails(w)
  <2>1. UNCHANGED <<cached, flight, loads, upsets>>
    BY <1>3 DEF Write, RefreshFails, redis, flights, history
  <2> QED
    BY <2>1, LoadQuiet DEF Covered
<1>4. ASSUME NEW c \in Caller, GetOrLoad(c) \/ CtxDone(c) \/ CallerStep(c) PROVE LoadInv'
  <2>1. UNCHANGED <<cached, loads, upsets>>
    BY <1>4 DEF GetOrLoad, CtxDone, CallerStep, GetReturns, GetFails, Join, GiveUp, Take, redis,
                history
  <2>2. CASE flight' = flight
    BY <2>1, <2>2, LoadQuiet DEF Covered
  <2>3. CASE flight' # flight
    <3>1. Join(c)
      BY <1>4, <2>3 DEF GetOrLoad, CtxDone, CallerStep, GetReturns, GetFails, GiveUp, Take, flights
    <3>2. flight[HostOf[c]].step = "none" /\ \E k \in TTLs :
             flight' = [flight EXCEPT ![HostOf[c]] = [step |-> "recheck", val |-> None, ttl |-> k]]
      BY <2>3, <3>1 DEF Join
    <3>3. flight \in [Host -> Flights] /\ HostOf[c] \in Host
      BY CacheAssumption DEF CacheInv, TypeOK
    <3>4. \A h \in Host : h # HostOf[c] => flight'[h] = flight[h]
      BY <3>2, <3>3
    <3> QED
      BY <2>1, <3>2, <3>4, LoadQuiet DEF Covered
  <2> QED
    BY <2>2, <2>3
<1> QED
  BY <1>1, <1>2, <1>3, <1>4

\* A host loads once, and once more for each expiry, deletion or failure at most.
THEOREM NoExtraLoadHolds == Spec => []NoExtraLoad
<1>1. Init => LoadInv
  BY DEF Init, LoadInv
<1>2. LoadInv /\ CacheInv /\ [Next]_vars => LoadInv'
  <2> SUFFICES ASSUME LoadInv, CacheInv, [Next]_vars PROVE LoadInv'
    OBVIOUS
  <2>1. CASE UNCHANGED vars
    BY <2>1, LoadQuiet DEF Covered, vars, redis, flights, history
  <2> QED
    BY <2>1, LoadOthers, LoadFlight DEF Next
<1>3. LoadInv /\ CacheInv => NoExtraLoad
  BY CacheAssumption DEF LoadInv, CacheInv, TypeOK, NoExtraLoad
<1> QED
  BY <1>1, <1>2, <1>3, CacheTypes, PTL DEF Spec

-----------------------------------------------------------------------------
(* Errors.  A flight that ends without a value does so because the loader failed.  *)

Blame ==
    /\ WaitersIndependent
    /\ \A c \in Caller : pc[c] = "answered" /\ result[c] = None => broken

\* A flight that ends with a value blames nobody.
LEMMA BlameFinish ==
    ASSUME CacheInv, Blame, NEW h \in Host, NEW v, Finish(h, v), v # None \/ broken',
           broken => broken'
    PROVE  Blame'
BY DEF Blame, WaitersIndependent, Finish, CacheInv, TypeOK

\* Every step keeps errors explained.
LEMMA BlameStep ==
    ASSUME CacheInv, Blame, [Next]_vars
    PROVE  Blame'
<1> USE DEF CacheInv
<1>1. broken \in BOOLEAN /\ pc \in [Caller -> {"idle", "get", "missed", "waiting", "answered"}]
      /\ done \in [Caller -> BOOLEAN] /\ result \in [Caller -> Versions \cup {None}]
      /\ outcome \in [Caller -> {"none", "value", "failed", "load_failed", "canceled"}]
  BY DEF TypeOK
<1>2. ASSUME UNCHANGED <<caller, broken>> PROVE Blame'
  BY <1>2 DEF Blame, WaitersIndependent, caller
<1>3. CASE UNCHANGED vars
  BY <1>2, <1>3 DEF vars, history
<1>4. CASE \/ Expire \/ \E v \in late : ServeLate(v)
           \/ \E w \in Writer : Write(w) \/ Delete(w) \/ Set(w) \/ RefreshFails(w)
  BY <1>2, <1>4 DEF Expire, ServeLate, Write, Delete, Set, RefreshFails, history
<1>5. ASSUME NEW c \in Caller, GetOrLoad(c) \/ CtxDone(c) \/ Join(c) PROVE Blame'
  BY <1>1, <1>5 DEF GetOrLoad, CtxDone, Join, Blame, WaitersIndependent, history
<1>6. ASSUME NEW c \in Caller, NEW o, NEW v, Return(c, o, v), broken => broken',
             o = "canceled" => done[c], o = "load_failed" => broken'
      PROVE  Blame'
  BY <1>1, <1>6 DEF Return, Blame, WaitersIndependent
<1>7. ASSUME NEW c \in Caller, GetReturns(c) PROVE Blame'
  <2>1. CASE pc' = [pc EXCEPT ![c] = "missed"] /\ UNCHANGED <<done, result, outcome>>
    BY <1>1, <1>7, <2>1 DEF GetReturns, Blame, WaitersIndependent, history
  <2>2. CASE Return(c, "value", cached) \/ (done[c] /\ Return(c, "canceled", None))
    BY <1>6, <1>7, <2>2 DEF GetReturns, history
  <2> QED
    BY <1>7, <2>1, <2>2 DEF GetReturns
<1>8. ASSUME NEW c \in Caller, GetFails(c) \/ GiveUp(c) \/ Take(c) PROVE Blame'
  BY <1>6, <1>8 DEF GetFails, GiveUp, Take, Blame, history
<1>9. ASSUME NEW h \in Host, Recheck(h) \/ Load(h) \/ Fill(h) PROVE Blame'
  BY <1>2, <1>9 DEF Recheck, Load, Fill, history
<1>10. ASSUME NEW h \in Host, FoundReturns(h) \/ FillReturns(h) \/ LoadFails(h) \/ FillFails(h)
       PROVE  Blame'
  <2>1. flight[h].step \in {"found", "filled", "backfill"} => flight[h].val # None
    BY DEF FlightHolds
  <2> QED
    BY <1>10, <2>1, BlameFinish DEF FoundReturns, FillReturns, LoadFails, FillFails, history
<1> QED
  BY <1>3, <1>4, <1>5, <1>7, <1>8, <1>9, <1>10 DEF Next, CallerStep, FlightStep

\* Nobody is answered an error for another caller's context.
THEOREM WaitersIndependentHolds == Spec => []WaitersIndependent
<1>1. Init => Blame
  BY DEF Init, Blame, WaitersIndependent
<1>2. Blame /\ CacheInv /\ [Next]_vars => Blame'
  BY BlameStep
<1>3. Blame => WaitersIndependent
  BY DEF Blame
<1> QED
  BY <1>1, <1>2, <1>3, CacheTypes, PTL DEF Spec

=============================================================================
