----------------------------- MODULE LabProofs -----------------------------
(***************************************************************************)
(* Proofs about the application patterns of lab 06 and the watchdog of lab *)
(* 05, for any number of actors: the breaker, the hot key, the guarded     *)
(* user and the limiters; then the lock that is kept alive.  The first two *)
(* count: how many calls or readers are under way bounds how much can      *)
(* still go wrong, and the invariant says how much of the bound they have  *)
(* left.  The limiters and the watchdog are about time.                    *)
(***************************************************************************)
EXTENDS CircuitBreaker, HotKey, UserCache, LabLimiters, Watchdog, FiniteSetTheorems, TLAPS

-----------------------------------------------------------------------------
(* Counting: a set of actors changes by at most the actor that takes the step. *)

\* A set that lost one member, or kept what it had.
LEMMA CountLess ==
    ASSUME NEW S, NEW x, IsFiniteSet(S), x \in S
    PROVE  /\ IsFiniteSet(S \ {x})
           /\ Cardinality(S \ {x}) = Cardinality(S) - 1
           /\ Cardinality(S) \in Nat /\ Cardinality(S) >= 1
           /\ Cardinality(S \ {x}) \in Nat
<1>1. IsFiniteSet(S \ {x}) /\ Cardinality(S \ {x}) = Cardinality(S) - 1
    BY FS_RemoveElement
<1>2. Cardinality(S) \in Nat /\ Cardinality(S \ {x}) \in Nat
    BY <1>1, FS_CardinalityType
<1> QED BY <1>1, <1>2

\* A set that got one member more.
LEMMA CountMore ==
    ASSUME NEW S, NEW x, IsFiniteSet(S), x \notin S
    PROVE  /\ IsFiniteSet(S \cup {x})
           /\ Cardinality(S \cup {x}) = Cardinality(S) + 1
           /\ Cardinality(S) \in Nat
BY FS_AddElement, FS_CardinalityType, SMT

\* A set that differs from another one in one member at most.
LEMMA OneDiffers ==
    ASSUME NEW A, NEW B, NEW x, IsFiniteSet(A), A \ {x} = B \ {x}
    PROVE  /\ IsFiniteSet(B) /\ Cardinality(A) \in Nat /\ Cardinality(B) \in Nat
           /\ Cardinality(B) = Cardinality(A)
                 + (IF x \in B THEN 1 ELSE 0) - (IF x \in A THEN 1 ELSE 0)
<1>1. CASE (x \in A) <=> (x \in B)
    <2>1. A = B BY <1>1
    <2> QED BY <2>1, FS_CardinalityType
<1>2. CASE x \in A /\ x \notin B
    <2>1. B = A \ {x} BY <1>2
    <2>2. /\ IsFiniteSet(B) /\ Cardinality(B) = Cardinality(A) - 1
          /\ Cardinality(A) \in Nat /\ Cardinality(B) \in Nat
        BY <1>2, <2>1, CountLess
    <2> QED BY <1>2, <2>2
<1>3. CASE x \notin A /\ x \in B
    <2>1. B = A \cup {x} BY <1>3
    <2>2. /\ IsFiniteSet(B) /\ Cardinality(B) = Cardinality(A) + 1
          /\ Cardinality(A) \in Nat
        BY <1>3, <2>1, CountMore
    <2> QED BY <1>3, <2>2, FS_CardinalityType
<1> QED BY <1>1, <1>2, <1>3

\* The members of S that f puts at one of the places Q.
At(S, f, Q) == {x \in S : f[x] \in Q}

\* One member moves: who is at Q changes by that member.
LEMMA OneMoves ==
    ASSUME NEW S, NEW Q, NEW f, NEW g, NEW x \in S, IsFiniteSet(At(S, f, Q)),
           \A y \in S \ {x} : g[y] = f[y]
    PROVE  /\ IsFiniteSet(At(S, g, Q))
           /\ Cardinality(At(S, f, Q)) \in Nat /\ Cardinality(At(S, g, Q)) \in Nat
           /\ Cardinality(At(S, g, Q)) = Cardinality(At(S, f, Q))
                 + (IF g[x] \in Q THEN 1 ELSE 0) - (IF f[x] \in Q THEN 1 ELSE 0)
<1>1. At(S, f, Q) \ {x} = At(S, g, Q) \ {x} BY DEF At
<1>2. (x \in At(S, f, Q) <=> f[x] \in Q) /\ (x \in At(S, g, Q) <=> g[x] \in Q) BY DEF At
<1> QED BY <1>1, <1>2, OneDiffers

\* Two disjoint parts of a finite set count for no more than it.
LEMMA CountParts ==
    ASSUME NEW S, IsFiniteSet(S), NEW A \in SUBSET S, NEW B \in SUBSET S, A \cap B = {}
    PROVE  /\ Cardinality(A) \in Nat /\ Cardinality(B) \in Nat /\ Cardinality(S) \in Nat
           /\ Cardinality(A) + Cardinality(B) <= Cardinality(S)
<1>1. IsFiniteSet(A) /\ IsFiniteSet(B) BY FS_Subset
<1>2. /\ IsFiniteSet(A \cup B) /\ A \cap B = {}
      /\ Cardinality(A \cup B) = Cardinality(A) + Cardinality(B) - Cardinality(A \cap B)
    BY <1>1, FS_Union
<1>3. Cardinality(A \cup B) <= Cardinality(S) BY FS_Subset
<1>4. Cardinality(A \cap B) = 0 BY <1>2, FS_EmptySet
<1> QED BY <1>1, <1>2, <1>3, <1>4, FS_CardinalityType

-----------------------------------------------------------------------------
(* The breaker. *)

Calling == Cardinality(At(Caller, call, {"calling"}))
Failed == Cardinality(At(Caller, call, {"failed"}))
All == Cardinality(Caller)

\* While the breaker is closed every strike was counted, is about to be reported, or
\* was lost to an error of Redis.  While it is open only the calls that passed before
\* can still strike; afterwards it starts over.
BreakerInv ==
    /\ BreakerTypeOK
    /\ open => strikes + Calling <= Threshold - 1 + All + slips
    /\ ~open => strikes <= failures + Failed + slips

\* The calls under way are finitely many, and each is at one place.
LEMMA CallsCounted ==
    ASSUME NEW f
    PROVE  LET A == At(Caller, f, {"calling"})
               B == At(Caller, f, {"failed"})
           IN  /\ IsFiniteSet(A) /\ IsFiniteSet(B)
               /\ Cardinality(A) \in Nat /\ Cardinality(B) \in Nat
               /\ Cardinality(Caller) \in Nat
               /\ Cardinality(A) + Cardinality(B) <= Cardinality(Caller)
<1> DEFINE A == At(Caller, f, {"calling"})
           B == At(Caller, f, {"failed"})
<1>1. A \in SUBSET Caller /\ B \in SUBSET Caller /\ A \cap B = {}
    BY DEF At
<1> HIDE DEF A, B
<1>2. IsFiniteSet(A) /\ IsFiniteSet(B)
    BY <1>1, CallerAssumption, FS_Subset
<1> QED BY <1>1, <1>2, CallerAssumption, CountParts DEF A, B

\* Every step keeps the types.
LEMMA BreakerTypeStep == BreakerTypeOK /\ [BreakerNext]_breakerVars => BreakerTypeOK'
<1> SUFFICES ASSUME BreakerTypeOK, [BreakerNext]_breakerVars PROVE BreakerTypeOK'
    OBVIOUS
<1> USE ThresholdAssumption, SlipsAssumption DEF BreakerTypeOK, Goes
<1>1. CASE OpenExpires BY <1>1 DEF OpenExpires
<1>2. CASE FailuresExpire BY <1>2 DEF FailuresExpire
<1>3. ASSUME NEW c \in Caller, Allow(c) PROVE BreakerTypeOK' BY <1>3 DEF Allow
<1>4. ASSUME NEW c \in Caller, Downstream(c) PROVE BreakerTypeOK' BY <1>4 DEF Downstream
<1>5. ASSUME NEW c \in Caller, OnSuccess(c) PROVE BreakerTypeOK' BY <1>5 DEF OnSuccess
<1>6. ASSUME NEW c \in Caller, OnFailure(c) PROVE BreakerTypeOK'
    <2>1. open' \in BOOLEAN BY <1>6, Zenon DEF OnFailure, CountFailure
    <2>2. failures' \in 0..(Threshold - 1) BY <1>6 DEF OnFailure, CountFailure
    <2>3. strikes' \in Nat /\ slips' \in 0..MaxSlips
          /\ call' \in [Caller -> {"none", "calling", "succeeded", "failed"}]
        BY <1>6 DEF OnFailure
    <2> QED BY <2>1, <2>2, <2>3
<1>7. ASSUME NEW c \in Caller, ReportFails(c) PROVE BreakerTypeOK' BY <1>7 DEF ReportFails
<1>8. CASE UNCHANGED breakerVars BY <1>8 DEF breakerVars
<1> QED BY <1>1, <1>2, <1>3, <1>4, <1>5, <1>6, <1>7, <1>8 DEF BreakerNext

\* A call that goes to next: how many are calling, and how many have failed, afterwards.
LEMMA CallMoves ==
    ASSUME BreakerTypeOK, NEW c \in Caller, NEW next, Goes(c, next)
    PROVE  /\ Calling' = Calling
                 + (IF next = "calling" THEN 1 ELSE 0) - (IF call[c] = "calling" THEN 1 ELSE 0)
           /\ Failed' = Failed
                 + (IF next = "failed" THEN 1 ELSE 0) - (IF call[c] = "failed" THEN 1 ELSE 0)
<1>1. call'[c] = next /\ \A d \in Caller \ {c} : call'[d] = call[d]
    BY DEF BreakerTypeOK, Goes
<1>2. IsFiniteSet(At(Caller, call, {"calling"})) /\ IsFiniteSet(At(Caller, call, {"failed"}))
    BY CallsCounted
<1>3. /\ Calling' = Cardinality(At(Caller, call', {"calling"}))
      /\ Failed' = Cardinality(At(Caller, call', {"failed"}))
    BY DEF Calling, Failed
<1>4. ASSUME NEW Q, IsFiniteSet(At(Caller, call, Q))
      PROVE  Cardinality(At(Caller, call', Q)) = Cardinality(At(Caller, call, Q))
                + (IF call'[c] \in Q THEN 1 ELSE 0) - (IF call[c] \in Q THEN 1 ELSE 0)
    BY <1>1, <1>4, OneMoves
<1> QED BY <1>1, <1>2, <1>3, <1>4 DEF Calling, Failed

\* The sums of BreakerInv: a further slip only adds room; the failure that opens the
\* breaker, the f-th of f <= t - 1 counted ones and k unreported, leaves room for c calls.
LEMMA BreakerSums ==
    ASSUME NEW s \in Nat, NEW f \in Nat, NEW k \in Nat, NEW c \in Nat, NEW n \in Nat,
           NEW b \in Nat, NEW b1 \in Nat, NEW t \in Nat,
           t >= 1, f <= t - 1, c + k <= n, b <= b1
    PROVE  s <= f + k + b => s <= f + k + b1 /\ s + c <= t - 1 + n + b1
OBVIOUS

\* Every step keeps what BreakerInv counts.
LEMMA BreakerStep == BreakerInv /\ [BreakerNext]_breakerVars => BreakerInv'
<1> SUFFICES ASSUME BreakerInv, [BreakerNext]_breakerVars PROVE BreakerInv'
    OBVIOUS
<1> DEFINE Counted ==
              /\ open' => strikes' + Calling' <= Threshold - 1 + All + slips'
              /\ ~open' => strikes' <= failures' + Failed' + slips'
<1>a. BreakerTypeOK /\ BreakerTypeOK'
    BY BreakerTypeStep DEF BreakerInv
<1>b. /\ open \in BOOLEAN /\ open' \in BOOLEAN
      /\ strikes \in Nat /\ slips \in Nat /\ failures \in Nat /\ failures <= Threshold - 1
      /\ strikes' \in Nat /\ slips' \in Nat /\ failures' \in Nat
      /\ Threshold \in Nat /\ Threshold >= 1
    BY <1>a, ThresholdAssumption, SlipsAssumption DEF BreakerTypeOK
<1>c. Calling \in Nat /\ Failed \in Nat /\ All \in Nat /\ Calling + Failed <= All
    BY CallsCounted DEF Calling, Failed, All
<1>d. Calling' \in Nat /\ Failed' \in Nat /\ Calling' + Failed' <= All
    BY CallsCounted DEF Calling, Failed, All
<1>e. UNCHANGED call => Calling' = Calling /\ Failed' = Failed
    BY DEF Calling, Failed
<1>f. SUFFICES Counted BY <1>a DEF BreakerInv, All
<1>g. /\ open => strikes + Calling <= Threshold - 1 + All + slips
      /\ ~open => strikes <= failures + Failed + slips
    BY DEF BreakerInv, All
<1> USE <1>b, <1>c, <1>d, <1>g
<1>1. CASE OpenExpires BY <1>1, <1>e DEF OpenExpires
<1>2. CASE FailuresExpire BY <1>2, <1>e DEF FailuresExpire
<1>3. ASSUME NEW c \in Caller, Allow(c) PROVE Counted
    <2>1. Calling' = Calling + 1 /\ Failed' = Failed BY <1>3, <1>a, CallMoves DEF Allow
    <2>2. (open' <=> open) /\ strikes' = strikes /\ failures' = failures
          /\ ((~open /\ slips' = slips) \/ slips' = slips + 1)
        BY <1>3, Zenon DEF Allow
    <2>3. slips <= slips' BY <2>2
    <2>4. ~open' => strikes' <= failures' + Failed' + slips'
        BY <2>1, <2>2, <2>3, BreakerSums
    <2>5. open' => strikes' + Calling' <= Threshold - 1 + All + slips'
        BY <2>1, <2>2
    <2> QED BY <2>4, <2>5
<1>4. ASSUME NEW c \in Caller, Downstream(c) PROVE Counted
    <2>1. CASE Goes(c, "succeeded") /\ UNCHANGED strikes
        <3>1. Calling' = Calling - 1 /\ Failed' = Failed
            BY <1>4, <2>1, <1>a, CallMoves DEF Downstream
        <3> QED BY <1>4, <2>1, <3>1 DEF Downstream
    <2>2. CASE Goes(c, "failed") /\ strikes' = strikes + 1
        <3>1. Calling' = Calling - 1 /\ Failed' = Failed + 1
            BY <1>4, <2>2, <1>a, CallMoves DEF Downstream
        <3> QED BY <1>4, <2>2, <3>1 DEF Downstream
    <2> QED BY <1>4, <2>1, <2>2 DEF Downstream
<1>5. ASSUME NEW c \in Caller, OnSuccess(c) PROVE Counted
    <2>1. strikes' = 0 /\ failures' = 0 /\ slips' = slips BY <1>5 DEF OnSuccess
    <2>2. ASSUME NEW m \in Nat, NEW k \in Nat, NEW n \in Nat, NEW t \in Nat, NEW b \in Nat,
                 m + k <= n, t >= 1
          PROVE  0 + m <= t - 1 + n + b /\ 0 <= 0 + k + b
        BY ONLY <2>2
    <2>3. 0 <= 0 + Failed' + slips /\ 0 + Calling' <= Threshold - 1 + All + slips BY <2>2
    <2> QED BY <2>1, <2>3
<1>6. ASSUME NEW c \in Caller, OnFailure(c) PROVE Counted
    <2>1. CASE Goes(c, "none") /\ UNCHANGED slips
        <3>1. Calling' = Calling /\ Failed' = Failed - 1
            BY <1>6, <2>1, <1>a, CallMoves DEF OnFailure
        <3>2. ~open => strikes + Calling <= Threshold - 1 + All + slips BY BreakerSums
        <3>3. CASE failures + 1 >= Threshold
            <4>1. open' /\ UNCHANGED <<strikes, slips>>
                BY <1>6, <2>1, <3>3, Zenon DEF OnFailure, CountFailure
            <4> QED BY <3>1, <3>2, <4>1
        <3>4. CASE ~(failures + 1 >= Threshold)
            <4>1. (open' <=> open) /\ failures' = failures + 1 /\ UNCHANGED <<strikes, slips>>
                BY <1>6, <2>1, <3>4, Zenon DEF OnFailure, CountFailure
            <4> QED BY <3>1, <4>1
        <3> QED BY <3>3, <3>4
    <2>2. CASE slips' = slips + 1 /\ UNCHANGED call
        <3>1. Calling' = Calling /\ Failed' = Failed BY <2>2, <1>e
        <3>2. ~open => strikes + Calling <= Threshold - 1 + All + slips BY BreakerSums
        <3>3. CASE failures + 1 >= Threshold
            <4>1. open' /\ UNCHANGED strikes
                BY <1>6, <3>3, Zenon DEF OnFailure, CountFailure
            <4> QED BY <2>2, <3>1, <3>2, <4>1
        <3>4. CASE ~(failures + 1 >= Threshold)
            <4>1. (open' <=> open) /\ failures' = failures + 1 /\ UNCHANGED strikes
                BY <1>6, <3>4, Zenon DEF OnFailure, CountFailure
            <4> QED BY <2>2, <3>1, <4>1
        <3> QED BY <3>3, <3>4
    <2> QED BY <1>6, <2>1, <2>2 DEF OnFailure
<1>7. ASSUME NEW c \in Caller, ReportFails(c) PROVE Counted
    <2>1. Calling' = Calling /\ Failed' = Failed - (IF call[c] = "failed" THEN 1 ELSE 0)
        BY <1>7, <1>a, CallMoves DEF ReportFails
    <2> QED BY <1>7, <2>1 DEF ReportFails
<1>8. CASE UNCHANGED breakerVars BY <1>8, <1>e DEF breakerVars
<1> QED BY <1>1, <1>2, <1>3, <1>4, <1>5, <1>6, <1>7, <1>8 DEF BreakerNext

\* A closed breaker nobody calls.
LEMMA BreakerStarts == BreakerInit => BreakerInv
<1> SUFFICES ASSUME BreakerInit PROVE BreakerInv
    OBVIOUS
<1>1. BreakerTypeOK
    <2>1. open \in BOOLEAN BY Zenon DEF BreakerInit
    <2> QED BY <2>1, ThresholdAssumption, SlipsAssumption DEF BreakerInit, BreakerTypeOK
<1>2. Failed \in Nat BY CallsCounted DEF Failed
<1> QED BY <1>1, <1>2 DEF BreakerInit, BreakerInv

\* The inductive invariant of the breaker (Call, allow, onSuccess, onFailure).
THEOREM BreakerInvariant == BreakerSpec => []BreakerInv
BY BreakerStarts, BreakerStep, PTL DEF BreakerSpec

\* The account of strikes bounds what the downstream is sent.
LEMMA BreakerInvSpares == BreakerInv => DownstreamSpared
BY CallsCounted, ThresholdAssumption
   DEF BreakerInv, BreakerTypeOK, DownstreamSpared, Calling, Failed, All

\* The breaker spares the downstream: since it last started over at most Threshold - 1
\* failures, one more of each call under way and one per error of Redis.
THEOREM DownstreamSparedHolds == BreakerSpec => []DownstreamSpared
BY BreakerInvSpares, BreakerInvariant, PTL

-----------------------------------------------------------------------------
(* The hot key. *)

HasLock == {"recheck", "load", "store"}
KeyHolders == Cardinality(At(Reader, at, HasLock))
ToLoad == Cardinality(At(Reader, at, {"recheck", "load"}))
Loading == Cardinality(At(Reader, at, {"load"}))

\* 1 while a reader who is not at it yet may get the lock.
Open == IF rebuild \in At(Reader, at, HasLock) THEN 0 ELSE 1

\* Who got the lock and did not finish, or may get it, is one, and one more per upset;
\* the same room bounds the loads done and to come: while the value is missing those
\* who still have to look again count, while it is there only those who do load.
HotInv ==
    /\ HotTypeOK
    /\ IsFiniteSet(At(Reader, at, HasLock))
    /\ KeyHolders + Open <= 1 + upsets
    /\ hot => loads + Loading <= 1 + upsets
    /\ ~hot => loads + ToLoad + Open <= 1 + upsets

\* Every step keeps the types.
LEMMA HotTypeStep == HotTypeOK /\ [HotNext]_hotVars => HotTypeOK'
<1> SUFFICES ASSUME HotTypeOK, [HotNext]_hotVars PROVE HotTypeOK'
    OBVIOUS
<1>b. hot' \in BOOLEAN
    BY Zenon DEF HotTypeOK, HotNext, hotVars, HotExpires, LockExpires, FirstLook, TryLock,
        SecondLook, Recheck, Load, Store, Unlock
<1>n. HotTypeOK => upsets \in Nat /\ (Upset => upsets' \in 0..MaxUpsets)
    BY UpsetsAssumption DEF HotTypeOK, Upset
<1> USE UpsetsAssumption, <1>b, <1>n DEF HotTypeOK, To
<1>1. CASE HotExpires BY <1>1 DEF HotExpires
<1>2. CASE LockExpires BY <1>2 DEF LockExpires
<1>3. ASSUME NEW r \in Reader, FirstLook(r) PROVE HotTypeOK' BY <1>3 DEF FirstLook
<1>4. ASSUME NEW r \in Reader, TryLock(r) PROVE HotTypeOK' BY <1>4 DEF TryLock
<1>5. ASSUME NEW r \in Reader, SecondLook(r) PROVE HotTypeOK' BY <1>5 DEF SecondLook
<1>6. ASSUME NEW r \in Reader, Recheck(r) PROVE HotTypeOK' BY <1>6 DEF Recheck
<1>7. ASSUME NEW r \in Reader, Load(r) PROVE HotTypeOK' BY <1>7 DEF Load
<1>8. ASSUME NEW r \in Reader, Store(r) PROVE HotTypeOK' BY <1>8 DEF Store
<1>9. ASSUME NEW r \in Reader, Unlock(r) PROVE HotTypeOK' BY <1>9 DEF Unlock
<1>10. CASE UNCHANGED hotVars BY <1>10 DEF hotVars
<1> QED BY <1>1, <1>2, <1>3, <1>4, <1>5, <1>6, <1>7, <1>8, <1>9, <1>10 DEF HotNext

\* The readers at work are finitely many when those who got the lock are.
LEMMA ReadersCounted ==
    ASSUME NEW f, IsFiniteSet(At(Reader, f, HasLock))
    PROVE  /\ IsFiniteSet(At(Reader, f, {"recheck", "load"}))
           /\ IsFiniteSet(At(Reader, f, {"load"}))
           /\ Cardinality(At(Reader, f, HasLock)) \in Nat
           /\ Cardinality(At(Reader, f, {"recheck", "load"})) \in Nat
           /\ Cardinality(At(Reader, f, {"load"})) \in Nat
           /\ Cardinality(At(Reader, f, {"load"}))
                  <= Cardinality(At(Reader, f, {"recheck", "load"}))
           /\ Cardinality(At(Reader, f, {"recheck", "load"})) <= Cardinality(At(Reader, f, HasLock))
<1> DEFINE A == At(Reader, f, HasLock)
           B == At(Reader, f, {"recheck", "load"})
           C == At(Reader, f, {"load"})
<1>1. B \in SUBSET A /\ C \in SUBSET A /\ C \in SUBSET B
    BY DEF At, HasLock
<1> HIDE DEF A, B, C
<1>2. IsFiniteSet(A) BY DEF A
<1>3. IsFiniteSet(B) /\ IsFiniteSet(C) BY <1>1, <1>2, FS_Subset
<1>4. Cardinality(C) <= Cardinality(B) /\ Cardinality(B) <= Cardinality(A)
    BY <1>1, <1>2, <1>3, FS_Subset
<1> QED BY <1>2, <1>3, <1>4, FS_CardinalityType DEF A, B, C

\* A reader that goes to next: how the three counts change.
LEMMA ReaderMoves ==
    ASSUME HotTypeOK, IsFiniteSet(At(Reader, at, HasLock)), NEW r \in Reader, NEW next, To(r, next)
    PROVE  /\ IsFiniteSet(At(Reader, at', HasLock))
           /\ KeyHolders' = KeyHolders + (IF next \in HasLock THEN 1 ELSE 0)
                               - (IF at[r] \in HasLock THEN 1 ELSE 0)
           /\ ToLoad' = ToLoad + (IF next \in {"recheck", "load"} THEN 1 ELSE 0)
                               - (IF at[r] \in {"recheck", "load"} THEN 1 ELSE 0)
           /\ Loading' = Loading + (IF next \in {"load"} THEN 1 ELSE 0)
                                 - (IF at[r] \in {"load"} THEN 1 ELSE 0)
<1>1. at'[r] = next /\ \A q \in Reader \ {r} : at'[q] = at[q]
    BY DEF HotTypeOK, To
<1>2. IsFiniteSet(At(Reader, at, {"recheck", "load"})) /\ IsFiniteSet(At(Reader, at, {"load"}))
    BY ReadersCounted
<1>3. /\ KeyHolders' = Cardinality(At(Reader, at', HasLock))
      /\ ToLoad' = Cardinality(At(Reader, at', {"recheck", "load"}))
      /\ Loading' = Cardinality(At(Reader, at', {"load"}))
    BY DEF KeyHolders, ToLoad, Loading, HasLock
<1>4. ASSUME NEW Q, IsFiniteSet(At(Reader, at, Q))
      PROVE  /\ IsFiniteSet(At(Reader, at', Q))
             /\ Cardinality(At(Reader, at', Q)) = Cardinality(At(Reader, at, Q))
                   + (IF at'[r] \in Q THEN 1 ELSE 0) - (IF at[r] \in Q THEN 1 ELSE 0)
    BY <1>1, <1>4, OneMoves
<1>5. /\ IsFiniteSet(At(Reader, at', HasLock))
      /\ KeyHolders' = KeyHolders + (IF at'[r] \in HasLock THEN 1 ELSE 0)
                           - (IF at[r] \in HasLock THEN 1 ELSE 0)
    BY <1>3, <1>4 DEF KeyHolders
<1>6. ToLoad' = ToLoad + (IF at'[r] \in {"recheck", "load"} THEN 1 ELSE 0)
                       - (IF at[r] \in {"recheck", "load"} THEN 1 ELSE 0)
    BY <1>2, <1>3, <1>4 DEF ToLoad
<1>7. Loading' = Loading + (IF at'[r] \in {"load"} THEN 1 ELSE 0)
                         - (IF at[r] \in {"load"} THEN 1 ELSE 0)
    BY <1>2, <1>3, <1>4 DEF Loading
<1> QED BY <1>1, <1>5, <1>6, <1>7

\* The sums of HotInv: a reader that is through leaves its room to the next one, and an
\* upset adds room for one.
LEMMA HotSums ==
    ASSUME NEW a \in Nat, NEW b \in Nat, NEW c \in Nat, NEW l \in Nat, NEW u \in Nat,
           NEW o \in {0, 1}, NEW o1 \in {0, 1}
    PROVE  /\ a + o <= 1 + u => a - 1 + o1 <= 1 + u /\ a - 1 + o1 <= 1 + (u + 1)
                                /\ a + o <= 1 + (u + 1)
           /\ l + b + o <= 1 + u => /\ l + (b - 1) + o1 <= 1 + u /\ l + b + o <= 1 + (u + 1)
                                    /\ l + b + o1 <= 1 + (u + 1)
                                    /\ c <= b => l + c <= 1 + u
           /\ l + c <= 1 + u => l + (c - 1) <= 1 + u /\ l + c <= 1 + (u + 1)
OBVIOUS

\* Every step keeps what HotInv counts.
LEMMA HotStep == HotInv /\ [HotNext]_hotVars => HotInv'
<1> SUFFICES ASSUME HotInv, [HotNext]_hotVars PROVE HotInv'
    OBVIOUS
<1> DEFINE Finite == IsFiniteSet(At(Reader, at', HasLock))
           Got == KeyHolders' + Open' <= 1 + upsets'
           There == hot' => loads' + Loading' <= 1 + upsets'
           Missing == ~hot' => loads' + ToLoad' + Open' <= 1 + upsets'
           Goal == Finite /\ Got /\ There /\ Missing
<1>a. HotTypeOK /\ HotTypeOK' /\ IsFiniteSet(At(Reader, at, HasLock))
    BY HotTypeStep DEF HotInv
<1>b. /\ hot \in BOOLEAN /\ hot' \in BOOLEAN
      /\ loads \in Nat /\ loads' \in Nat /\ upsets \in Nat /\ upsets' \in Nat
    BY <1>a, UpsetsAssumption DEF HotTypeOK
<1>c. /\ KeyHolders \in Nat /\ ToLoad \in Nat /\ Loading \in Nat
      /\ Loading <= ToLoad /\ ToLoad <= KeyHolders
    BY <1>a, ReadersCounted DEF KeyHolders, ToLoad, Loading
<1>d. Open \in {0, 1} /\ Open' \in {0, 1}
    BY DEF Open
<1>e. /\ KeyHolders + Open <= 1 + upsets
      /\ hot => loads + Loading <= 1 + upsets
      /\ ~hot => loads + ToLoad + Open <= 1 + upsets
    BY DEF HotInv
<1>f. SUFFICES Goal BY <1>a DEF HotInv, HasLock
<1>g. UNCHANGED at => /\ Finite /\ KeyHolders' = KeyHolders /\ ToLoad' = ToLoad /\ Loading' = Loading
    BY <1>a DEF KeyHolders, ToLoad, Loading, HasLock
<1> USE <1>b, <1>c, <1>d, <1>e
<1>u. /\ KeyHolders + Open <= 1 + (upsets + 1)
      /\ hot => loads + Loading <= 1 + (upsets + 1)
      /\ ~hot => loads + ToLoad + Open <= 1 + (upsets + 1)
    BY HotSums
<1>v. /\ KeyHolders - 1 + Open' <= 1 + upsets
      /\ KeyHolders - 1 + Open' <= 1 + (upsets + 1)
      /\ hot => loads + (Loading - 1) <= 1 + upsets
      /\ ~hot => /\ loads + (ToLoad - 1) + Open' <= 1 + upsets
                 /\ loads + ToLoad + Open' <= 1 + (upsets + 1)
                 /\ loads + Loading <= 1 + upsets
    <2>1. ASSUME NEW o1 \in {0, 1}
          PROVE  /\ KeyHolders - 1 + o1 <= 1 + upsets
                 /\ KeyHolders - 1 + o1 <= 1 + (upsets + 1)
                 /\ hot => loads + (Loading - 1) <= 1 + upsets
                 /\ ~hot => /\ loads + (ToLoad - 1) + o1 <= 1 + upsets
                            /\ loads + ToLoad + o1 <= 1 + (upsets + 1)
                            /\ loads + Loading <= 1 + upsets
        BY HotSums
    <2> QED BY <2>1
<1>1. CASE HotExpires
    <2>1. Open' = Open BY <1>1 DEF HotExpires, Open, HasLock
    <2>2. loads' = 0 /\ hot' = FALSE /\ upsets' = upsets BY <1>1 DEF HotExpires
    <2>3. UNCHANGED at BY <1>1 DEF HotExpires
    <2> QED BY <1>g, <2>1, <2>2, <2>3
<1>2. CASE LockExpires
    <2>1. Open' = 1 BY <1>2, LockTokens DEF LockExpires, Open, At
    <2>2. (hot' <=> hot) /\ loads' = loads /\ UNCHANGED at BY <1>2 DEF LockExpires
    <2>3. CASE Open = 0
        <3>1. upsets' = upsets + 1
            BY <1>2, <2>3, LockTokens DEF LockExpires, Open, At, HasLock, Upset
        <3> QED BY <1>g, <2>1, <2>2, <2>3, <3>1
    <2>4. CASE Open = 1
        <3>1. upsets' = upsets \/ upsets' = upsets + 1 BY <1>2 DEF LockExpires, Upset
        <3> QED BY <1>g, <1>u, <2>1, <2>2, <2>4, <3>1
    <2> QED BY <2>3, <2>4
<1>m. ASSUME NEW r \in Reader, NEW next, To(r, next)
      PROVE  /\ Finite
             /\ KeyHolders' = KeyHolders + (IF next \in HasLock THEN 1 ELSE 0)
                                 - (IF at[r] \in HasLock THEN 1 ELSE 0)
             /\ ToLoad' = ToLoad + (IF next \in {"recheck", "load"} THEN 1 ELSE 0)
                                 - (IF at[r] \in {"recheck", "load"} THEN 1 ELSE 0)
             /\ Loading' = Loading + (IF next \in {"load"} THEN 1 ELSE 0)
                                   - (IF at[r] \in {"load"} THEN 1 ELSE 0)
             /\ rebuild' = rebuild /\ (next \in HasLock <=> at[r] \in HasLock) => Open' = Open
    <2>1. at'[r] = next /\ \A q \in Reader \ {r} : at'[q] = at[q]
        BY <1>a, <1>m DEF HotTypeOK, To
    <2>2. rebuild' = rebuild /\ (next \in HasLock <=> at[r] \in HasLock) => Open' = Open
        BY <2>1 DEF Open, At, HasLock
    <2> QED BY <1>a, <1>m, <2>2, ReaderMoves
<1>3. ASSUME NEW r \in Reader, FirstLook(r) \/ SecondLook(r) PROVE Goal
    <2>1. /\ Finite /\ KeyHolders' = KeyHolders /\ ToLoad' = ToLoad /\ Loading' = Loading
          /\ Open' = Open
        BY <1>3, <1>m DEF FirstLook, SecondLook, HasLock
    <2>2. (hot' <=> hot) /\ loads' = loads /\ upsets' = upsets
        BY <1>3, Zenon DEF FirstLook, SecondLook
    <2> QED BY <2>1, <2>2
<1>4. ASSUME NEW r \in Reader, TryLock(r) PROVE Goal
    <2>1. (hot' <=> hot) /\ loads' = loads
        BY <1>4, Zenon DEF TryLock
    <2>2. CASE rebuild = "free" /\ rebuild' = r /\ To(r, "recheck") /\ UNCHANGED upsets
        <3>1. Open = 1 BY <2>2, LockTokens DEF Open, At
        <3>2. at'[r] = "recheck" BY <1>a, <2>2 DEF HotTypeOK, To
        <3>3. Open' = 0 BY <2>2, <3>2 DEF Open, At, HasLock
        <3>4. /\ Finite /\ KeyHolders' = KeyHolders + 1 /\ ToLoad' = ToLoad + 1 /\ Loading' = Loading
            BY <1>4, <2>2, <1>m DEF TryLock, HasLock
        <3> QED BY <2>1, <2>2, <3>1, <3>3, <3>4
    <2>3. CASE rebuild = "free" /\ rebuild' = "orphan" /\ To(r, "backoff") /\ Upset
        <3>1. Open = 1 /\ Open' = 1 BY <2>3, LockTokens DEF Open, At
        <3>2. /\ Finite /\ KeyHolders' = KeyHolders /\ ToLoad' = ToLoad /\ Loading' = Loading
            BY <1>4, <2>3, <1>m DEF TryLock, HasLock
        <3> QED BY <2>1, <2>3, <3>1, <3>2 DEF Upset
    <2>4. CASE (To(r, "backoff") \/ To(r, "get")) /\ UNCHANGED <<rebuild, upsets>>
        <3>1. /\ Finite /\ KeyHolders' = KeyHolders /\ ToLoad' = ToLoad /\ Loading' = Loading
              /\ Open' = Open
            BY <1>4, <2>4, <1>m DEF TryLock, HasLock
        <3> QED BY <2>1, <2>4, <3>1
    <2> QED BY <1>4, <2>2, <2>3, <2>4 DEF TryLock
<1>5. ASSUME NEW r \in Reader, Recheck(r) PROVE Goal
    <2>1. (hot' <=> hot) /\ loads' = loads /\ rebuild' = rebuild /\ at[r] = "recheck"
        BY <1>5, Zenon DEF Recheck
    <2>2. CASE hot /\ To(r, "unlock") /\ UNCHANGED upsets
        <3>1. /\ Finite /\ KeyHolders' = KeyHolders - 1 /\ Loading' = Loading
            BY <2>1, <2>2, <1>m DEF HasLock
        <3> QED BY <1>v, <2>1, <2>2, <3>1
    <2>3. CASE To(r, "load") /\ ((~hot /\ UNCHANGED upsets) \/ (hot /\ Upset))
        <3>1. /\ Finite /\ KeyHolders' = KeyHolders /\ ToLoad' = ToLoad /\ Loading' = Loading + 1
              /\ Open' = Open
            BY <2>1, <2>3, <1>m DEF HasLock
        <3>2. CASE ~hot /\ UNCHANGED upsets BY <2>1, <3>1, <3>2
        <3>3. CASE hot /\ Upset
            <4>1. upsets' = upsets + 1 BY <3>3 DEF Upset
            <4>2. loads' + Loading' <= 1 + upsets' BY <2>1, <3>1, <3>3, <4>1
            <4>3. KeyHolders' + Open' <= 1 + upsets' BY <1>u, <3>1, <4>1
            <4> QED BY <2>1, <3>1, <3>3, <4>2, <4>3
        <3> QED BY ONLY <2>3, <3>2, <3>3, Zenon
    <2>4. \/ hot /\ To(r, "unlock") /\ UNCHANGED upsets
          \/ To(r, "load") /\ ((~hot /\ UNCHANGED upsets) \/ (hot /\ Upset))
        BY ONLY <1>5, Zenon DEF Recheck
    <2> QED BY ONLY <2>2, <2>3, <2>4, Zenon
<1>6. ASSUME NEW r \in Reader, Load(r) PROVE Goal
    <2>1. (hot' <=> hot) /\ upsets' = upsets /\ rebuild' = rebuild /\ at[r] = "load"
        BY <1>6, Zenon DEF Load
    <2>2. CASE To(r, "store") /\ loads' = loads + 1
        <3>1. /\ Finite /\ KeyHolders' = KeyHolders /\ ToLoad' = ToLoad - 1 /\ Loading' = Loading - 1
              /\ Open' = Open
            BY <2>1, <2>2, <1>m DEF HasLock
        <3> QED BY <2>1, <2>2, <3>1
    <2>3. CASE To(r, "unlock") /\ UNCHANGED loads
        <3>1. /\ Finite /\ KeyHolders' = KeyHolders - 1 /\ ToLoad' = ToLoad - 1 /\ Loading' = Loading - 1
            BY <2>1, <2>3, <1>m DEF HasLock
        <3> QED BY <1>v, <2>1, <2>3, <3>1
    <2> QED BY <1>6, <2>2, <2>3 DEF Load
<1>7. ASSUME NEW r \in Reader, Store(r) PROVE Goal
    <2>1. loads' = loads /\ rebuild' = rebuild /\ at[r] = "store" /\ To(r, "unlock")
        BY <1>7 DEF Store
    <2>2. /\ Finite /\ KeyHolders' = KeyHolders - 1 /\ ToLoad' = ToLoad /\ Loading' = Loading
        BY <2>1, <1>m DEF HasLock
    <2>3. CASE hot' = TRUE /\ UNCHANGED upsets BY <1>v, <2>1, <2>2, <2>3
    <2>4. CASE UNCHANGED hot /\ Upset BY <1>u, <1>v, <2>1, <2>2, <2>4 DEF Upset
    <2> QED BY <1>7, <2>3, <2>4 DEF Store
<1>8. ASSUME NEW r \in Reader, Unlock(r) PROVE Goal
    <2>1. (hot' <=> hot) /\ loads' = loads /\ upsets' = upsets /\ at[r] = "unlock" /\ To(r, "get")
        BY <1>8, Zenon DEF Unlock
    <2>2. /\ Finite /\ KeyHolders' = KeyHolders /\ ToLoad' = ToLoad /\ Loading' = Loading
        BY <2>1, <1>m DEF HasLock
    <2>3. CASE rebuild = r
        <3>1. Open = 1 BY <2>1, <2>3 DEF Open, At, HasLock
        <3>2. at'[r] = "get" BY <1>a, <2>1 DEF HotTypeOK, To
        <3>3. rebuild' \in {r, "free"} BY <1>8, <2>3 DEF Unlock
        <3>4. Open' = 1 BY <3>2, <3>3, LockTokens DEF Open, At, HasLock
        <3> QED BY <2>1, <2>2, <3>1, <3>4
    <2>4. CASE rebuild # r
        <3>1. Open' = Open BY <1>8, <2>1, <2>4, <1>m DEF Unlock, HasLock
        <3> QED BY <2>1, <2>2, <3>1
    <2> QED BY <2>3, <2>4
<1>9. CASE UNCHANGED hotVars
    <2>1. Open' = Open BY <1>9 DEF hotVars, Open, HasLock
    <2>2. (hot' <=> hot) /\ loads' = loads /\ upsets' = upsets /\ UNCHANGED at
        BY <1>9, Zenon DEF hotVars
    <2> QED BY <1>g, <2>1, <2>2
<1> QED BY <1>1, <1>2, <1>3, <1>4, <1>5, <1>6, <1>7, <1>8, <1>9 DEF HotNext

\* Nobody has the lock before the first reader.
LEMMA HotStarts == HotInit => HotInv
<1> SUFFICES ASSUME HotInit PROVE HotInv
    OBVIOUS
<1>1. At(Reader, at, HasLock) = {} /\ At(Reader, at, {"recheck", "load"}) = {}
    BY DEF HotInit, At, HasLock
<1>2. IsFiniteSet(At(Reader, at, HasLock)) /\ KeyHolders = 0 /\ ToLoad = 0
    BY <1>1, FS_EmptySet DEF KeyHolders, ToLoad
<1>3. hot \in BOOLEAN BY Zenon DEF HotInit
<1>4. HotTypeOK BY <1>3, UpsetsAssumption DEF HotInit, HotTypeOK
<1>5. Open \in {0, 1} BY DEF Open
<1> QED BY <1>2, <1>4, <1>5 DEF HotInit, HotInv

\* The inductive invariant of rebuildHotKey.
THEOREM HotInvariant == HotSpec => []HotInv
BY HotStarts, HotStep, PTL DEF HotSpec

\* The account of loads bounds them.
LEMMA HotInvOne == HotInv => OneRebuild
<1> SUFFICES ASSUME HotInv PROVE OneRebuild
    OBVIOUS
<1>1. Loading \in Nat /\ ToLoad \in Nat /\ Open \in {0, 1}
    BY ReadersCounted DEF HotInv, Loading, ToLoad, Open
<1>2. loads \in Nat /\ upsets \in Nat /\ hot \in BOOLEAN
    BY UpsetsAssumption DEF HotInv, HotTypeOK
<1> QED BY <1>1, <1>2 DEF HotInv, OneRebuild

\* Of all who miss the hot key one loads under the lock until the value expires again,
\* and one more per upset.
THEOREM OneRebuildHolds == HotSpec => []OneRebuild
BY HotInvOne, HotInvariant, PTL

-----------------------------------------------------------------------------
(* The guarded user. *)

\* Once the user was added its bits are set; and while a call is settled nothing that
\* says "no such user" is stored, on its way, or about to be stored.
UserInv ==
    /\ UserTypeOK
    /\ added => exists /\ Position \subseteq bits
    /\ settled # {} => /\ added /\ cached # "null" /\ "null" \notin late
                       /\ \A c \in Asker : asks[c] # "putnull"
    /\ NoFalseAbsence

\* Every step keeps UserInv.
LEMMA UserStep == UserInv /\ [UserNext]_userVars => UserInv'
<1> SUFFICES ASSUME UserInv, [UserNext]_userVars PROVE UserInv'
    OBVIOUS
<1> USE DEF UserInv, UserTypeOK, NoFalseAbsence, Moves
<1>1. CASE Create BY <1>1 DEF Create
<1>2. CASE AddReturns BY <1>2 DEF AddReturns
<1>3. CASE LatePut BY <1>3 DEF LatePut
<1>4. CASE ValueExpires BY <1>4 DEF ValueExpires
<1>5. ASSUME NEW p \in Position, SetBit(p) PROVE UserInv' BY <1>5 DEF SetBit
<1>6. ASSUME NEW c \in Asker, Ask(c) PROVE UserInv' BY <1>6 DEF Ask
<1>7. ASSUME NEW c \in Asker, LookUp(c) PROVE UserInv' BY <1>7 DEF LookUp
<1>8. ASSUME NEW c \in Asker, LoadUser(c) PROVE UserInv' BY <1>8 DEF LoadUser
<1>9. ASSUME NEW c \in Asker, PutNull(c) PROVE UserInv' BY <1>9 DEF PutNull, Put
<1>10. ASSUME NEW c \in Asker, PutUser(c) PROVE UserInv' BY <1>10 DEF PutUser, Put
<1>11. CASE UNCHANGED userVars BY <1>11 DEF userVars
<1> QED BY <1>1, <1>2, <1>3, <1>4, <1>5, <1>6, <1>7, <1>8, <1>9, <1>10, <1>11 DEF UserNext

\* No user, no bit, no cached answer.
LEMMA UserStarts == UserInit => UserInv
<1> SUFFICES ASSUME UserInit PROVE UserInv
    OBVIOUS
<1>1. exists \in BOOLEAN /\ added \in BOOLEAN /\ ~added BY Zenon DEF UserInit
<1> QED BY <1>1 DEF UserInit, UserInv, UserTypeOK, NoFalseAbsence

\* The inductive invariant of GetUserGuarded.
THEOREM UserInvariant == UserSpec => []UserInv
BY UserStarts, UserStep, PTL DEF UserSpec

\* A call that began when the user was added and nothing said otherwise any more never
\* answers ErrNotFound.
THEOREM NoFalseAbsenceHolds == UserSpec => []NoFalseAbsence
BY UserInvariant, PTL DEF UserInv

-----------------------------------------------------------------------------
(* The limiters.  Time is read, not counted: the record of what was let through says   *)
(* when each script ran and which reading it was given.                                *)

TimeOf(i) == admitted[i].at
Reading(i) == admitted[i].read
Count == Len(admitted)

\* Requests are recorded in the order of their executions, none in the future, each with
\* a reading that lags by Lag at most; a key that is there has not expired.
TimesInv ==
    /\ Lag <= clock /\ (NoKey \/ clock < ends)
    /\ \A i \in 1..Count : TimeOf(i) <= clock /\ Reading(i) \in (TimeOf(i) - Lag)..TimeOf(i)
    /\ \A i, j \in 1..Count : i <= j => TimeOf(i) <= TimeOf(j)

\* The requests the window counts: its counter goes one past the limit.
InWindow == AtMost(level, Limit)
\* What came before the window is older than its start, and what came more than a limit
\* before it is older by a window.
FixedInv ==
    /\ level \in 0..(Limit + 1)
    /\ NoKey => /\ level = 0
                /\ \A i \in 1..Count : TimeOf(i) < clock
                /\ \A i \in 1..Count : i <= Count - Limit => TimeOf(i) + Window <= clock
    /\ ~NoKey => /\ level >= 1 /\ ends - Window <= clock
                 /\ \A i \in 1..Count : i <= Count - InWindow => TimeOf(i) < ends - Window
                 /\ \A i \in 1..Count : i <= Count - InWindow - Limit => TimeOf(i) + Window <= ends - Window
    /\ \A i, j \in 1..Count : j - i >= 2 * Limit => TimeOf(i) + Window <= TimeOf(j)

\* A request that left the sorted set is older than the shortened window.
SlidingInv ==
    /\ \A i \in (1..Count) \ members : TimeOf(i) + Window - Lag <= clock
    /\ NoKey => members = {}
    /\ \A i \in 1..Count : NoKey \/ TimeOf(i) <= ends - Window
    /\ \A i, j \in 1..Count : j - i >= Limit => TimeOf(i) + Window - Lag <= TimeOf(j)

Debt == IF algo = "leaky" THEN level ELSE Limit - level
Span == IF algo = "brief" THEN BriefIdle ELSE Idle
LastUse == ends - Span
Forgets(d) == Lag * (d \div BriefIdle)

\* A bucket owes its capacity at most, and what a late reading took back.
BucketInv ==
    ~NoKey => /\ LastUse <= clock /\ stamp \in (LastUse - Lag)..LastUse /\ Debt \in Nat
              /\ Debt <= Limit + Rate * (LastUse - stamp)
              /\ \A i \in 1..Count : TimeOf(i) <= LastUse

\* What was admitted from the i-th request on is owed, or was refilled since.
DebtInv ==
    /\ \A i \in 1..Count :
          Count - i + 1 <= IF NoKey THEN Rate * (clock - Lag - Reading(i))
                                    ELSE Debt + Rate * (stamp - Reading(i))
    /\ \A i, j \in 1..Count : i <= j => j - i + 1 <= Limit + Rate * (Reading(j) - Reading(i))

BriefInv ==
    /\ \A i \in 1..Count :
          Count - i + 1 <=
            IF NoKey THEN Rate * ((clock - TimeOf(i)) + Forgets(clock - TimeOf(i)))
                     ELSE Debt + Rate * ((stamp - TimeOf(i)) + Lag + Forgets(LastUse - TimeOf(i)))
    /\ \A i, j \in 1..Count :
          i <= j => j - i + 1 <= Limit + Rate * ((TimeOf(j) - TimeOf(i)) + Lag + Forgets(TimeOf(j) - TimeOf(i)))

LimiterInv ==
    /\ LimiterTypeOK /\ TimesInv
    /\ algo = "fixed" => FixedInv
    /\ algo = "sliding" => SlidingInv
    /\ algo \in {"token", "brief", "leaky"} => BucketInv
    /\ algo \in {"token", "leaky"} => DebtInv
    /\ algo = "brief" => BriefInv

-----------------------------------------------------------------------------
Buckets == {"token", "brief", "leaky"}
Record == [at : Nat, read : Int]

\* The script's answer records the request or leaves the record alone.
LEMMA Recorded ==
    ASSUME admitted \in Seq(Record), clock \in Nat, NEW now \in Int, NEW yes \in BOOLEAN,
           Answer(yes, now)
    PROVE  /\ admitted' \in Seq(Record) /\ Count \in Nat /\ Count' \in Nat
           /\ Count' = IF yes THEN Count + 1 ELSE Count
           /\ DOMAIN admitted = 1..Count /\ DOMAIN admitted' = 1..Count'
           /\ \A i \in 1..Count : TimeOf(i)' = TimeOf(i) /\ Reading(i)' = Reading(i)
           /\ yes => \A i : i = Count + 1 => TimeOf(i)' = clock /\ Reading(i)' = now
<1>1. [at |-> clock, read |-> now] \in Record BY DEF Record
<1>2. CASE yes
    <2>1. admitted' = Append(admitted, [at |-> clock, read |-> now]) BY <1>2 DEF Answer
    <2>2. /\ Len(admitted') = Len(admitted) + 1 /\ admitted' \in Seq(Record)
          /\ \A i \in 1..Len(admitted) : admitted'[i] = admitted[i]
          /\ admitted'[Len(admitted) + 1] = [at |-> clock, read |-> now]
        BY <1>1, <2>1
    <2>3. Len(admitted) \in Nat /\ DOMAIN admitted = 1..Len(admitted) OBVIOUS
    <2>4. DOMAIN admitted' = 1..Len(admitted') BY <2>2
    <2> QED BY <1>2, <2>2, <2>3, <2>4 DEF Count, TimeOf, Reading
<1>3. CASE ~yes
    <2>1. admitted' = admitted BY <1>3 DEF Answer
    <2>2. Len(admitted) \in Nat /\ DOMAIN admitted = 1..Len(admitted) OBVIOUS
    <2> QED BY <1>3, <2>1, <2>2 DEF Count, TimeOf, Reading
<1> QED BY <1>2, <1>3

\* What the types say of the record.
LEMMA RecordTypes ==
    ASSUME LimiterTypeOK
    PROVE  /\ admitted \in Seq(Record) /\ Count \in Nat /\ DOMAIN admitted = 1..Count
           /\ \A i \in 1..Count : TimeOf(i) \in Nat /\ Reading(i) \in Int
<1>1. admitted \in Seq(Record) BY DEF LimiterTypeOK, Record
<1>2. Len(admitted) \in Nat /\ DOMAIN admitted = 1..Len(admitted) BY <1>1
<1>3. \A i \in 1..Len(admitted) : admitted[i] \in Record BY <1>1
<1> QED BY <1>1, <1>2, <1>3 DEF Count, TimeOf, Reading, Record

\* The times stay in order when a request of the present is recorded.
LEMMA TimesKept ==
    ASSUME LimiterTypeOK, TimesInv, UNCHANGED clock, NEW now \in (clock - Lag)..clock,
           NEW yes \in BOOLEAN, Answer(yes, now), ends' = 0 \/ clock < ends'
    PROVE  TimesInv'
<1> USE WindowAssumption
<1>1. /\ admitted \in Seq(Record) /\ Count \in Nat /\ DOMAIN admitted = 1..Count
      /\ \A i \in 1..Count : TimeOf(i) \in Nat /\ Reading(i) \in Int
    BY RecordTypes
<1>2. clock \in Nat /\ now \in Int BY DEF LimiterTypeOK
<1>3. /\ Count' = IF yes THEN Count + 1 ELSE Count
      /\ \A i \in 1..Count : TimeOf(i)' = TimeOf(i) /\ Reading(i)' = Reading(i)
      /\ yes => \A i : i = Count + 1 => TimeOf(i)' = clock /\ Reading(i)' = now
    BY <1>1, <1>2, Recorded
<1>4. \A i \in 1..Count' : i \in 1..Count \/ (yes /\ i = Count + 1) BY <1>1, <1>3
<1>5. Lag <= clock' /\ (NoKey' \/ clock' < ends') BY DEF TimesInv, NoKey
<1>6. ASSUME NEW i \in 1..Count'
      PROVE  TimeOf(i)' <= clock' /\ Reading(i)' \in (TimeOf(i)' - Lag)..TimeOf(i)'
    <2>1. CASE i \in 1..Count BY <1>3, <2>1 DEF TimesInv
    <2>2. CASE yes /\ i = Count + 1
        <3>1. TimeOf(i)' = clock /\ Reading(i)' = now BY <1>3, <2>2
        <3> QED BY <1>2, <3>1
    <2> QED BY <1>4, <2>1, <2>2
<1>7. ASSUME NEW i \in 1..Count', NEW j \in 1..Count', i <= j PROVE TimeOf(i)' <= TimeOf(j)'
    <2>1. CASE j \in 1..Count
        <3>1. i \in 1..Count BY <1>1, <1>3, <1>7, <2>1
        <3> QED BY <1>3, <1>7, <2>1, <3>1 DEF TimesInv
    <2>2. CASE yes /\ j = Count + 1
        <3>1. TimeOf(j)' = clock BY <1>3, <2>2
        <3>2. TimeOf(i)' = clock \/ (i \in 1..Count /\ TimeOf(i)' = TimeOf(i)) BY <1>3, <1>4
        <3> QED BY <1>2, <3>1, <3>2 DEF TimesInv
    <2> QED BY <1>4, <2>1, <2>2
<1> QED BY <1>5, <1>6, <1>7 DEF TimesInv

-----------------------------------------------------------------------------
(* The buckets: arithmetic first, about any amounts. *)

\* The rate is spread over sums and keeps the order.
LEMMA RateTimes ==
    ASSUME NEW a \in Int, NEW b \in Int
    PROVE  /\ Rate * a \in Int /\ Rate * b \in Int /\ a * Rate = Rate * a
           /\ Rate * (a + b) = Rate * a + Rate * b /\ Rate * (a - b) = Rate * a - Rate * b
           /\ a <= b => Rate * a <= Rate * b
           /\ 0 <= a => 0 <= Rate * a
BY WindowAssumption, SMT

\* A refill between two readings lowers the debt by as much as it adds to the bound.
LEMMA Refilled ==
    ASSUME NEW n \in Int, NEW d \in Int, NEW e \in Int, NEW s \in Int, NEW r \in Int,
           NEW now \in Int, n <= d + Rate * (s - r), e >= d - (now - s) * Rate
    PROVE  n <= e + Rate * (now - r)
<1> USE WindowAssumption
<1>1. /\ Rate * (s - r) = Rate * s - Rate * r /\ Rate * (now - r) = Rate * now - Rate * r
      /\ (now - s) * Rate = Rate * now - Rate * s
      /\ Rate * s \in Int /\ Rate * r \in Int /\ Rate * now \in Int
    BY RateTimes
<1> QED BY <1>1

\* What a bucket owes is less than its capacity, and what late readings took back,
\* also after a refill.
LEMMA StillCovered ==
    ASSUME NEW d \in Int, NEW e \in Int, NEW s \in Int, NEW l \in Int, NEW now \in Int,
           NEW c \in Int, d <= Limit + Rate * (l - s), e = d - (now - s) * Rate, l <= c
    PROVE  e <= Limit + Rate * (c - now)
<1> USE WindowAssumption
<1>1. /\ Rate * (l - s) = Rate * l - Rate * s /\ Rate * (c - now) = Rate * c - Rate * now
      /\ (now - s) * Rate = Rate * now - Rate * s /\ Rate * l <= Rate * c
      /\ Rate * s \in Int /\ Rate * l \in Int /\ Rate * now \in Int /\ Rate * c \in Int
    BY RateTimes
<1> QED BY <1>1

\* When a key has been idle for its ttl, what is owed has been refilled on every clock.
LEMMA IdleRefills ==
    ASSUME NEW d \in Int, NEW s \in Int, NEW l \in Int, NEW c \in Int, NEW span \in Int,
           NEW slack \in Int, d <= Limit + Rate * (l - s), c >= l + span,
           Rate * (span - slack) >= Limit
    PROVE  d <= Rate * (c - slack - s)
<1> USE WindowAssumption
<1>1. /\ Rate * (l - s) = Rate * l - Rate * s /\ Rate * (c - slack - s) = Rate * (c - slack) - Rate * s
      /\ Rate * (c - slack) = Rate * c - Rate * slack
      /\ Rate * (span - slack) = Rate * span - Rate * slack
      /\ Rate * (l + span) <= Rate * c /\ Rate * (l + span) = Rate * l + Rate * span
      /\ Rate * s \in Int /\ Rate * l \in Int /\ Rate * slack \in Int /\ Rate * c \in Int
      /\ Rate * span \in Int
    BY RateTimes
<1> QED BY <1>1

\* The ttl of the bucket of labs/01 refills it, but for the lag.
LEMMA BriefIsLong == BriefIdle \in Nat \ {0} /\ Rate * BriefIdle >= Limit
BY WindowAssumption, SMT DEF BriefIdle

\* The expiry of the script (WindowAssumption, IdleAssumption) leaves time to refill.
LEMMA IdleIsLong == Idle \in Nat \ {0} /\ Lag < Idle /\ Rate * (Idle - Lag) >= Limit
<1>1. ASSUME Idle <= Lag PROVE FALSE
    <2>1. Rate * (Idle - Lag) <= 0 BY <1>1, WindowAssumption, SMT
    <2> QED BY <2>1, WindowAssumption, IdleAssumption
<1> QED BY <1>1, WindowAssumption, IdleAssumption

\* What forgets: more as time passes, and once more after an idle ttl.
LEMMA ForgetsMore ==
    ASSUME NEW a \in Nat, NEW b \in Nat
    PROVE  /\ Forgets(a) \in Nat
           /\ a <= b => Forgets(a) <= Forgets(b)
           /\ a + BriefIdle <= b => Forgets(a) + Lag <= Forgets(b)
<1> DEFINE B == BriefIdle
<1>1. B \in Nat \ {0} /\ Lag \in Nat BY BriefIsLong, WindowAssumption
<1> HIDE DEF B
<1>2. a \div B \in Nat /\ b \div B \in Nat BY <1>1, SMT
<1>3. a <= b => a \div B <= b \div B BY <1>1, <1>2, SMT
<1>4. a + B <= b => (a \div B) + 1 <= b \div B BY <1>1, <1>2, SMT
<1>5. ASSUME NEW x \in Nat, NEW y \in Nat
      PROVE  /\ Lag * x \in Nat /\ Lag * (x + 1) = Lag * x + Lag
             /\ x <= y => Lag * x <= Lag * y
    BY <1>1, SMT
<1>6. /\ Lag * (a \div B) \in Nat
      /\ a \div B <= b \div B => Lag * (a \div B) <= Lag * (b \div B)
      /\ Lag * ((a \div B) + 1) = Lag * (a \div B) + Lag
      /\ (a \div B) + 1 <= b \div B => Lag * ((a \div B) + 1) <= Lag * (b \div B)
    BY <1>2, <1>5
<1>7. /\ Forgets(a) = Lag * (a \div B) /\ Forgets(b) = Lag * (b \div B) BY DEF Forgets, B
<1>8. BriefIdle = B BY DEF B
<1> QED BY <1>3, <1>4, <1>6, <1>7, <1>8

-----------------------------------------------------------------------------
\* What a script of a bucket does to what it owes, whichever way it counts.
LEMMA Pays ==
    ASSUME LimiterTypeOK, BucketInv, UNCHANGED algo, NEW now \in (clock - Lag)..clock,
           AllowToken(now) \/ AllowBrief(now) \/ AllowLeaky(now)
    PROVE  /\ algo \in Buckets
           /\ \E d \in Nat :
                /\ NoKey => d = 0
                /\ ~NoKey => /\ d >= Debt - (now - stamp) * Rate
                             /\ d = 0 \/ d = Debt - (now - stamp) * Rate
                /\ Debt' = IF d + 1 <= Limit THEN d + 1 ELSE d
                /\ Answer(d + 1 <= Limit, now)
           /\ stamp' = now /\ ends' = clock + Span /\ Span' = Span /\ level' \in Int
           /\ algo \in {"token", "brief"} => level' <= Limit
           /\ algo = "leaky" => level' >= 0
           /\ UNCHANGED members
<1> USE WindowAssumption
<1>1. /\ clock \in Nat /\ now \in Int /\ stamp \in Int /\ level \in Int /\ Rate \in Int
      /\ now - stamp \in Int
    BY DEF LimiterTypeOK
<1> DEFINE R == (now - stamp) * Rate
<1>2. R \in Int BY <1>1
<1>3. Span' = Span BY DEF Span
<1>4. CASE AllowToken(now) \/ AllowBrief(now)
    <2>1. /\ algo \in {"token", "brief"} /\ algo' = algo /\ algo \in Buckets /\ algo # "leaky"
          /\ TakeToken(now, Span)
        BY <1>4 DEF AllowToken, AllowBrief, Span, Buckets
    <2> DEFINE T == IF NoKey THEN Limit ELSE AtMost(Limit, level + R)
               d == Limit - T
    <2>2. /\ level' = IF T >= 1 THEN T - 1 ELSE T
          /\ stamp' = now /\ ends' = clock + Span /\ Answer(T >= 1, now) /\ UNCHANGED members
        BY <2>1 DEF TakeToken
    <2>3. T \in Int /\ T <= Limit /\ d \in Nat BY <1>1, <1>2 DEF AtMost
    <2>4. Debt = Limit - level /\ Debt' = Limit - level' BY <2>1 DEF Debt
    <2>5. ~NoKey => T = AtMost(Limit, level + R) /\ (T = Limit \/ T = level + R) /\ T <= level + R
        BY <1>1, <1>2 DEF AtMost
    <2>6. ~NoKey => d >= Debt - R /\ (d = 0 \/ d = Debt - R)
        <3> HIDE DEF T, R
        <3> QED BY <1>1, <1>2, <2>3, <2>4, <2>5
    <2>7. NoKey => d = 0 BY <1>1
    <2>8. (T >= 1) <=> (d + 1 <= Limit)
        <3> HIDE DEF T
        <3> QED BY <2>3
    <2>9. Debt' = IF d + 1 <= Limit THEN d + 1 ELSE d
        <3> HIDE DEF T
        <3> QED BY <2>2, <2>3, <2>4
    <2>10. Answer(d + 1 <= Limit, now)
        <3> HIDE DEF T, d
        <3> QED BY <2>2, <2>8 DEF Answer
    <2>11. level' \in Int /\ level' <= Limit
        <3> HIDE DEF T
        <3> QED BY <2>2, <2>3
    <2> QED BY <1>3, <2>1, <2>2, <2>3, <2>6, <2>7, <2>9, <2>10, <2>11
<1>5. CASE AllowLeaky(now)
    <2> DEFINE d == IF NoKey THEN 0 ELSE AtLeast(0, level - R)
    <2>1. /\ algo = "leaky" /\ algo' = algo /\ algo \in Buckets /\ Span = Idle
          /\ level' = IF d + 1 <= Limit THEN d + 1 ELSE d
          /\ stamp' = now /\ ends' = clock + Idle /\ Answer(d + 1 <= Limit, now)
          /\ UNCHANGED members
        BY <1>5 DEF AllowLeaky, Span, Buckets
    <2>2. d \in Nat /\ (NoKey => d = 0) BY <1>1, <1>2 DEF AtLeast
    <2>3. Debt = level /\ Debt' = level' BY <2>1 DEF Debt
    <2>4. ~NoKey => d >= Debt - R /\ (d = 0 \/ d = Debt - R)
        BY <1>1, <1>2, <2>3 DEF AtLeast
    <2>5. level' \in Int /\ level' >= 0
        <3> HIDE DEF d
        <3> QED BY <2>1, <2>2
    <2> QED BY <1>3, <2>1, <2>2, <2>3, <2>4, <2>5
<1> QED BY <1>4, <1>5

\* The facts about a script of a bucket that the three cases below start from: D is what
\* is owed before the request, d after the refill.
BucketMove(now, d, yes) ==
    /\ algo' = algo /\ clock' = clock /\ Span' = Span
    /\ now \in Int /\ now <= clock /\ clock - Lag <= now /\ clock \in Nat /\ Span \in Nat \ {0}
    /\ d \in Nat /\ yes = (d + 1 <= Limit)
    /\ NoKey => d = 0
    /\ ~NoKey => d >= Debt - (now - stamp) * Rate /\ (d = 0 \/ d = Debt - (now - stamp) * Rate)
    /\ Debt' = IF d + 1 <= Limit THEN d + 1 ELSE d
    /\ stamp' = now /\ LastUse' = clock /\ ~NoKey'
    /\ Count \in Nat /\ Count' = IF d + 1 <= Limit THEN Count + 1 ELSE Count
    /\ \A i \in 1..Count : /\ TimeOf(i)' = TimeOf(i) /\ Reading(i)' = Reading(i)
                           /\ TimeOf(i) \in Nat /\ TimeOf(i) <= clock /\ Reading(i) \in Int
    /\ d + 1 <= Limit => \A i : i = Count + 1 => TimeOf(i)' = clock /\ Reading(i)' = now

\* What a request at the bucket does to the level and the record, admitted or not.
LEMMA BucketMoves ==
    ASSUME LimiterTypeOK, TimesInv, BucketInv, UNCHANGED <<algo, clock>>,
           NEW now \in (clock - Lag)..clock,
           AllowToken(now) \/ AllowBrief(now) \/ AllowLeaky(now)
    PROVE  /\ LimiterTypeOK' /\ TimesInv'
           /\ \E d \in Nat, yes \in BOOLEAN : BucketMove(now, d, yes)
<1> USE WindowAssumption
<1>1. /\ admitted \in Seq(Record) /\ Count \in Nat /\ DOMAIN admitted = 1..Count
      /\ \A i \in 1..Count : TimeOf(i) \in Nat /\ Reading(i) \in Int
      /\ clock \in Nat /\ now \in Int
    BY RecordTypes DEF LimiterTypeOK
<1>2. PICK d \in Nat :
          /\ NoKey => d = 0
          /\ ~NoKey => /\ d >= Debt - (now - stamp) * Rate
                       /\ d = 0 \/ d = Debt - (now - stamp) * Rate
          /\ Debt' = IF d + 1 <= Limit THEN d + 1 ELSE d
          /\ Answer(d + 1 <= Limit, now)
    BY Pays
<1>3. /\ stamp' = now /\ ends' = clock + Span /\ Span' = Span /\ level' \in Int
      /\ algo \in {"token", "brief"} => level' <= Limit
      /\ algo = "leaky" => level' >= 0
      /\ UNCHANGED members /\ algo \in Buckets
    BY Pays
<1> DEFINE yes == d + 1 <= Limit
<1>4. yes \in BOOLEAN /\ Answer(yes, now) BY <1>2
<1>5. /\ admitted' \in Seq(Record)
      /\ Count' = IF yes THEN Count + 1 ELSE Count
      /\ DOMAIN admitted' = 1..Count'
      /\ \A i \in 1..Count : TimeOf(i)' = TimeOf(i) /\ Reading(i)' = Reading(i)
      /\ yes => \A i : i = Count + 1 => TimeOf(i)' = clock /\ Reading(i)' = now
    <2> HIDE DEF yes
    <2> QED BY <1>1, <1>4, Recorded
<1>6. Span \in Nat \ {0} BY BriefIsLong, IdleIsLong DEF Span
<1>7. LastUse' = clock /\ ends' \in Nat /\ clock < ends' /\ ~NoKey'
    <2>1. LastUse' = ends' - Span' BY DEF LastUse
    <2> QED BY <1>1, <1>3, <1>6, <2>1 DEF NoKey
<1>8. TimesInv'
    <2> HIDE DEF yes
    <2> QED BY <1>4, <1>7, TimesKept
<1>9. LimiterTypeOK'
    <2>1. members' \subseteq DOMAIN admitted' /\ Cardinality(members') <= Limit
        BY <1>1, <1>3, <1>5 DEF LimiterTypeOK
    <2>2. algo' \in Algorithms /\ clock' \in Nat /\ stamp' \in Int
        BY <1>1, <1>3 DEF LimiterTypeOK
    <2> QED BY <1>3, <1>5, <1>7, <2>1, <2>2 DEF LimiterTypeOK, Record
<1>10. \A i \in 1..Count : TimeOf(i) <= clock BY DEF TimesInv
<1>11. BucketMove(now, d, yes)
    BY <1>1, <1>2, <1>3, <1>5, <1>6, <1>7, <1>10 DEF BucketMove
<1> QED BY <1>4, <1>8, <1>9, <1>11

\* A script of a bucket keeps the cover of its debt.
LEMMA BucketKept ==
    ASSUME LimiterTypeOK, BucketInv, NEW now \in Int, NEW d \in Nat, NEW yes \in BOOLEAN,
           BucketMove(now, d, yes)
    PROVE  BucketInv'
<1> USE WindowAssumption
<1> DEFINE e == IF d + 1 <= Limit THEN d + 1 ELSE d
<1>1. /\ LastUse' = clock /\ stamp' = now /\ Debt' = e /\ clock' = clock /\ now <= clock /\ clock - Lag <= now
      /\ clock \in Nat /\ e \in Nat /\ ~NoKey'
    BY DEF BucketMove
<1>2. 0 <= Rate * (clock - now) /\ Rate * (clock - now) \in Int
    BY <1>1, RateTimes
<1>3. d <= Limit + Rate * (clock - now)
    <2>1. CASE d = 0 BY <1>2, <2>1
    <2>2. CASE ~NoKey /\ d = Debt - (now - stamp) * Rate
        <3>1. /\ Debt \in Int /\ stamp \in Int /\ LastUse \in Int /\ LastUse <= clock
              /\ Debt <= Limit + Rate * (LastUse - stamp)
            BY <2>2, BriefIsLong, IdleIsLong DEF BucketInv, LimiterTypeOK, LastUse, Span
        <3> QED BY <1>1, <2>2, <3>1, StillCovered
    <2> QED BY <2>1, <2>2 DEF BucketMove
<1>4. e <= Limit + Rate * (clock - now) BY <1>2, <1>3
<1>5. Debt' <= Limit + Rate * (LastUse' - stamp') BY <1>1, <1>4
<1>6. \A i \in 1..Count' : TimeOf(i)' <= clock
    <2>1. Count \in Nat /\ \A i \in 1..Count' : i \in 1..Count \/ (d + 1 <= Limit /\ i = Count + 1)
        BY DEF BucketMove
    <2>2. \A i \in 1..Count : TimeOf(i)' <= clock BY DEF BucketMove
    <2>3. d + 1 <= Limit => \A i : i = Count + 1 => TimeOf(i)' <= clock BY <1>1 DEF BucketMove
    <2> QED BY <2>1, <2>2, <2>3
<1>7. LastUse' <= clock' /\ stamp' \in (LastUse' - Lag)..LastUse' BY <1>1
<1> HIDE DEF e
<1> QED BY <1>1, <1>5, <1>6, <1>7 DEF BucketInv

\* A script of a bucket keeps the account of what was admitted since each request...
LEMMA DebtKept ==
    ASSUME LimiterTypeOK, BucketInv, DebtInv, NEW now \in Int, NEW d \in Nat,
           NEW yes \in BOOLEAN, BucketMove(now, d, yes)
    PROVE  DebtInv'
<1> USE WindowAssumption
<1> DEFINE e == IF d + 1 <= Limit THEN d + 1 ELSE d
<1>1. /\ stamp' = now /\ Debt' = e /\ now <= clock /\ clock - Lag <= now
      /\ clock \in Nat /\ e \in Nat /\ ~NoKey'
      /\ Count \in Nat /\ Count' = IF d + 1 <= Limit THEN Count + 1 ELSE Count
    BY DEF BucketMove
<1>2. ASSUME NEW i \in 1..Count
      PROVE  /\ TimeOf(i)' = TimeOf(i) /\ Reading(i)' = Reading(i) /\ Reading(i) \in Int
             /\ Rate * (now - Reading(i)) \in Int
             /\ Count - i + 1 <= d + Rate * (now - Reading(i))
    <2>1. TimeOf(i)' = TimeOf(i) /\ Reading(i)' = Reading(i) /\ Reading(i) \in Int BY DEF BucketMove
    <2>2. Rate * (now - Reading(i)) \in Int BY <2>1, RateTimes
    <2>3. CASE NoKey
        <3>1. Count - i + 1 <= Rate * (clock - Lag - Reading(i)) BY <2>3 DEF DebtInv
        <3>2. Rate * (clock - Lag - Reading(i)) <= Rate * (now - Reading(i))
            BY <1>1, <2>1, RateTimes
        <3>3. Rate * (clock - Lag - Reading(i)) \in Int BY <1>1, <2>1, RateTimes
        <3> DEFINE x == Rate * (clock - Lag - Reading(i))
                   y == Rate * (now - Reading(i))
        <3>4. x \in Int /\ y \in Int /\ Count - i + 1 <= x /\ x <= y BY <2>2, <3>1, <3>2, <3>3
        <3> HIDE DEF x, y
        <3>5. Count - i + 1 <= d + y BY <1>1, <3>4
        <3> QED BY <2>1, <2>2, <3>5 DEF y
    <2>4. CASE ~NoKey
        <3>1. Count - i + 1 <= Debt + Rate * (stamp - Reading(i)) BY <2>4 DEF DebtInv
        <3>2. Debt \in Int /\ stamp \in Int BY <2>4 DEF BucketInv, LimiterTypeOK
        <3>3. d >= Debt - (now - stamp) * Rate BY <2>4 DEF BucketMove
        <3>4. Count - i + 1 \in Int BY <1>1
        <3> QED BY <2>1, <3>1, <3>2, <3>3, <3>4, Refilled
    <2> QED BY <2>1, <2>2, <2>3, <2>4
<1>3. Rate * (now - now) = 0 BY RateTimes
<1>4. \A i \in 1..Count' : i \in 1..Count \/ (d + 1 <= Limit /\ i = Count + 1) BY <1>1
<1>5. ASSUME NEW i \in 1..Count'
      PROVE  Count' - i + 1 <= Debt' + Rate * (stamp' - Reading(i)')
    <2>1. CASE i \in 1..Count
        <3>1. Count' - i + 1 <= e + Rate * (now - Reading(i)) BY <1>1, <1>2, <2>1
        <3> HIDE DEF e
        <3> QED BY <1>1, <1>2, <2>1, <3>1
    <2>2. CASE d + 1 <= Limit /\ i = Count + 1
        <3>1. Reading(i)' = now BY <2>2 DEF BucketMove
        <3>2. Count' - i + 1 = 1 /\ Debt' = d + 1 BY <1>1, <2>2
        <3>3. Rate * (stamp' - Reading(i)') = 0 BY <1>1, <1>3, <3>1
        <3> QED BY <3>2, <3>3
    <2> QED BY <1>4, <2>1, <2>2
<1>6. ASSUME NEW i \in 1..Count', NEW j \in 1..Count', i <= j
      PROVE  j - i + 1 <= Limit + Rate * (Reading(j)' - Reading(i)')
    <2>1. CASE j \in 1..Count
        <3>1. i \in 1..Count BY <1>1, <1>6, <2>1
        <3>2. j - i + 1 <= Limit + Rate * (Reading(j) - Reading(i)) BY <1>6, <2>1, <3>1 DEF DebtInv
        <3> QED BY <1>2, <2>1, <3>1, <3>2
    <2>2. CASE d + 1 <= Limit /\ j = Count + 1
        <3>1. Reading(j)' = now BY <2>2 DEF BucketMove
        <3>2. CASE i \in 1..Count
            <4>1. j - i + 1 <= Limit + Rate * (now - Reading(i)) BY <1>1, <1>2, <2>2, <3>2
            <4> QED BY <1>2, <3>1, <3>2, <4>1
        <3>3. CASE i = Count + 1
            <4>1. j - i + 1 = 1 BY <1>1, <2>2, <3>3
            <4>2. Rate * (Reading(j)' - Reading(i)') = 0 BY <1>3, <2>2, <3>1, <3>3
            <4> QED BY <4>1, <4>2
        <3> QED BY <1>4, <3>2, <3>3
    <2> QED BY <1>4, <2>1, <2>2
<1>7. NoKey' = FALSE BY <1>1
<1> HIDE DEF e
<1> QED BY <1>5, <1>6, <1>7 DEF DebtInv

\* ... and so does the one that forgets.
LEMMA BriefKept ==
    ASSUME LimiterTypeOK, BucketInv, BriefInv, NEW now \in Int, NEW d \in Nat,
           NEW yes \in BOOLEAN, BucketMove(now, d, yes)
    PROVE  BriefInv'
<1> USE WindowAssumption
<1> DEFINE e == IF d + 1 <= Limit THEN d + 1 ELSE d
<1>1. /\ stamp' = now /\ Debt' = e /\ now <= clock /\ clock - Lag <= now /\ LastUse' = clock
      /\ clock \in Nat /\ e \in Nat /\ ~NoKey'
      /\ Count \in Nat /\ Count' = IF d + 1 <= Limit THEN Count + 1 ELSE Count
    BY DEF BucketMove
<1>2. ASSUME NEW i \in 1..Count
      PROVE  /\ TimeOf(i)' = TimeOf(i) /\ TimeOf(i) \in Nat /\ clock - TimeOf(i) \in Nat
             /\ Forgets(clock - TimeOf(i)) \in Nat
             /\ Rate * ((now - TimeOf(i)) + Lag + Forgets(clock - TimeOf(i))) \in Int
             /\ Count - i + 1 <= d + Rate * ((now - TimeOf(i)) + Lag + Forgets(clock - TimeOf(i)))
    <2>1. TimeOf(i)' = TimeOf(i) /\ TimeOf(i) \in Nat /\ TimeOf(i) <= clock BY DEF BucketMove
    <2>2. clock - TimeOf(i) \in Nat BY <1>1, <2>1
    <2> DEFINE f == Forgets(clock - TimeOf(i))
               r == TimeOf(i) - Lag - f
    <2>3. f \in Nat BY <2>2, ForgetsMore
    <2> HIDE DEF f
    <2>4. r \in Int /\ now - r \in Int /\ now - r = (now - TimeOf(i)) + Lag + f BY <2>1, <2>3
    <2>5. Rate * (now - r) \in Int BY <2>4, RateTimes
    <2>6. CASE NoKey
        <3>1. Count - i + 1 <= Rate * ((clock - TimeOf(i)) + f) BY <2>6 DEF BriefInv, f
        <3>2. (clock - TimeOf(i)) + f <= now - r /\ (clock - TimeOf(i)) + f \in Int
            BY <1>1, <2>1, <2>3, <2>4
        <3>3. /\ Rate * ((clock - TimeOf(i)) + f) <= Rate * (now - r)
              /\ Rate * ((clock - TimeOf(i)) + f) \in Int
            BY <2>4, <3>2, RateTimes
        <3> QED BY <1>1, <2>1, <2>2, <2>3, <2>4, <2>5, <3>1, <3>3 DEF f
    <2>7. CASE ~NoKey
        <3> DEFINE g == Forgets(LastUse - TimeOf(i))
        <3>1. Debt \in Int /\ stamp \in Int /\ LastUse \in Int /\ LastUse <= clock /\ TimeOf(i) <= LastUse
            BY <2>7, BriefIsLong, IdleIsLong DEF BucketInv, LimiterTypeOK, LastUse, Span
        <3>2. LastUse - TimeOf(i) \in Nat /\ LastUse - TimeOf(i) <= clock - TimeOf(i)
            BY <1>1, <2>1, <3>1
        <3>3. g \in Nat /\ g <= f BY <2>2, <3>2, ForgetsMore DEF f
        <3>4. Count - i + 1 <= Debt + Rate * ((stamp - TimeOf(i)) + Lag + g) BY <2>7 DEF BriefInv
        <3> HIDE DEF g
        <3> DEFINE x == (stamp - TimeOf(i)) + Lag + g
        <3>5. x \in Int /\ x <= stamp - r /\ stamp - r \in Int BY <2>1, <2>3, <2>4, <3>1, <3>3
        <3>6. Rate * x <= Rate * (stamp - r) /\ Rate * x \in Int /\ Rate * (stamp - r) \in Int
            BY <3>5, RateTimes
        <3>7. Count - i + 1 <= Debt + Rate * (stamp - r)
            <4> HIDE DEF r, x
            <4>1. Count - i + 1 <= Debt + Rate * x BY <3>4 DEF x
            <4> QED BY <1>1, <3>1, <3>6, <4>1
        <3>8. d >= Debt - (now - stamp) * Rate BY <2>7 DEF BucketMove
        <3>9. Count - i + 1 \in Int BY <1>1
        <3>10. Count - i + 1 <= d + Rate * (now - r)
            <4> HIDE DEF r
            <4> QED BY <2>4, <3>1, <3>7, <3>8, <3>9, Refilled
        <3> QED BY <2>1, <2>2, <2>3, <2>4, <2>5, <3>10 DEF f
    <2> QED BY <2>6, <2>7
<1>3. /\ 0 \in Nat /\ Forgets(0) \in Nat /\ (now - clock) + Lag + Forgets(0) \in Nat
      /\ (clock - clock) + Lag + Forgets(0) \in Nat /\ clock - clock = 0
    <2>1. Forgets(0) \in Nat BY ForgetsMore
    <2> QED BY <1>1, <2>1
<1>4. /\ 0 <= Rate * ((now - clock) + Lag + Forgets(0))
      /\ Rate * ((now - clock) + Lag + Forgets(0)) \in Int
      /\ 0 <= Rate * ((clock - clock) + Lag + Forgets(0))
      /\ Rate * ((clock - clock) + Lag + Forgets(0)) \in Int
    BY <1>3, RateTimes
<1>5. \A i \in 1..Count' : i \in 1..Count \/ (d + 1 <= Limit /\ i = Count + 1) BY <1>1
<1>6. ASSUME NEW i \in 1..Count'
      PROVE  Count' - i + 1 <= Debt' + Rate * ((stamp' - TimeOf(i)') + Lag + Forgets(LastUse' - TimeOf(i)'))
    <2>1. CASE i \in 1..Count
        <3>1. Count' - i + 1 <= e + Rate * ((now - TimeOf(i)) + Lag + Forgets(clock - TimeOf(i)))
            BY <1>1, <1>2, <2>1
        <3> HIDE DEF e
        <3> QED BY <1>1, <1>2, <2>1, <3>1
    <2>2. CASE d + 1 <= Limit /\ i = Count + 1
        <3>1. TimeOf(i)' = clock BY <2>2 DEF BucketMove
        <3>2. Count' - i + 1 = 1 /\ Debt' = d + 1 BY <1>1, <2>2
        <3>3. Rate * ((stamp' - TimeOf(i)') + Lag + Forgets(LastUse' - TimeOf(i)'))
                = Rate * ((now - clock) + Lag + Forgets(0))
            BY <1>1, <1>3, <3>1
        <3> QED BY <1>4, <3>2, <3>3
    <2> QED BY <1>5, <2>1, <2>2
<1>7. ASSUME NEW i \in 1..Count', NEW j \in 1..Count', i <= j
      PROVE  j - i + 1 <= Limit + Rate * ((TimeOf(j)' - TimeOf(i)') + Lag + Forgets(TimeOf(j)' - TimeOf(i)'))
    <2>1. CASE j \in 1..Count
        <3>1. i \in 1..Count BY <1>1, <1>7, <2>1
        <3>2. j - i + 1 <= Limit + Rate * ((TimeOf(j) - TimeOf(i)) + Lag + Forgets(TimeOf(j) - TimeOf(i)))
            BY <1>7, <2>1, <3>1 DEF BriefInv
        <3> QED BY <1>2, <2>1, <3>1, <3>2
    <2>2. CASE d + 1 <= Limit /\ j = Count + 1
        <3>1. TimeOf(j)' = clock BY <2>2 DEF BucketMove
        <3>2. CASE i \in 1..Count
            <4> DEFINE x == (now - TimeOf(i)) + Lag + Forgets(clock - TimeOf(i))
                       y == (clock - TimeOf(i)) + Lag + Forgets(clock - TimeOf(i))
            <4>1. x \in Int /\ y \in Int /\ x <= y BY <1>1, <1>2, <3>2
            <4>2. Rate * x <= Rate * y /\ Rate * x \in Int /\ Rate * y \in Int BY <4>1, RateTimes
            <4>3. Count - i + 1 <= d + Rate * x BY <1>2, <3>2
            <4> HIDE DEF x, y
            <4>4. j - i + 1 <= Limit + Rate * y BY <1>1, <2>2, <4>2, <4>3
            <4> QED BY <1>2, <3>1, <3>2, <4>4 DEF y
        <3>3. CASE i = Count + 1
            <4>1. j - i + 1 = 1 BY <1>1, <2>2, <3>3
            <4>2. Rate * ((TimeOf(j)' - TimeOf(i)') + Lag + Forgets(TimeOf(j)' - TimeOf(i)'))
                    = Rate * ((clock - clock) + Lag + Forgets(0))
                BY <1>3, <2>2, <3>1, <3>3
            <4> QED BY <1>4, <4>1, <4>2
        <3> QED BY <1>5, <3>2, <3>3
    <2> QED BY <1>5, <2>1, <2>2
<1>8. NoKey' = FALSE BY <1>1
<1> HIDE DEF e
<1> QED BY <1>6, <1>7, <1>8 DEF BriefInv

-----------------------------------------------------------------------------
\* Time passes: the key stays as it is, or it is there no more.
LEMMA TickMoves ==
    ASSUME LimiterTypeOK, TimesInv, LimiterTick, UNCHANGED algo
    PROVE  /\ LimiterTypeOK' /\ TimesInv'
           /\ clock' = clock + 1 /\ clock \in Nat
           /\ UNCHANGED <<stamp, admitted, algo>>
           /\ \/ ends = clock + 1 /\ ~NoKey /\ NoKey' /\ level' = 0 /\ members' = {}
              \/ UNCHANGED <<ends, level, members>> /\ NoKey' = NoKey
<1> USE WindowAssumption
<1>1. clock' = clock + 1 /\ clock \in Nat /\ UNCHANGED <<stamp, admitted, algo>>
    BY DEF LimiterTick, LimiterTypeOK
<1>2. \/ ends = clock + 1 /\ ends' = 0 /\ level' = 0 /\ members' = {}
      \/ ends # clock + 1 /\ UNCHANGED <<ends, level, members>>
    BY DEF LimiterTick
<1>3. ends \in Nat /\ ends' \in Nat /\ (ends' = 0 \/ ends' = ends) BY <1>2 DEF LimiterTypeOK
<1>4. \/ ends = clock + 1 /\ ~NoKey /\ NoKey' /\ level' = 0 /\ members' = {}
      \/ UNCHANGED <<ends, level, members>> /\ NoKey' = NoKey
    BY <1>1, <1>2 DEF NoKey
<1>5. /\ admitted \in Seq(Record) /\ Count \in Nat /\ DOMAIN admitted = 1..Count
      /\ \A i \in 1..Count : TimeOf(i) \in Nat /\ Reading(i) \in Int
    BY RecordTypes
<1>6. Count' = Count /\ \A i : TimeOf(i)' = TimeOf(i) /\ Reading(i)' = Reading(i)
    BY <1>1 DEF Count, TimeOf, Reading
<1>7. LimiterTypeOK'
    <2>1. members' \subseteq DOMAIN admitted' /\ Cardinality(members') <= Limit
        <3>1. IsFiniteSet({}) /\ Cardinality({}) = 0 BY FS_EmptySet
        <3>2. members' = {} \/ members' = members BY <1>2
        <3>3. members \subseteq DOMAIN admitted /\ Cardinality(members) <= Limit
            BY DEF LimiterTypeOK
        <3>4. Cardinality(members') <= Limit BY <3>1, <3>2, <3>3
        <3> QED BY <1>1, <3>2, <3>3, <3>4
    <2>2. level' \in Int /\ (algo' \in {"token", "brief"} => level' <= Limit)
          /\ (algo' = "leaky" => level' >= 0)
        BY <1>1, <1>2 DEF LimiterTypeOK
    <2> QED BY <1>1, <1>3, <2>1, <2>2 DEF LimiterTypeOK
<1>8. TimesInv'
    <2>1. Lag <= clock' /\ (NoKey' \/ clock' < ends')
        BY <1>1, <1>2, <1>3 DEF TimesInv, NoKey
    <2>2. \A i \in 1..Count : TimeOf(i) <= clock' BY <1>1, <1>5 DEF TimesInv
    <2> QED BY <1>6, <2>1, <2>2 DEF TimesInv
<1> QED BY <1>1, <1>4, <1>7, <1>8

\* A bucket whose key expires has been refilled.
LEMMA BucketTicks ==
    ASSUME LimiterTypeOK, TimesInv, BucketInv, LimiterTick, UNCHANGED algo
    PROVE  BucketInv'
<1> USE WindowAssumption
<1>1. /\ clock' = clock + 1 /\ clock \in Nat /\ UNCHANGED <<stamp, admitted, algo>>
      /\ NoKey' \/ (UNCHANGED <<ends, level>> /\ NoKey' = NoKey)
    BY TickMoves
<1>2. CASE NoKey' BY <1>2 DEF BucketInv
<1>3. CASE ~NoKey' /\ UNCHANGED <<ends, level>> /\ NoKey' = NoKey
    <2>1. /\ LastUse' = LastUse /\ Debt' = Debt /\ Count' = Count /\ stamp' = stamp
          /\ \A i : TimeOf(i)' = TimeOf(i)
        BY <1>1, <1>3 DEF LastUse, Span, Debt, Count, TimeOf
    <2>2. LastUse \in Int BY BriefIsLong, IdleIsLong DEF LastUse, Span, LimiterTypeOK
    <2>3. /\ LastUse <= clock /\ stamp \in (LastUse - Lag)..LastUse /\ Debt \in Nat
          /\ Debt <= Limit + Rate * (LastUse - stamp) /\ \A i \in 1..Count : TimeOf(i) <= LastUse
        BY <1>3 DEF BucketInv
    <2>4. LastUse <= clock' BY <1>1, <2>2, <2>3
    <2> QED BY <2>1, <2>3, <2>4 DEF BucketInv
<1> QED BY <1>1, <1>2, <1>3

\* A Tick keeps the debt of the full bucket paid.
LEMMA DebtTicks ==
    ASSUME LimiterTypeOK, TimesInv, BucketInv, DebtInv, LimiterTick, UNCHANGED algo,
           algo # "brief"
    PROVE  DebtInv'
<1> USE WindowAssumption
<1>1. /\ clock' = clock + 1 /\ clock \in Nat /\ UNCHANGED <<stamp, admitted, algo>>
      /\ \/ ends = clock + 1 /\ ~NoKey /\ NoKey'
         \/ UNCHANGED <<ends, level>> /\ NoKey' = NoKey
    BY TickMoves
<1>2. Count' = Count /\ \A i : TimeOf(i)' = TimeOf(i) /\ Reading(i)' = Reading(i)
    BY <1>1 DEF Count, TimeOf, Reading
<1>3. Count \in Nat /\ \A i \in 1..Count : Reading(i) \in Int BY RecordTypes
<1>4. \A i, j \in 1..Count' : i <= j => j - i + 1 <= Limit + Rate * (Reading(j)' - Reading(i)')
    BY <1>2 DEF DebtInv
<1>5. ASSUME NEW i \in 1..Count
      PROVE  Count - i + 1 <= IF NoKey' THEN Rate * (clock' - Lag - Reading(i))
                                        ELSE Debt' + Rate * (stamp' - Reading(i))
    <2>1. Reading(i) \in Int /\ Count - i + 1 \in Int BY <1>3
    <2>2. CASE ends = clock + 1 /\ ~NoKey /\ NoKey'
        <3> DEFINE c == clock + 1
                   x == Rate * (c - Lag - stamp)
                   y == Rate * (stamp - Reading(i))
        <3>1. /\ Debt \in Int /\ stamp \in Int /\ LastUse \in Int /\ c = LastUse + Idle
              /\ Debt <= Limit + Rate * (LastUse - stamp)
            BY <2>2, IdleIsLong DEF BucketInv, LimiterTypeOK, LastUse, Span
        <3>2. c \in Int /\ Idle \in Int /\ Lag \in Int BY <1>1, IdleIsLong
        <3>3. Debt <= x
            <4> HIDE DEF c
            <4>1. c >= LastUse + Idle BY <3>1, <3>2
            <4> QED BY <3>1, <3>2, <4>1, IdleIsLong, IdleRefills
        <3>4. Count - i + 1 <= Debt + y BY <2>2 DEF DebtInv
        <3>5. /\ x \in Int /\ y \in Int /\ Rate * ((c - Lag - stamp) + (stamp - Reading(i))) = x + y
            <4> HIDE DEF c
            <4>1. c - Lag - stamp \in Int /\ stamp - Reading(i) \in Int BY <2>1, <3>1, <3>2
            <4> QED BY <4>1, RateTimes
        <3>6. (c - Lag - stamp) + (stamp - Reading(i)) = c - Lag - Reading(i)
            <4> HIDE DEF c
            <4> QED BY <2>1, <3>1, <3>2
        <3>7. Count - i + 1 <= x + y
            <4> HIDE DEF x, y
            <4> QED BY <2>1, <3>1, <3>3, <3>4, <3>5
        <3>8. Count - i + 1 <= Rate * (c - Lag - Reading(i)) BY <3>5, <3>6, <3>7
        <3> QED BY <1>1, <2>2, <3>8
    <2>3. CASE NoKey /\ NoKey'
        <3> DEFINE x == Rate * (clock - Lag - Reading(i))
                   y == Rate * (clock + 1 - Lag - Reading(i))
        <3>1. Count - i + 1 <= x BY <2>3 DEF DebtInv
        <3>2. x \in Int /\ y \in Int /\ x <= y BY <1>1, <2>1, RateTimes
        <3>3. y = Rate * (clock' - Lag - Reading(i))
            <4>1. clock + 1 - Lag - Reading(i) = clock' - Lag - Reading(i) BY <1>1, <2>1
            <4> QED BY <4>1
        <3>4. Count - i + 1 <= y
            <4> HIDE DEF x, y
            <4> QED BY <2>1, <3>1, <3>2
        <3> QED BY <2>3, <3>3, <3>4
    <2>4. CASE ~NoKey /\ ~NoKey' /\ UNCHANGED <<ends, level>>
        <3>1. Debt' = Debt /\ stamp' = stamp BY <1>1, <2>4 DEF Debt
        <3>2. Count - i + 1 <= Debt + Rate * (stamp - Reading(i)) BY <2>4 DEF DebtInv
        <3> QED BY <2>4, <3>1, <3>2
    <2> QED BY <1>1, <2>2, <2>3, <2>4
<1> QED BY <1>2, <1>4, <1>5 DEF DebtInv

\* A Tick keeps what the bucket that forgets early still covers.
LEMMA BriefTicks ==
    ASSUME LimiterTypeOK, TimesInv, BucketInv, BriefInv, LimiterTick, UNCHANGED algo,
           algo = "brief"
    PROVE  BriefInv'
<1> USE WindowAssumption
<1>1. /\ clock' = clock + 1 /\ clock \in Nat /\ UNCHANGED <<stamp, admitted, algo>>
      /\ \/ ends = clock + 1 /\ ~NoKey /\ NoKey'
         \/ UNCHANGED <<ends, level>> /\ NoKey' = NoKey
    BY TickMoves
<1>2. Count' = Count /\ \A i : TimeOf(i)' = TimeOf(i) /\ Reading(i)' = Reading(i)
    BY <1>1 DEF Count, TimeOf, Reading
<1>3. Count \in Nat /\ \A i \in 1..Count : TimeOf(i) \in Nat /\ TimeOf(i) <= clock
    BY RecordTypes DEF TimesInv
<1>4. \A i, j \in 1..Count' :
          i <= j => j - i + 1 <= Limit + Rate * ((TimeOf(j)' - TimeOf(i)') + Lag + Forgets(TimeOf(j)' - TimeOf(i)'))
    BY <1>2 DEF BriefInv
<1>5. ASSUME NEW i \in 1..Count
      PROVE  Count - i + 1 <=
                IF NoKey' THEN Rate * ((clock' - TimeOf(i)) + Forgets(clock' - TimeOf(i)))
                          ELSE Debt' + Rate * ((stamp' - TimeOf(i)) + Lag + Forgets(LastUse' - TimeOf(i)))
    <2> DEFINE c == clock + 1
               f == Forgets(c - TimeOf(i))
               y == Rate * ((c - TimeOf(i)) + f)
    <2>1. /\ TimeOf(i) \in Nat /\ Count - i + 1 \in Int /\ c \in Nat /\ c - TimeOf(i) \in Nat
          /\ clock - TimeOf(i) \in Nat
        BY <1>1, <1>3
    <2>2. f \in Nat BY <2>1, ForgetsMore
    <2>3. y \in Int /\ y = Rate * ((clock' - TimeOf(i)) + Forgets(clock' - TimeOf(i)))
        <3>1. (c - TimeOf(i)) + f \in Int BY <2>1, <2>2
        <3> QED BY <1>1, <3>1, RateTimes
    <2>4. CASE ends = clock + 1 /\ ~NoKey /\ NoKey'
        <3> DEFINE g == Forgets(LastUse - TimeOf(i))
                   x == Rate * (c - 0 - stamp)
                   z == Rate * ((stamp - TimeOf(i)) + Lag + g)
        <3>1. /\ Debt \in Int /\ stamp \in Int /\ LastUse \in Int /\ c = LastUse + BriefIdle
              /\ Debt <= Limit + Rate * (LastUse - stamp) /\ TimeOf(i) <= LastUse
            BY <2>4, BriefIsLong DEF BucketInv, LimiterTypeOK, LastUse, Span
        <3>2. c \in Int /\ BriefIdle \in Int /\ 0 \in Int /\ Rate * (BriefIdle - 0) >= Limit
            BY <2>1, BriefIsLong
        <3>3. Debt <= x
            <4> HIDE DEF c
            <4>1. c >= LastUse + BriefIdle BY <3>1, <3>2
            <4> QED BY <3>1, <3>2, <4>1, IdleRefills
        <3>4. Count - i + 1 <= Debt + z BY <2>4 DEF BriefInv
        <3>5. LastUse - TimeOf(i) \in Nat /\ (LastUse - TimeOf(i)) + BriefIdle <= c - TimeOf(i)
            <4> HIDE DEF c
            <4> QED BY <2>1, <3>1, <3>2
        <3>6. g \in Nat /\ g + Lag <= f
            <4> HIDE DEF c
            <4> QED BY <2>1, <3>5, ForgetsMore
        <3> HIDE DEF c, f, g
        <3>7. c - 0 - stamp \in Int /\ (stamp - TimeOf(i)) + Lag + g \in Int
            BY <2>1, <3>1, <3>6
        <3>8. /\ x \in Int /\ z \in Int
              /\ Rate * ((c - 0 - stamp) + ((stamp - TimeOf(i)) + Lag + g)) = x + z
            BY <3>7, RateTimes
        <3>9. /\ (c - 0 - stamp) + ((stamp - TimeOf(i)) + Lag + g) <= (c - TimeOf(i)) + f
              /\ (c - TimeOf(i)) + f \in Int
            BY <2>1, <2>2, <3>1, <3>6
        <3>10. x + z <= y
            <4>1. Rate * ((c - 0 - stamp) + ((stamp - TimeOf(i)) + Lag + g)) <= y
                BY <3>7, <3>9, RateTimes
            <4> HIDE DEF x, y, z
            <4> QED BY <3>8, <4>1
        <3>11. Count - i + 1 <= y
            <4> HIDE DEF x, y, z
            <4> QED BY <2>1, <2>3, <3>1, <3>3, <3>4, <3>8, <3>10
        <3> HIDE DEF y
        <3> QED BY <2>3, <2>4, <3>11
    <2>5. CASE NoKey /\ NoKey'
        <3> DEFINE g == Forgets(clock - TimeOf(i))
                   x == Rate * ((clock - TimeOf(i)) + g)
        <3>1. Count - i + 1 <= x BY <2>5 DEF BriefInv
        <3>2. g \in Nat /\ g <= f BY <1>1, <2>1, ForgetsMore
        <3>3. x \in Int /\ x <= y
            <4> HIDE DEF f, g
            <4>1. /\ (clock - TimeOf(i)) + g \in Int /\ (c - TimeOf(i)) + f \in Int
                  /\ (clock - TimeOf(i)) + g <= (c - TimeOf(i)) + f
                BY <1>1, <2>1, <2>2, <3>2
            <4> HIDE DEF c
            <4> QED BY <4>1, RateTimes
        <3>4. Count - i + 1 <= y
            <4> HIDE DEF x, y
            <4> QED BY <2>1, <2>3, <3>1, <3>3
        <3> HIDE DEF y
        <3> QED BY <2>3, <2>5, <3>4
    <2>6. CASE ~NoKey /\ ~NoKey' /\ UNCHANGED <<ends, level>>
        <3>1. Debt' = Debt /\ stamp' = stamp /\ LastUse' = LastUse
            BY <1>1, <2>6 DEF Debt, LastUse, Span
        <3>2. Count - i + 1 <= Debt + Rate * ((stamp - TimeOf(i)) + Lag + Forgets(LastUse - TimeOf(i)))
            BY <2>6 DEF BriefInv
        <3> QED BY <2>6, <3>1, <3>2
    <2> QED BY <1>1, <2>4, <2>5, <2>6
<1> QED BY <1>2, <1>4, <1>5 DEF BriefInv

-----------------------------------------------------------------------------
\* The script of the fixed window keeps its invariant: a request is the first of a window,
\* or one more of a window that has room for it.
LEMMA FixedKept ==
    ASSUME LimiterTypeOK, TimesInv, FixedInv, AllowFixed, UNCHANGED <<algo, clock>>
    PROVE  LimiterTypeOK' /\ TimesInv' /\ FixedInv'
<1> USE WindowAssumption
<1> DEFINE yes == level + 1 <= Limit
<1>1. /\ level \in 0..Limit /\ level' = level + 1 /\ UNCHANGED <<stamp, members>>
      /\ ends' = (IF NoKey THEN clock + Window ELSE ends) /\ Answer(yes, clock)
      /\ clock \in Nat /\ ends \in Nat /\ clock \in (clock - Lag)..clock /\ algo = "fixed"
    BY DEF AllowFixed, CountUp, FixedInv, LimiterTypeOK
<1>2. /\ admitted \in Seq(Record) /\ Count \in Nat /\ DOMAIN admitted = 1..Count
      /\ \A i \in 1..Count : TimeOf(i) \in Nat /\ Reading(i) \in Int
    BY RecordTypes
<1>3. /\ admitted' \in Seq(Record)
      /\ Count' = IF yes THEN Count + 1 ELSE Count
      /\ DOMAIN admitted' = 1..Count'
      /\ \A i \in 1..Count : TimeOf(i)' = TimeOf(i)
      /\ yes => \A i : i = Count + 1 => TimeOf(i)' = clock
    <2>1. yes \in BOOLEAN /\ clock \in Int BY <1>1
    <2> HIDE DEF yes
    <2> QED BY <1>1, <1>2, <2>1, Recorded
<1>4. ends' \in Nat /\ clock < ends' /\ ~NoKey' BY <1>1 DEF TimesInv, NoKey
<1>5. TimesInv'
    <2>1. yes \in BOOLEAN BY <1>1
    <2> HIDE DEF yes
    <2> QED BY <1>1, <1>4, <2>1, TimesKept
<1>6. LimiterTypeOK'
    <2>1. members' \subseteq DOMAIN admitted' /\ Cardinality(members') <= Limit
        BY <1>1, <1>2, <1>3 DEF LimiterTypeOK
    <2>2. /\ algo' = "fixed" /\ algo' \in Algorithms /\ clock' \in Nat /\ stamp' \in Int
          /\ level' \in Int
        BY <1>1 DEF LimiterTypeOK
    <2> QED BY <1>3, <1>4, <2>1, <2>2 DEF LimiterTypeOK, Record
<1> DEFINE s == ends' - Window
           m == AtMost(level + 1, Limit)
<1>7. InWindow' = m /\ m \in 1..Limit /\ s \in Int /\ s <= clock
    BY <1>1, <1>4 DEF InWindow, AtMost, FixedInv
<1>8. ASSUME NEW i \in 1..Count, i <= Count' - m PROVE TimeOf(i) < s
    <2>1. CASE NoKey
        <3>1. s = clock BY <1>1, <2>1
        <3>2. TimeOf(i) < clock BY <2>1 DEF FixedInv
        <3> QED BY <3>1, <3>2
    <2>2. CASE ~NoKey
        <3>1. s = ends - Window BY <1>1, <2>2
        <3>2. i <= Count - InWindow BY <1>1, <1>2, <1>3, <1>8 DEF InWindow, AtMost
        <3> QED BY <2>2, <3>1, <3>2 DEF FixedInv
    <2> QED BY <2>1, <2>2
<1>9. ASSUME NEW i \in 1..Count, i <= Count' - m - Limit PROVE TimeOf(i) + Window <= s
    <2>1. CASE NoKey
        <3>1. s = clock /\ level = 0 /\ Count' = Count + 1 /\ m = 1
            BY <1>1, <1>3, <2>1 DEF FixedInv, AtMost
        <3>2. i <= Count - Limit BY <1>2, <1>9, <3>1
        <3> QED BY <2>1, <3>1, <3>2 DEF FixedInv
    <2>2. CASE ~NoKey
        <3>1. s = ends - Window BY <1>1, <2>2
        <3>2. i <= Count - InWindow - Limit BY <1>1, <1>2, <1>3, <1>9 DEF InWindow, AtMost
        <3> QED BY <2>2, <3>1, <3>2 DEF FixedInv
    <2> QED BY <2>1, <2>2
<1> HIDE DEF s
<1>10. \A i \in 1..Count' : i \in 1..Count \/ (yes /\ i = Count + 1) BY <1>2, <1>3
<1>11. ASSUME NEW i \in 1..Count', i <= Count' - m PROVE i \in 1..Count /\ TimeOf(i)' = TimeOf(i)
    BY <1>2, <1>3, <1>7, <1>11
<1>12. ASSUME NEW i \in 1..Count', NEW j \in 1..Count', j - i >= 2 * Limit
       PROVE  TimeOf(i)' + Window <= TimeOf(j)'
    <2>1. i \in 1..Count /\ TimeOf(i)' = TimeOf(i) /\ TimeOf(i) \in Nat BY <1>2, <1>3, <1>12
    <2>2. CASE j \in 1..Count
        <3>1. TimeOf(i) + Window <= TimeOf(j) BY <1>12, <2>1, <2>2 DEF FixedInv
        <3> QED BY <1>3, <2>1, <2>2, <3>1
    <2>3. CASE yes /\ j = Count + 1
        <3>1. TimeOf(j)' = clock /\ Count' = Count + 1 BY <1>3, <2>3
        <3>2. i <= Count' - m - Limit
            <4> HIDE DEF m
            <4> QED BY <1>2, <1>7, <1>12, <2>3, <3>1
        <3>3. TimeOf(i) + Window <= s BY <1>9, <2>1, <3>2
        <3> QED BY <1>1, <1>7, <2>1, <3>1, <3>3
    <2> QED BY <1>10, <2>2, <2>3
<1>13. level' \in 0..(Limit + 1) /\ level' >= 1 BY <1>1
<1>14. ends' - Window <= clock' BY <1>7 DEF s
<1>15. \A i \in 1..Count' : i <= Count' - InWindow' => TimeOf(i)' < ends' - Window
    BY <1>7, <1>8, <1>11 DEF s
<1>16. \A i \in 1..Count' : i <= Count' - InWindow' - Limit => TimeOf(i)' + Window <= ends' - Window
    <2> HIDE DEF m
    <2>1. ASSUME NEW i \in 1..Count', i <= Count' - m - Limit PROVE TimeOf(i)' + Window <= s
        <3>1. Count' \in Int /\ m \in Int /\ i \in Int BY <1>2, <1>3, <1>7, <2>1
        <3>2. i <= Count' - m
            <4>1. ASSUME NEW c \in Int, NEW n \in Int, i <= c - n - Limit PROVE i <= c - n
                BY <3>1, <4>1
            <4> QED BY <2>1, <3>1, <4>1
        <3> QED BY <1>9, <1>11, <2>1, <3>2
    <2> QED BY <1>7, <2>1 DEF s
<1> QED BY <1>4, <1>5, <1>6, <1>12, <1>13, <1>14, <1>15, <1>16 DEF FixedInv

\* A Tick keeps what the fixed window counts, also when its key expires.
LEMMA FixedTicks ==
    ASSUME LimiterTypeOK, TimesInv, FixedInv, LimiterTick, UNCHANGED algo
    PROVE  FixedInv'
<1> USE WindowAssumption
<1>1. /\ clock' = clock + 1 /\ clock \in Nat /\ UNCHANGED <<stamp, admitted, algo>>
      /\ \/ ends = clock + 1 /\ ~NoKey /\ NoKey' /\ level' = 0
         \/ UNCHANGED <<ends, level>> /\ NoKey' = NoKey
    BY TickMoves
<1>2. Count' = Count /\ \A i : TimeOf(i)' = TimeOf(i) BY <1>1 DEF Count, TimeOf
<1>3. Count \in Nat /\ \A i \in 1..Count : TimeOf(i) \in Nat /\ TimeOf(i) <= clock
    BY RecordTypes DEF TimesInv
<1>4. \A i, j \in 1..Count' : j - i >= 2 * Limit => TimeOf(i)' + Window <= TimeOf(j)'
    BY <1>2 DEF FixedInv
<1>5. \A i \in 1..Count : TimeOf(i) < clock' BY <1>1, <1>3
<1>6. CASE ends = clock + 1 /\ ~NoKey /\ NoKey' /\ level' = 0
    <2>1. InWindow \in 0..Limit BY DEF InWindow, AtMost, FixedInv
    <2>2. ASSUME NEW i \in 1..Count, i <= Count - Limit PROVE TimeOf(i) + Window <= clock'
        <3>1. i <= Count - InWindow BY <1>3, <2>1, <2>2
        <3>2. TimeOf(i) < ends - Window BY <1>6, <3>1 DEF FixedInv
        <3> QED BY <1>1, <1>3, <1>6, <3>2
    <2> QED BY <1>2, <1>4, <1>5, <1>6, <2>2 DEF FixedInv
<1>7. CASE NoKey /\ UNCHANGED <<ends, level>> /\ NoKey' = NoKey
    <2>1. \A i \in 1..Count : i <= Count - Limit => TimeOf(i) + Window <= clock'
        BY <1>1, <1>3, <1>7 DEF FixedInv
    <2> QED BY <1>2, <1>4, <1>5, <1>7, <2>1 DEF FixedInv
<1>8. CASE ~NoKey /\ UNCHANGED <<ends, level>> /\ NoKey' = NoKey
    <2>1. InWindow' = InWindow BY <1>8 DEF InWindow
    <2>2. ends - Window <= clock' BY <1>1, <1>8 DEF FixedInv, LimiterTypeOK
    <2> QED BY <1>2, <1>4, <1>8, <2>1, <2>2 DEF FixedInv
<1> QED BY <1>1, <1>6, <1>7, <1>8

-----------------------------------------------------------------------------
\* The script of the sliding window keeps its invariant: who was let through less than a
\* (shortened) window ago is still in the sorted set.
LEMMA SlidingKept ==
    ASSUME LimiterTypeOK, TimesInv, SlidingInv, NEW now \in (clock - Lag)..clock,
           AllowSliding(now), UNCHANGED <<algo, clock>>
    PROVE  LimiterTypeOK' /\ TimesInv' /\ SlidingInv'
<1> USE WindowAssumption
<1> DEFINE kept == {m \in members : admitted[m].read > now - Window}
           yes == Cardinality(kept) < Limit
<1>1. /\ algo = "sliding" /\ UNCHANGED <<level, stamp>> /\ Answer(yes, now)
      /\ clock \in Nat /\ ends \in Nat /\ now \in Int /\ now <= clock /\ clock - Lag <= now
      /\ members' = (IF yes THEN kept \cup {Count + 1} ELSE kept)
      /\ ends' = (IF yes THEN clock + Window ELSE ends)
    BY DEF AllowSliding, Slide, LimiterTypeOK, Count
<1>2. /\ admitted \in Seq(Record) /\ Count \in Nat /\ DOMAIN admitted = 1..Count
      /\ \A i \in 1..Count : TimeOf(i) \in Nat /\ Reading(i) \in Int /\ TimeOf(i) <= clock
                             /\ Reading(i) >= TimeOf(i) - Lag
    BY RecordTypes DEF TimesInv
<1>3. /\ members \subseteq 1..Count /\ IsFiniteSet(members) /\ IsFiniteSet(kept)
      /\ Cardinality(kept) <= Cardinality(members) /\ Cardinality(kept) \in Nat
      /\ Cardinality(members) \in Nat /\ Cardinality(members) <= Limit
    <2>1. members \subseteq 1..Count /\ Cardinality(members) <= Limit
        BY <1>2 DEF LimiterTypeOK
    <2>2. IsFiniteSet(1..Count) BY <1>2, FS_Interval
    <2>3. IsFiniteSet(members) BY <2>1, <2>2, FS_Subset
    <2>4. kept \subseteq members OBVIOUS
    <2> HIDE DEF kept
    <2>5. IsFiniteSet(kept) /\ Cardinality(kept) <= Cardinality(members)
        BY <2>3, <2>4, FS_Subset
    <2> QED BY <2>1, <2>3, <2>5, FS_CardinalityType
<1>4. kept \subseteq members /\ \A i \in members \ kept : Reading(i) <= now - Window
    BY <1>1, <1>2, <1>3 DEF Reading
<1>5. \A i \in members : Reading(i) > now - Window => i \in kept BY DEF Reading
<1> HIDE DEF kept
<1>6. yes \in BOOLEAN BY <1>3
<1> HIDE DEF yes
<1>7. /\ admitted' \in Seq(Record)
      /\ Count' = IF yes THEN Count + 1 ELSE Count
      /\ DOMAIN admitted' = 1..Count'
      /\ \A i \in 1..Count : TimeOf(i)' = TimeOf(i)
      /\ yes => \A i : i = Count + 1 => TimeOf(i)' = clock
    BY <1>1, <1>2, <1>6, Recorded
<1>8. \A i \in 1..Count' : i \in 1..Count \/ (yes /\ i = Count + 1) BY <1>2, <1>7
<1>9. ends' \in Nat /\ (ends' = 0 \/ clock < ends') BY <1>1 DEF TimesInv, NoKey
<1>10. TimesInv' BY <1>1, <1>6, <1>9, TimesKept
<1>11. members' \subseteq 1..Count' /\ Cardinality(members') <= Limit
    <2>1. CASE yes
        <3>1. Count + 1 \notin kept BY <1>2, <1>3, <1>4
        <3>2. Cardinality(kept \cup {Count + 1}) = Cardinality(kept) + 1
            BY <1>3, <3>1, FS_AddElement
        <3>3. Cardinality(kept) < Limit BY <2>1 DEF yes
        <3> QED BY <1>1, <1>2, <1>3, <1>4, <1>7, <2>1, <3>2, <3>3
    <2>2. CASE ~yes BY <1>1, <1>3, <1>4, <1>7, <2>2
    <2> QED BY <2>1, <2>2
<1>12. LimiterTypeOK'
    <2>1. /\ algo' = "sliding" /\ algo' \in Algorithms /\ clock' \in Nat /\ stamp' \in Int
          /\ level' \in Int
        BY <1>1 DEF LimiterTypeOK
    <2> QED BY <1>7, <1>9, <1>11, <2>1 DEF LimiterTypeOK, Record
<1>13. ASSUME NEW i \in 1..Count, i \notin kept PROVE TimeOf(i) + Window - Lag <= clock
    <2>1. CASE i \in members
        <3>1. Reading(i) <= now - Window BY <1>4, <1>13, <2>1
        <3> QED BY <1>1, <1>2, <3>1
    <2>2. CASE i \notin members BY <2>2 DEF SlidingInv
    <2> QED BY <2>1, <2>2
<1>14. \A i \in (1..Count') \ members' : TimeOf(i)' + Window - Lag <= clock'
    <2>1. ASSUME NEW i \in (1..Count') \ members' PROVE i \in 1..Count /\ i \notin kept
        BY <1>1, <1>8, <2>1
    <2> QED BY <1>7, <1>13, <2>1
<1>15. NoKey' => members' = {}
    <2>1. NoKey' => ~yes /\ NoKey BY <1>1 DEF NoKey
    <2>2. NoKey => kept = {} BY <1>4 DEF SlidingInv
    <2> QED BY <1>1, <2>1, <2>2
<1>16. \A i \in 1..Count' : NoKey' \/ TimeOf(i)' <= ends' - Window
    <2>1. CASE yes
        <3>1. ends' - Window = clock BY <1>1, <2>1
        <3>2. ASSUME NEW i \in 1..Count' PROVE TimeOf(i)' <= clock
            <4>1. TimeOf(i)' = clock \/ (i \in 1..Count /\ TimeOf(i)' = TimeOf(i)) BY <1>7, <1>8
            <4> QED BY <1>1, <1>2, <4>1
        <3> QED BY <3>1, <3>2
    <2>2. CASE ~yes
        <3>1. ends' = ends /\ Count' = Count BY <1>1, <1>7, <2>2
        <3> QED BY <1>7, <3>1 DEF SlidingInv, NoKey
    <2> QED BY <2>1, <2>2
<1>17. ASSUME NEW i \in 1..Count', NEW j \in 1..Count', j - i >= Limit
       PROVE  TimeOf(i)' + Window - Lag <= TimeOf(j)'
    <2>1. i \in 1..Count /\ TimeOf(i)' = TimeOf(i) /\ TimeOf(i) \in Nat BY <1>2, <1>7, <1>17
    <2>2. CASE j \in 1..Count
        <3>1. TimeOf(i) + Window - Lag <= TimeOf(j) BY <1>17, <2>1, <2>2 DEF SlidingInv
        <3> QED BY <1>7, <2>1, <2>2, <3>1
    <2>3. CASE yes /\ j = Count + 1
        <3>1. TimeOf(j)' = clock BY <1>7, <2>3
        <3>2. ASSUME ~(TimeOf(i) + Window - Lag <= clock) PROVE FALSE
            <4>1. ASSUME NEW k \in i..Count PROVE k \in kept
                <5>1. k \in 1..Count /\ i <= k BY <1>2, <2>1
                <5>2. TimeOf(i) <= TimeOf(k) /\ TimeOf(k) \in Nat BY <1>2, <2>1, <5>1 DEF TimesInv
                <5> QED BY <1>1, <1>13, <2>1, <3>2, <5>1, <5>2
            <4>2. i..Count \subseteq kept BY <4>1
            <4>3. i \in Int /\ Count \in Int /\ i <= Count BY <1>2, <2>1
            <4>4. Cardinality(i..Count) = Count - i + 1 /\ IsFiniteSet(i..Count)
                BY <4>3, FS_Interval
            <4>5. Cardinality(i..Count) <= Cardinality(kept) BY <1>3, <4>2, FS_Subset
            <4>6. Cardinality(kept) < Limit BY <2>3 DEF yes
            <4>7. Count - i + 1 >= Limit BY <1>2, <1>17, <2>1, <2>3
            <4> QED BY <1>3, <4>3, <4>4, <4>5, <4>6, <4>7
        <3> QED BY <2>1, <3>1, <3>2
    <2> QED BY <1>8, <2>2, <2>3
<1> QED BY <1>10, <1>12, <1>14, <1>15, <1>16, <1>17 DEF SlidingInv

\* A Tick keeps the members of the sliding window.
LEMMA SlidingTicks ==
    ASSUME LimiterTypeOK, TimesInv, SlidingInv, LimiterTick, UNCHANGED algo
    PROVE  SlidingInv'
<1> USE WindowAssumption
<1>1. /\ clock' = clock + 1 /\ clock \in Nat /\ UNCHANGED <<stamp, admitted, algo>>
      /\ \/ ends = clock + 1 /\ ~NoKey /\ NoKey' /\ members' = {}
         \/ UNCHANGED <<ends, members>> /\ NoKey' = NoKey
    BY TickMoves
<1>2. Count' = Count /\ \A i : TimeOf(i)' = TimeOf(i) BY <1>1 DEF Count, TimeOf
<1>3. Count \in Nat /\ \A i \in 1..Count : TimeOf(i) \in Nat /\ TimeOf(i) <= clock
    BY RecordTypes DEF TimesInv
<1>4. \A i, j \in 1..Count' : j - i >= Limit => TimeOf(i)' + Window - Lag <= TimeOf(j)'
    BY <1>2 DEF SlidingInv
<1>5. CASE ends = clock + 1 /\ ~NoKey /\ NoKey' /\ members' = {}
    <2>1. \A i \in 1..Count : TimeOf(i) + Window - Lag <= clock'
        BY <1>1, <1>3, <1>5 DEF SlidingInv
    <2> QED BY <1>2, <1>4, <1>5, <2>1 DEF SlidingInv
<1>6. CASE UNCHANGED <<ends, members>> /\ NoKey' = NoKey
    <2>1. \A i \in (1..Count) \ members : TimeOf(i) + Window - Lag <= clock'
        BY <1>1, <1>3 DEF SlidingInv
    <2> QED BY <1>2, <1>4, <1>6, <2>1 DEF SlidingInv
<1> QED BY <1>1, <1>5, <1>6

-----------------------------------------------------------------------------
\* No limiter has admitted a request.
LEMMA LimiterStarts == LimiterInit => LimiterInv
<1> SUFFICES ASSUME LimiterInit PROVE LimiterInv OBVIOUS
<1> USE WindowAssumption
<1>1. /\ algo \in Algorithms /\ clock = Lag /\ ends = 0 /\ level = 0 /\ stamp = 0
      /\ admitted = <<>> /\ members = {}
    BY DEF LimiterInit
<1>2. admitted \in Seq(Record) /\ Count = 0 /\ NoKey BY <1>1 DEF Count, NoKey
<1>3. 1..Count = {} BY <1>2
<1>4. LimiterTypeOK
    <2>1. Cardinality({}) = 0 BY FS_EmptySet
    <2> QED BY <1>1, <1>2, <2>1 DEF LimiterTypeOK, Record
<1>5. TimesInv BY <1>1, <1>2, <1>3 DEF TimesInv
<1>6. FixedInv BY <1>1, <1>2, <1>3 DEF FixedInv
<1>7. SlidingInv BY <1>1, <1>2, <1>3 DEF SlidingInv
<1>8. BucketInv BY <1>2 DEF BucketInv
<1>9. DebtInv BY <1>2, <1>3 DEF DebtInv
<1>10. BriefInv BY <1>2, <1>3 DEF BriefInv
<1> QED BY <1>4, <1>5, <1>6, <1>7, <1>8, <1>9, <1>10 DEF LimiterInv

\* Every request and every Tick keeps the invariant of the algorithm that runs.
LEMMA LimiterSteps == LimiterInv /\ [LimiterNext]_limiterVars => LimiterInv'
<1> SUFFICES ASSUME LimiterInv, [LimiterNext]_limiterVars PROVE LimiterInv' OBVIOUS
<1>1. LimiterTypeOK /\ TimesInv BY DEF LimiterInv
<1>2. CASE LimiterTick /\ UNCHANGED algo
    <2>1. LimiterTypeOK' /\ TimesInv' BY <1>1, <1>2, TickMoves
    <2>2. algo = "fixed" => FixedInv' BY <1>1, <1>2, FixedTicks DEF LimiterInv
    <2>3. algo = "sliding" => SlidingInv' BY <1>1, <1>2, SlidingTicks DEF LimiterInv
    <2>4. algo \in Buckets => BucketInv' BY <1>1, <1>2, BucketTicks DEF LimiterInv, Buckets
    <2>5. algo \in {"token", "leaky"} => DebtInv' BY <1>1, <1>2, DebtTicks DEF LimiterInv
    <2>6. algo = "brief" => BriefInv' BY <1>1, <1>2, BriefTicks DEF LimiterInv
    <2> QED BY <1>2, <2>1, <2>2, <2>3, <2>4, <2>5, <2>6 DEF LimiterInv, Buckets
<1>3. CASE AllowFixed /\ UNCHANGED <<algo, clock>>
    <2>1. algo = "fixed" BY <1>3 DEF AllowFixed
    <2>2. FixedInv BY <2>1 DEF LimiterInv
    <2> QED BY <1>1, <1>3, <2>1, <2>2, FixedKept DEF LimiterInv
<1>4. ASSUME NEW now \in (clock - Lag)..clock, AllowSliding(now), UNCHANGED <<algo, clock>>
      PROVE  LimiterInv'
    <2>1. algo = "sliding" BY <1>4 DEF AllowSliding
    <2>2. SlidingInv BY <2>1 DEF LimiterInv
    <2> QED BY <1>1, <1>4, <2>1, <2>2, SlidingKept DEF LimiterInv
<1>5. ASSUME NEW now \in (clock - Lag)..clock, UNCHANGED <<algo, clock>>,
             AllowToken(now) \/ AllowBrief(now) \/ AllowLeaky(now)
      PROVE  LimiterInv'
    <2>1. algo \in Buckets BY <1>5 DEF AllowToken, AllowBrief, AllowLeaky, Buckets
    <2>2. BucketInv BY <2>1 DEF LimiterInv, Buckets
    <2>3. LimiterTypeOK' /\ TimesInv' /\ \E d \in Nat, yes \in BOOLEAN : BucketMove(now, d, yes)
        BY <1>1, <1>5, <2>2, BucketMoves
    <2>4. PICK d \in Nat, yes \in BOOLEAN : BucketMove(now, d, yes) BY <2>3
    <2>5. now \in Int BY <2>4 DEF BucketMove
    <2>6. BucketInv' BY <1>1, <2>2, <2>4, <2>5, BucketKept
    <2>7. algo \in {"token", "leaky"} => DebtInv'
        BY <1>1, <2>2, <2>4, <2>5, DebtKept DEF LimiterInv
    <2>8. algo = "brief" => BriefInv' BY <1>1, <2>2, <2>4, <2>5, BriefKept DEF LimiterInv
    <2>9. algo # "fixed" /\ algo # "sliding" BY <2>1 DEF Buckets
    <2> QED BY <1>5, <2>3, <2>6, <2>7, <2>8, <2>9 DEF LimiterInv
<1>6. CASE UNCHANGED limiterVars
    BY <1>6 DEF LimiterInv, limiterVars, LimiterTypeOK, TimesInv, FixedInv, SlidingInv,
                BucketInv, DebtInv, BriefInv, NoKey, Count, TimeOf, Reading, InWindow, Debt, LastUse, Span
<1> QED BY <1>2, <1>3, <1>4, <1>5, <1>6 DEF LimiterNext

\* A request that far after another one is out of its window.
LEMMA WithinFew ==
    ASSUME LimiterTypeOK, NEW n \in Nat, NEW length \in Int,
           \A i, j \in 1..Count : j - i >= n => TimeOf(i) + length <= TimeOf(j)
    PROVE  \A i \in 1..Count : Within(i, length) <= n
<1> SUFFICES ASSUME NEW i \in 1..Count PROVE Within(i, length) <= n OBVIOUS
<1> DEFINE S == {j \in i..Count : TimeOf(j) < TimeOf(i) + length}
<1>1. Count \in Nat /\ \A j \in 1..Count : TimeOf(j) \in Nat BY RecordTypes
<1>2. S \subseteq i..(i + n - 1)
    <2> SUFFICES ASSUME NEW j \in i..Count, TimeOf(j) < TimeOf(i) + length PROVE j <= i + n - 1
        BY <1>1
    <2>1. j \in 1..Count BY <1>1
    <2>2. ~(j - i >= n) BY <1>1, <2>1
    <2> QED BY <1>1, <2>1, <2>2
<1>3. IsFiniteSet(i..(i + n - 1)) /\ Cardinality(i..(i + n - 1)) = n
    <2>1. i \in Int /\ i + n - 1 \in Int BY <1>1
    <2>2. CASE n = 0
        <3>1. i..(i + n - 1) = {} BY <2>1, <2>2
        <3> QED BY <2>2, <3>1, FS_EmptySet
    <2>3. CASE n > 0 BY <2>1, <2>3, FS_Interval
    <2> QED BY <2>2, <2>3
<1>4. Cardinality(S) <= n
    <2> HIDE DEF S
    <2>1. Cardinality(S) <= Cardinality(i..(i + n - 1)) BY <1>2, <1>3, FS_Subset
    <2> QED BY <1>3, <2>1
<1>5. Within(i, length) = Cardinality(S) BY DEF Within, Count, TimeOf
<1> QED BY <1>4, <1>5

\* The inductive invariant of the limiters.
THEOREM LimiterInvariant == LimiterSpec => []LimiterInv
BY LimiterStarts, LimiterSteps, PTL DEF LimiterSpec

\* What the invariant of a limiter says of its windows.
LEMMA LimiterInvHolds == LimiterInv => LimitsHold
<1> SUFFICES ASSUME LimiterInv PROVE LimitsHold OBVIOUS
<1> USE WindowAssumption
<1>1. LimiterTypeOK /\ Count \in Nat /\ DOMAIN admitted = 1..Count
      /\ \A i \in 1..Count : TimeOf(i) \in Nat
    BY RecordTypes DEF LimiterInv
<1>2. algo = "fixed" => FixedBound
    <2> SUFFICES ASSUME algo = "fixed" PROVE FixedBound OBVIOUS
    <2>1. \A i, j \in 1..Count : j - i >= 2 * Limit => TimeOf(i) + Window <= TimeOf(j)
        BY DEF LimiterInv, FixedInv
    <2>2. 2 * Limit \in Nat /\ Window \in Int OBVIOUS
    <2>3. \A i \in 1..Count : Within(i, Window) <= 2 * Limit BY <1>1, <2>1, <2>2, WithinFew
    <2> QED BY <1>1, <2>3 DEF FixedBound
<1>3. algo = "sliding" => SlidingBound
    <2> SUFFICES ASSUME algo = "sliding" PROVE SlidingBound OBVIOUS
    <2>1. \A i, j \in 1..Count : j - i >= Limit => TimeOf(i) + (Window - Lag) <= TimeOf(j)
        BY <1>1 DEF LimiterInv, SlidingInv
    <2>2. Limit \in Nat /\ Window - Lag \in Int OBVIOUS
    <2>3. \A i \in 1..Count : Within(i, Window - Lag) <= Limit
        BY <1>1, <2>1, <2>2, WithinFew
    <2> QED BY <1>1, <2>3 DEF SlidingBound
<1>4. algo \in {"token", "leaky"} => BucketBound
    BY <1>1 DEF LimiterInv, DebtInv, BucketBound, Reading
<1>5. algo = "brief" => BriefBound
    <2> SUFFICES ASSUME algo = "brief", NEW i \in 1..Count, NEW j \in 1..Count, i <= j
                 PROVE  j - i + 1 <= Limit + Rate * ((TimeOf(j) - TimeOf(i))
                                      + Lag * (1 + (TimeOf(j) - TimeOf(i)) \div BriefIdle))
        BY <1>1 DEF BriefBound, TimeOf
    <2> DEFINE d == TimeOf(j) - TimeOf(i)
               q == d \div BriefIdle
    <2>1. d \in Nat BY <1>1 DEF LimiterInv, TimesInv
    <2>2. q \in Nat
        <3> HIDE DEF d
        <3> QED BY <2>1, BriefIsLong, SMT
    <2>3. j - i + 1 <= Limit + Rate * (d + Lag + Forgets(d)) BY DEF LimiterInv, BriefInv
    <2>4. d + Lag + Forgets(d) = d + Lag * (1 + q)
        <3> HIDE DEF d
        <3>1. Forgets(d) = Lag * q BY DEF Forgets
        <3> HIDE DEF q
        <3>2. Lag * (1 + q) = Lag + Lag * q /\ Lag * q \in Nat BY <2>2, SMT
        <3> QED BY <2>1, <3>1, <3>2
    <2> QED BY <2>3, <2>4
<1> QED BY <1>2, <1>3, <1>4, <1>5 DEF LimitsHold

\* Each limiter keeps its bound, for every limit, window, rate, ttl and lag.
THEOREM LimitersHold == LimiterSpec => []LimitsHold
BY LimiterInvHolds, LimiterInvariant, PTL

-----------------------------------------------------------------------------
(* The watchdog of lab 05: an argument about ticks.  WatchdogInv bounds from below what   *)
(* is left of the ttl by where the watchdog is in its round.                             *)

USE TTLAssumption, DelayAssumption, StraysAssumption, TokensAssumption

\* What the ttl of p's lock still has at least, for the place of p's watchdog: the
\* delay of the start is on the first round, and a Refresh may be late by as much.
Enough(p) ==
    /\ lockKey = p
    /\ dog[p].at \in {"starting", "ticking", "due"}
    /\ dog[p].at = "starting" => dog[p].t <= MaxDelay /\ left + dog[p].t >= TTL
    /\ dog[p].at = "ticking" => dog[p].t < Period /\ left + dog[p].t >= TTL - MaxDelay
    /\ dog[p].at = "due" =>
          dog[p].t <= MaxDelay /\ left + dog[p].t >= TTL - MaxDelay - Period

\* The lock of a goroutine at work is kept with enough of its ttl, but for an excuse.
KeptInv ==
    /\ lapsed \subseteq excused
    /\ \A p \in G : p \in AtWork /\ p \notin excused => Enough(p)

\* p's SET, if it is executed now, makes the counter the number of those who wrote.
WriteDue(p, v) == v = counter + IF p \in wrote THEN 0 ELSE 1

\* A goroutine at work whose lock did not lapse holds the key, so it is alone; what it is
\* about to write is due, and so is what was sent since the last read and may still come.
CountInv ==
    /\ \A p \in G : p \in AtWork /\ p \notin lapsed => lockKey = p
    /\ \A m \in astray : m.op = "release" => pc[m.by] \in {"release", "done"}
    /\ IsFiniteSet(wrote)
    /\ \A p \in wrote : pc[p] \in {"write", "release", "done"}
    /\ \A m \in astray : m.op = "set" => pc[m.by] \in {"write", "release", "done"}
    /\ lapsed = {} /\ ~misread /\ ~overrun =>
          /\ counter = Cardinality(wrote)
          /\ \A p \in G : pc[p] = "write" => WriteDue(p, cur[p] + 1)
          /\ \A m \in astray \ behind : m.op = "set" =>
                /\ WriteDue(m.by, m.val)
                /\ \A p \in G : pc[p] = "write" => p = m.by
                /\ \A o \in astray \ behind : o.op = "set" => o.by = m.by

WatchdogInv == WatchdogTypeOK /\ KeptInv /\ CountInv

\* Arithmetic of the ttl: a third of it is a whole number of ticks, at least one.
LEMMA PeriodFacts ==
    Period \in Nat /\ Period >= 1 /\ Period <= TTL /\ MaxDelay < Period
    /\ 2 * MaxDelay + Period < TTL
BY SMT DEF Period

\* One tick of a watchdog stays in its type, and below the bound of the model.
LEMMA AgedType ==
    ASSUME NEW d \in [at : {"off", "starting", "ticking", "due"}, t : 0..TTL]
    PROVE  Aged(d) \in [at : {"off", "starting", "ticking", "due"}, t : 0..TTL]
<1> USE PeriodFacts DEF Aged, Dog
<1>1. CASE d.at = "off" BY <1>1
<1>2. CASE d.at = "ticking" BY <1>2
<1>3. CASE d.at \in {"starting", "due"}
    <2>1. Aged(d) = [d EXCEPT !.t = IF d.t >= MaxDelay THEN d.t ELSE d.t + 1] BY <1>3
    <2>2. (IF d.t >= MaxDelay THEN d.t ELSE d.t + 1) \in 0..TTL BY SMT
    <2> QED BY <2>1, <2>2
<1> QED BY <1>1, <1>2, <1>3

\* The first state has the types.
LEMMA WatchdogTypeInit == WatchdogInit => WatchdogTypeOK
<1> SUFFICES ASSUME WatchdogInit PROVE WatchdogTypeOK
    OBVIOUS
<1> USE DEF WatchdogInit, WatchdogTypeOK
<1>1. misread \in BOOLEAN /\ overrun \in BOOLEAN /\ wrote \subseteq G /\ lapsed \subseteq G /\ excused \subseteq G
    BY Zenon
<1>2. dog \in [G -> [at : {"off", "starting", "ticking", "due"}, t : 0..TTL]]
    BY SMT DEF Dog
<1>3. (lockKey = "free") = (left = 0)
    OBVIOUS
<1> QED BY <1>1, <1>2, <1>3

\* Every step keeps the types.
LEMMA WatchdogTypeStep == WatchdogTypeOK /\ [WatchdogNext]_watchdogVars => WatchdogTypeOK'
<1> SUFFICES ASSUME WatchdogTypeOK, [WatchdogNext]_watchdogVars PROVE WatchdogTypeOK'
    OBVIOUS
<1> USE DEF WatchdogTypeOK, work, account, network, Dog
<1>1. CASE Tick
    <2>1. dog' \in [G -> [at : {"off", "starting", "ticking", "due"}, t : 0..TTL]]
        BY <1>1, AgedType DEF Tick
    <2>2. left' \in 0..TTL /\ lockKey' \in G \cup {"free", "orphan"}
          /\ (lockKey' = "free") = (left' = 0)
        BY <1>1 DEF Tick
    <2>3. lapsed' \subseteq G /\ excused' \subseteq G
        BY <1>1 DEF Tick, AtWork
    <2>4. UNCHANGED <<work, network>>
        BY <1>1 DEF Tick
    <2> QED BY <2>1, <2>2, <2>3, <2>4
<1>2. ASSUME NEW p \in G, Step(p) PROVE WatchdogTypeOK'
    <2>1. CASE Acquire(p) BY <2>1, PeriodFacts DEF Acquire
    <2>2. CASE GiveUp(p) BY <2>2 DEF GiveUp
    <2>3. CASE StartTicker(p) BY <2>3 DEF StartTicker
    <2>4. CASE ReadCounter(p)
        <3>1. misread' \in BOOLEAN BY <2>4, Zenon DEF ReadCounter
        <3>2. cur' \in [G -> Nat] /\ pc' \in [G -> {"spin", "read", "write", "release", "done"}]
            BY <2>4 DEF ReadCounter
        <3>3. /\ UNCHANGED <<lockKey, left, account, dog, lapsed, excused, astray, strays>>
              /\ behind' \subseteq astray
            BY <2>4 DEF ReadCounter
        <3> QED BY <3>1, <3>2, <3>3
    <2>5. CASE WriteCounter(p) BY <2>5 DEF WriteCounter, SetCounter
    <2>6. CASE Release(p) BY <2>6 DEF Release, Delete
    <2>7. CASE Refresh(p) BY <2>7 DEF Refresh, Extend
    <2>8. CASE RefreshFails(p) BY <2>8 DEF RefreshFails, Extend
    <2>9. CASE WatchdogStops(p) BY <2>9 DEF WatchdogStops
    <2>10. CASE Abandon(p)
        <3>1. /\ strays < MaxStrays /\ strays' = strays + 1
              /\ UNCHANGED <<work, lockKey, left, dog, lapsed, excused, behind>>
            BY <2>10 DEF Abandon
        <3>2. PICK c \in Sent(p) :
                 astray' = astray \cup {Attempt(c, p, IF c = "set" THEN cur[p] + 1 ELSE 0, strays')}
            BY <2>10 DEF Abandon
        <3>3. c \in {"setnx", "set", "release", "refresh"} BY DEF Sent
        <3>4. Attempt(c, p, IF c = "set" THEN cur[p] + 1 ELSE 0, strays') \in Attempts
            <4>1. cur[p] + 1 \in Nat /\ strays' \in 1..MaxStrays BY <3>1
            <4> QED BY <3>3, <4>1 DEF Attempt, Attempts
        <3> QED BY <3>1, <3>2, <3>4
    <2> QED BY <1>2, <2>1, <2>2, <2>3, <2>4, <2>5, <2>6, <2>7, <2>8, <2>9, <2>10 DEF Step
<1>4. ASSUME NEW m \in astray, ServeLate(m) PROVE WatchdogTypeOK'
    <2>1. /\ astray' = astray \ {m} /\ behind' = behind \ {m}
          /\ UNCHANGED <<pc, cur, dog, lapsed, excused, misread, strays>>
        BY <1>4 DEF ServeLate
    <2>2. m.by \in G /\ m.val \in Nat BY DEF Attempts
    <2>3. /\ lockKey' \in G \cup {"free", "orphan"} /\ left' \in 0..TTL
          /\ (lockKey' = "free") = (left' = 0)
        BY <1>4, <2>2 DEF ServeLate, LateSetNX, Delete, Extend
    <2>4. counter' \in Nat /\ wrote' \subseteq G
        BY <1>4, <2>2 DEF ServeLate, SetCounter
    <2>5. overrun' \in BOOLEAN BY <1>4, Zenon DEF ServeLate
    <2> QED BY <2>1, <2>3, <2>4, <2>5
<1>3. CASE UNCHANGED watchdogVars BY <1>3 DEF watchdogVars
<1> QED BY <1>1, <1>2, <1>3, <1>4 DEF WatchdogNext

\* Every step keeps KeptInv: a Refresh comes before the ttl is up, unless its round has
\* an excuse, so that a Tick never takes the last of an unexcused ttl.
LEMMA KeptStep ==
    ASSUME WatchdogInv, [WatchdogNext]_watchdogVars, WatchdogTypeOK'
    PROVE  KeptInv'
<1> USE PeriodFacts DEF WatchdogInv, WatchdogTypeOK, KeptInv, Enough, AtWork, work, account, network, Dog
<1>1. CASE Tick
    <2>1. ASSUME NEW q \in G, q \in AtWork, q \notin excused'
          PROVE  Enough(q)' /\ left > 1
        <3>1. Enough(q) BY <1>1, <2>1 DEF Tick
        <3>2. /\ left' = left - 1 \/ (left = 0 /\ left' = 0)
              /\ left > 1 => left' = left - 1 /\ lockKey' = lockKey
              /\ dog'[q] = Aged(dog[q])
            BY <1>1 DEF Tick
        <3>3. dog[q].at \in {"starting", "due"} => dog[q].t < MaxDelay
            BY <1>1, <2>1 DEF Tick
        <3>4. CASE dog[q].at = "starting"
            <4>1. dog'[q].at = "starting" /\ dog'[q].t = dog[q].t + 1
                BY <3>2, <3>3, <3>4 DEF Aged
            <4> QED BY <3>1, <3>2, <3>3, <3>4, <4>1
        <3>5. CASE dog[q].at = "due"
            <4>1. dog'[q].at = "due" /\ dog'[q].t = dog[q].t + 1
                BY <3>2, <3>3, <3>5 DEF Aged
            <4> QED BY <3>1, <3>2, <3>3, <3>5, <4>1
        <3>6. CASE dog[q].at = "ticking"
            <4>1. dog'[q] = IF dog[q].t + 1 >= Period THEN Dog("due", 0)
                                                      ELSE Dog("ticking", dog[q].t + 1)
                BY <3>2, <3>6 DEF Aged
            <4> QED BY <3>1, <3>2, <3>6, <4>1
        <3> QED BY <3>1, <3>4, <3>5, <3>6
    <2>2. lapsed' \subseteq excused'
        <3>1. lapsed \subseteq excused /\ excused \subseteq excused'
            BY <1>1 DEF Tick
        <3>2. ASSUME left = 1, lockKey \in AtWork PROVE lockKey \in excused'
            BY <2>1, <3>2
        <3>3. lapsed' = lapsed \cup (IF left = 1 THEN {lockKey} \cap AtWork ELSE {})
            BY <1>1 DEF Tick
        <3> HIDE DEF AtWork, KeptInv, WatchdogInv, WatchdogTypeOK
        <3>4. lapsed' \subseteq lapsed \cup excused'
            BY <3>2, <3>3, Zenon
        <3> QED BY <3>1, <3>4, Zenon
    <2>3. AtWork' = AtWork BY <1>1 DEF Tick
    <2> QED BY <2>1, <2>2, <2>3
<1>2. ASSUME NEW p \in G, Step(p) PROVE KeptInv'
    <2>1. CASE Acquire(p)
        <3>1. ASSUME NEW q \in G, q \in AtWork', q \notin excused' PROVE Enough(q)'
            <4>1. q # p => q \in AtWork BY <2>1, <3>1 DEF Acquire
            <4>2. q = p \/ FALSE BY <2>1, <3>1, <4>1 DEF Acquire
            <4>3. pc[p] = "spin" BY <2>1 DEF Acquire
            <4>4. lockKey' = p /\ left' = TTL /\ dog'[p] = Dog("starting", 0)
                BY <2>1, <3>1, <4>2, <4>3 DEF Acquire
            <4> QED BY <4>2, <4>4
        <3> QED BY <2>1, <3>1 DEF Acquire
    <2>2. CASE GiveUp(p) BY <2>2 DEF GiveUp
    <2>3. CASE StartTicker(p) BY <2>3 DEF StartTicker
    <2>4. CASE ReadCounter(p) BY <2>4 DEF ReadCounter
    <2>5. CASE WriteCounter(p) BY <2>5 DEF WriteCounter
    <2>6. CASE Release(p) BY <2>6 DEF Release, Delete
    <2>7. CASE Refresh(p)
        <3>1. ASSUME NEW q \in G, q \in AtWork', q \notin excused' PROVE Enough(q)'
            <4>1. Enough(q) BY <2>7, <3>1 DEF Refresh
            <4>2. CASE lockKey = p
                <5>1. q = p BY <4>1, <4>2
                <5>2. dog'[p].at = "ticking" /\ dog'[p].t = dog[p].t /\ left' = TTL
                      /\ lockKey' = lockKey
                    BY <2>7, <4>2 DEF Refresh, Extend
                <5> QED BY <4>1, <5>1, <5>2, <2>7 DEF Refresh, Extend
            <4>3. CASE lockKey # p BY <2>7, <4>1, <4>3 DEF Refresh, Extend
            <4> QED BY <4>2, <4>3
        <3> QED BY <2>7, <3>1 DEF Refresh, Extend
    <2>8. CASE RefreshFails(p)
        <3>1. ASSUME NEW q \in G, q \in AtWork', q \notin excused' PROVE Enough(q)'
            <4>1. q # p /\ Enough(q) BY <2>8, <3>1 DEF RefreshFails
            <4>2. dog'[q] = dog[q] /\ left' = left /\ lockKey' = lockKey
                BY <2>8, <4>1 DEF RefreshFails, Extend
            <4> QED BY <4>1, <4>2
        <3> QED BY <2>8, <3>1 DEF RefreshFails
    <2>9. CASE WatchdogStops(p) BY <2>9 DEF WatchdogStops
    <2>10. CASE Abandon(p) BY <2>10 DEF Abandon
    <2> QED BY <1>2, <2>1, <2>2, <2>3, <2>4, <2>5, <2>6, <2>7, <2>8, <2>9, <2>10 DEF Step
<1>4. ASSUME NEW m \in astray, ServeLate(m) PROVE KeptInv'
    <2>1. UNCHANGED <<pc, dog, lapsed, excused>> BY <1>4 DEF ServeLate
    <2>2. ASSUME NEW q \in G, q \in AtWork, q \notin excused
          PROVE  lockKey' = q /\ left' >= left /\ left' \in Nat
        <3>1. Enough(q) /\ lockKey = q /\ lockKey # "free" BY <2>2
        <3>2. m.op = "release" => m.by # q BY <2>2 DEF CountInv
        <3> QED BY <1>4, <3>1, <3>2 DEF ServeLate, LateSetNX, Delete, Extend
    <2>3. ASSUME NEW q \in G, q \in AtWork', q \notin excused' PROVE Enough(q)'
        <3>1. q \in AtWork /\ q \notin excused /\ Enough(q) BY <2>1, <2>3
        <3>2. lockKey' = q /\ left' >= left /\ left' \in Nat BY <2>2, <3>1
        <3> QED BY <2>1, <3>1, <3>2
    <2> QED BY <2>1, <2>3
<1>3. CASE UNCHANGED watchdogVars BY <1>3 DEF watchdogVars
<1> QED BY <1>1, <1>2, <1>3, <1>4 DEF WatchdogNext

\* A SET of what is due makes the counter the number of those who wrote, and what was due
\* afterwards is what was due before.
LEMMA SetDue ==
    ASSUME NEW p \in G, NEW v \in Nat, wrote \subseteq G, IsFiniteSet(wrote), WriteDue(p, v),
           counter = Cardinality(wrote), SetCounter(p, v)
    PROVE  counter' = Cardinality(wrote') /\ WriteDue(p, v)'
<1>1. counter' = v /\ wrote' = wrote \cup {p} /\ p \in wrote' BY DEF SetCounter
<1>2. CASE p \in wrote
    <2>1. wrote' = wrote BY <1>1, <1>2
    <2>2. counter \in Nat BY FS_CardinalityType
    <2>3. v = counter BY <1>2, <2>2 DEF WriteDue
    <2>4. counter' = counter BY <1>1, <2>3
    <2> QED BY <1>2, <2>1, <2>3, <2>4 DEF WriteDue
<1>3. CASE p \notin wrote
    <2>1. v = counter + 1 /\ Cardinality(wrote') = Cardinality(wrote) + 1
        BY <1>1, <1>3, CountMore DEF WriteDue
    <2> QED BY <1>1, <2>1 DEF WriteDue
<1> QED BY <1>2, <1>3

\* Every step keeps CountInv: reading, adding one and writing back under the lock is one
\* step of the counter, and a repetition of the SET is none as long as nobody read since.
LEMMA CountStep ==
    ASSUME WatchdogInv, [WatchdogNext]_watchdogVars, WatchdogTypeOK'
    PROVE  CountInv'
<1> USE DEF WatchdogInv, WatchdogTypeOK, CountInv, AtWork, WriteDue, work, account, network, Dog
<1>1. CASE Tick
    <2>1. /\ UNCHANGED <<work, network>> /\ AtWork' = AtWork
          /\ lapsed' = lapsed \cup (IF left = 1 THEN {lockKey} \cap AtWork ELSE {})
          /\ lockKey' = IF left <= 1 THEN "free" ELSE lockKey
        BY <1>1 DEF Tick
    <2>2. ASSUME NEW q \in G, q \in AtWork', q \notin lapsed' PROVE lockKey' = q
        <3>1. lockKey = q /\ q \in AtWork BY <2>1, <2>2
        <3>2. left # 0 BY <3>1
        <3>3. left # 1 BY <2>1, <2>2, <3>1
        <3> QED BY <2>1, <3>1, <3>2, <3>3
    <2>3. lapsed' = {} => lapsed = {} BY <2>1
    <2> QED BY <2>1, <2>2, <2>3
<1>2. ASSUME NEW p \in G, Step(p) PROVE CountInv'
    <2>1. CASE Acquire(p)
        <3>1. /\ pc[p] = "spin" /\ lockKey = "free" /\ lockKey' = p
              /\ pc' = [pc EXCEPT ![p] = "read"]
              /\ UNCHANGED <<cur, account, lapsed, misread, network>>
            BY <2>1 DEF Acquire
        <3>2. \A q \in G : pc'[q] = "write" <=> pc[q] = "write" BY <3>1
        <3>3. \A q \in G : q \in AtWork' /\ q \notin lapsed' => q = p BY <3>1
        <3>4. \A q \in G : pc'[q] # pc[q] => q = p BY <3>1
        <3>5. \A m \in astray : m.by \in G BY DEF Attempts
        <3>6. \A m \in astray : m.op = "release" => pc'[m.by] \in {"release", "done"}
            BY <3>1, <3>5
        <3> QED BY <3>1, <3>2, <3>3, <3>4, <3>5, <3>6
    <2>2. CASE GiveUp(p) BY <2>2 DEF GiveUp
    <2>3. CASE StartTicker(p) BY <2>3 DEF StartTicker
    <2>4. CASE ReadCounter(p) BY <2>4 DEF ReadCounter
    <2>5. CASE WriteCounter(p)
        <3>1. /\ pc[p] = "write" /\ pc' = [pc EXCEPT ![p] = "release"]
              /\ SetCounter(p, cur[p] + 1) \/ UNCHANGED <<counter, wrote>>
              /\ cur' = [cur EXCEPT ![p] = 0]
              /\ UNCHANGED <<lockKey, left, overrun, dog, lapsed, excused, misread, network>>
            BY <2>5 DEF WriteCounter
        <3>2. CASE UNCHANGED <<counter, wrote>> BY <3>1, <3>2
        <3>3. CASE SetCounter(p, cur[p] + 1)
            <4>1. /\ IsFiniteSet(wrote') /\ wrote' = wrote \cup {p}
                BY <3>3, CountMore, FS_AddElement DEF SetCounter
            <4>2. /\ \A q \in G : q \in AtWork' /\ q \notin lapsed' => lockKey' = q
                  /\ \A m \in astray' : m.op = "release" => pc'[m.by] \in {"release", "done"}
                  /\ \A q \in wrote' : pc'[q] \in {"write", "release", "done"}
                  /\ \A m \in astray' : m.op = "set" => pc'[m.by] \in {"write", "release", "done"}
                BY <3>1, <4>1
            <4> SUFFICES ASSUME lapsed = {}, ~misread, ~overrun
                         PROVE  /\ counter' = Cardinality(wrote')
                                /\ \A q \in G : pc'[q] = "write" => WriteDue(q, cur[q] + 1)'
                                /\ \A m \in astray \ behind : m.op = "set" =>
                                      /\ WriteDue(m.by, m.val)'
                                      /\ \A q \in G : pc'[q] = "write" => q = m.by
                                      /\ \A o \in astray \ behind : o.op = "set" => o.by = m.by
                BY <3>1, <4>1, <4>2
            <4>3. cur[p] + 1 \in Nat /\ WriteDue(p, cur[p] + 1) /\ counter = Cardinality(wrote)
                BY <3>1
            <4>4. counter' = Cardinality(wrote') /\ counter' = cur[p] + 1 /\ p \in wrote'
                <5>1. wrote \subseteq G /\ IsFiniteSet(wrote) OBVIOUS
                <5> HIDE DEF WriteDue
                <5>2. PICK v \in Nat : v = cur[p] + 1 BY <4>3
                <5>3. WriteDue(p, v) /\ SetCounter(p, v) BY ONLY <3>3, <4>3, <5>2
                <5>4. counter' = Cardinality(wrote') /\ WriteDue(p, v)'
                    BY ONLY <4>3, <5>1, <5>3, SetDue
                <5>5. counter' = v /\ p \in wrote' BY <5>3 DEF SetCounter
                <5> QED BY <5>2, <5>4, <5>5
            <4>5. \A q \in G : pc'[q] # "write"
                BY <3>1
            <4>6. ASSUME NEW m \in astray \ behind, m.op = "set" PROVE m.by = p /\ m.val = cur[p] + 1
                BY <3>1, <4>6
            <4>7. ASSUME NEW m \in astray \ behind, m.op = "set" PROVE WriteDue(m.by, m.val)'
                <5>1. m.by = p /\ m.val = cur[p] + 1 /\ counter' \in Nat BY <4>3, <4>4, <4>6, <4>7
                <5>2. counter' + 0 = m.val BY ONLY <4>4, <5>1
                <5> QED BY <4>4, <5>1, <5>2
            <4> QED BY <4>4, <4>5, <4>6, <4>7
        <3> QED BY <3>1, <3>2, <3>3
    <2>6. CASE Release(p) BY <2>6 DEF Release, Delete
    <2>7. CASE Refresh(p) BY <2>7 DEF Refresh, Extend
    <2>8. CASE RefreshFails(p) BY <2>8 DEF RefreshFails, Extend
    <2>9. CASE WatchdogStops(p) BY <2>9 DEF WatchdogStops
    <2>10. CASE Abandon(p)
        <3>1. PICK c \in Sent(p) :
                 astray' = astray \cup {Attempt(c, p, IF c = "set" THEN cur[p] + 1 ELSE 0, strays')}
            BY <2>10 DEF Abandon
        <3> DEFINE a == Attempt(c, p, IF c = "set" THEN cur[p] + 1 ELSE 0, strays')
        <3>2. /\ UNCHANGED <<work, lockKey, left, dog, lapsed, excused, behind>>
              /\ astray' = astray \cup {a}
            BY <2>10, <3>1 DEF Abandon
        <3>3. /\ a.by = p /\ a.op = c
              /\ c = "set" => pc[p] = "write" /\ a.val = cur[p] + 1
              /\ c = "release" => pc[p] = "release"
            BY DEF Attempt, Sent
        <3> HIDE DEF a
        <3>4. \A q \in G : pc[p] = "write" /\ pc[q] = "write" /\ lapsed = {} => q = p
            OBVIOUS
        <3> QED BY <3>2, <3>3, <3>4
    <2> QED BY <1>2, <2>1, <2>2, <2>3, <2>4, <2>5, <2>6, <2>7, <2>8, <2>9, <2>10 DEF Step
<1>4. ASSUME NEW m \in astray, ServeLate(m) PROVE CountInv'
    <2>1. /\ astray' = astray \ {m} /\ behind' = behind \ {m}
          /\ UNCHANGED <<pc, cur, dog, lapsed, excused, misread, strays>>
          /\ overrun' = (overrun \/ m \in behind)
        BY <1>4 DEF ServeLate
    <2>2. m.by \in G /\ m.val \in Nat BY DEF Attempts
    <2>3. \A q \in G : q \in AtWork' /\ q \notin lapsed' => lockKey' = q
        BY <1>4, <2>1, <2>2 DEF ServeLate, LateSetNX, Delete, Extend
    <2>4. CASE m.op # "set"
        <3>1. UNCHANGED <<counter, wrote>> BY <1>4, <2>4 DEF ServeLate
        <3> QED BY <2>1, <2>3, <2>4, <3>1
    <2>5. CASE m.op = "set"
        <3>1. SetCounter(m.by, m.val) BY <1>4, <2>5 DEF ServeLate
        <3>2. wrote' = wrote \cup {m.by} /\ counter' = m.val /\ IsFiniteSet(wrote')
            BY <3>1, FS_AddElement DEF SetCounter
        <3>3. /\ \A o \in astray' : o.op = "release" => pc'[o.by] \in {"release", "done"}
              /\ \A q \in wrote' : pc'[q] \in {"write", "release", "done"}
              /\ \A o \in astray' : o.op = "set" => pc'[o.by] \in {"write", "release", "done"}
            BY <2>1, <2>5, <3>2
        <3> SUFFICES ASSUME lapsed = {}, ~misread, ~overrun'
                     PROVE  /\ counter' = Cardinality(wrote')
                            /\ \A q \in G : pc[q] = "write" => WriteDue(q, cur[q] + 1)'
                            /\ \A o \in astray' \ behind' : o.op = "set" =>
                                  /\ WriteDue(o.by, o.val)'
                                  /\ \A q \in G : pc[q] = "write" => q = o.by
                                  /\ \A r \in astray' \ behind' : r.op = "set" => r.by = o.by
            BY <2>1, <2>3, <3>2, <3>3
        <3>4. ~overrun /\ m \in astray \ behind BY <2>1
        <3>5. WriteDue(m.by, m.val) /\ counter = Cardinality(wrote) BY <2>5, <3>4
        <3>6. counter' = Cardinality(wrote')
            BY ONLY <2>2, <3>1, <3>5, SetDue, WatchdogInv DEF WatchdogInv, WatchdogTypeOK, CountInv
        <3>7. ASSUME NEW q \in G, pc[q] = "write" PROVE q = m.by /\ cur[q] + 1 = m.val
            BY <2>5, <3>4, <3>7
        <3>8. ASSUME NEW o \in astray' \ behind', o.op = "set"
              PROVE  /\ o.by = m.by /\ o.val = m.val
                     /\ \A q \in G : pc[q] = "write" => q = o.by
                     /\ \A r \in astray' \ behind' : r.op = "set" => r.by = o.by
            <4>1. o \in astray \ behind /\ astray' \ behind' \subseteq astray \ behind BY <2>1, <3>8
            <4> QED BY <2>5, <3>4, <3>8, <4>1
        <3>9. m.by \in wrote' /\ counter' \in Nat /\ counter' + 0 = m.val BY <2>2, <3>2
        <3>10. ASSUME NEW q \in G, pc[q] = "write" PROVE WriteDue(q, cur[q] + 1)'
            BY <2>1, <3>7, <3>9, <3>10
        <3>11. ASSUME NEW o \in astray' \ behind', o.op = "set" PROVE WriteDue(o.by, o.val)'
            BY <2>1, <3>8, <3>9, <3>11
        <3> QED BY <3>6, <3>8, <3>10, <3>11
    <2> QED BY <2>4, <2>5
<1>3. CASE UNCHANGED watchdogVars BY <1>3 DEF watchdogVars
<1> QED BY <1>1, <1>2, <1>3, <1>4 DEF WatchdogNext

\* Every step of the lab keeps the invariant.
LEMMA WatchdogSteps == WatchdogInv /\ [WatchdogNext]_watchdogVars => WatchdogInv'
BY WatchdogTypeStep, KeptStep, CountStep DEF WatchdogInv

\* Nobody is at work and the lock is free.
LEMMA WatchdogStarts == WatchdogInit => WatchdogInv
BY WatchdogTypeInit, FS_EmptySet DEF WatchdogInit, WatchdogInv, KeptInv, CountInv, AtWork

\* The inductive invariant of the watchdog (spinAcquire, startWatchdog, demoMutex100).
THEOREM WatchdogInvariant == WatchdogSpec => []WatchdogInv
BY WatchdogStarts, WatchdogSteps, PTL DEF WatchdogSpec

\* The values of the watchdog's lab keep their types.
THEOREM WatchdogTypeCorrect == WatchdogSpec => []WatchdogTypeOK
BY WatchdogInvariant, PTL DEF WatchdogInv

\* The account of ticks excuses every lapse.
LEMMA WatchdogInvKeeps == WatchdogInv => LapseOnlyExcused
BY DEF WatchdogInv, KeptInv, LapseOnlyExcused

\* A lock expires under a goroutine at work only after a Refresh failed or the watchdog
\* waited for more than MaxDelay, for any ttl that leaves room for two delays.
THEOREM LapseHolds == WatchdogSpec => []LapseOnlyExcused
BY WatchdogInvKeeps, WatchdogInvariant, PTL

\* Who is alone loses no update.
LEMMA WatchdogInvCounts == WatchdogInv => NoLostUpdate
BY DEF WatchdogInv, CountInv, NoLostUpdate

\* While no lock lapsed, no read failed and no SET came after the next read, the counter is
\* the number of goroutines whose SET was executed, though SETs are repeated and come late.
THEOREM NoLostUpdateHolds == WatchdogSpec => []NoLostUpdate
BY WatchdogInvCounts, WatchdogInvariant, PTL

=============================================================================
