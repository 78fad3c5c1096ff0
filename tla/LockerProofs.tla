---------------------------- MODULE LockerProofs ----------------------------
(* Proofs about Locker, for every set of processes and every bound. *)
EXTENDS LockerLease, TLAPS

USE DEF NoToken, Tokens, Commands, Labels, Outcomes, Waiting, Requests

\* A call's program counter, retry count and reply stay in their types when it
\* goes on to c.
LEMMA GoToType ==
    ASSUME TypeOK, NEW p \in Proc, NEW c \in Labels, GoTo(p, c)
    PROVE  /\ pc' \in [Proc -> Labels]
           /\ tries' \in [Proc -> 0..MaxRetries]
           /\ reply' \in [Proc -> Nat \cup {Waiting}]
BY LockerAssumption DEF TypeOK, GoTo

\* Abandoning an attempt keeps the set of late attempts in its type.
LEMMA AbandonType ==
    ASSUME TypeOK, NEW p \in Proc, pc[p] \in Commands, Abandon(p)
    PROVE  late' \subseteq Requests
BY DEF TypeOK, Abandon, Request

\* A call that ends, and its session with it, keeps the types.
LEMMA FinishType ==
    ASSUME TypeOK, NEW p \in Proc, NEW o \in Outcomes, Finish(p, o), late' \subseteq Requests
    PROVE  TypeOK'
BY GoToType DEF TypeOK, Finish, Forget, GoTo, server, session

\* A call that goes on with its Lock, or to its next command, keeps the types.
LEMMA KeepType ==
    ASSUME TypeOK, NEW p \in Proc, NEW c \in Labels \ {"idle"}, pc[p] # "idle",
           GoTo(p, c), Keep(p), fence' \in [Proc -> Nat], late' \subseteq Requests
    PROVE  TypeOK'
BY GoToType DEF TypeOK, Keep, GoTo, server, session, history

\* What the server does with a request keeps its keys in their types.
LEMMA ExecuteType ==
    ASSUME TypeOK, NEW m \in Requests, NEW r \in 0..(fenceKey + 1), Execute(m, r)
    PROVE  /\ lockKey' \in Tokens \cup {NoToken}
           /\ lockPX' \in BOOLEAN
           /\ fenceKey' \in Nat
           /\ r \in Nat
<1>1. m.op \in Commands /\ m.token \in Tokens
  BY DEF Requests
<1>2. r \in Nat
  BY DEF TypeOK
<1>3. fenceKey' \in Nat
  BY <1>2 DEF TypeOK, Execute, Incr
<1>4. lockKey' \in Tokens \cup {NoToken}
  BY <1>1 DEF TypeOK, Execute, SetNX, ReleaseScript, RefreshScript
<1>5. lockPX' \in BOOLEAN
  <2>1. CASE SetNX(m.token, m.ttl, r)
    BY <2>1, Zenon DEF TypeOK, SetNX
  <2>2. CASE ReleaseScript(m.token, r) \/ RefreshScript(m.token, m.ttl, r)
    BY <2>2, Zenon DEF TypeOK, ReleaseScript, RefreshScript
  <2>3. CASE UNCHANGED <<lockKey, lockPX>>
    BY <2>3 DEF TypeOK
  <2> QED
    BY <2>1, <2>2, <2>3 DEF Execute
<1> QED
  BY <1>2, <1>3, <1>4, <1>5

\* The types hold in every behaviour.
THEOREM TypeCorrect == Spec => []TypeOK
<1>1. Init => TypeOK
  <2> SUFFICES ASSUME Init PROVE TypeOK
    OBVIOUS
  <2>1. /\ lockKey \in Tokens \cup {NoToken} /\ lockPX \in BOOLEAN /\ fenceKey \in Nat
        /\ late \subseteq Requests
    BY DEF Init
  <2>2. /\ pc \in [Proc -> Labels] /\ outcome \in [Proc -> Outcomes]
        /\ \A p \in Proc : pc[p] # "idle" => token[p] \in Tokens
    BY DEF Init
  <2>3. /\ ttl \in [Proc -> TTLs] /\ fenced \in [Proc -> BOOLEAN]
        /\ expired \in [Proc -> BOOLEAN] /\ steady \in [Proc -> BOOLEAN]
        /\ older \in [Proc -> SUBSET Proc]
    BY DEF Init
  <2>4. /\ token \in [Proc -> 0..issued] /\ fence \in [Proc -> Nat]
        /\ issued \in 0..MaxSessions
        /\ tries \in [Proc -> 0..MaxRetries] /\ reply \in [Proc -> Nat \cup {Waiting}]
    BY LockerAssumption DEF Init
  <2> QED
    BY <2>1, <2>2, <2>3, <2>4 DEF TypeOK
<1>2. TypeOK /\ [Next]_vars => TypeOK'
  <2> SUFFICES ASSUME TypeOK, [Next]_vars PROVE TypeOK'
    OBVIOUS
  <2>1. CASE Expire
    BY <2>1 DEF TypeOK, Expire, session, command
  <2>2. ASSUME NEW m \in late, ServeLate(m) PROVE TypeOK'
    <3>1. PICK r \in 0..(fenceKey + 1) : Execute(m, r)
      BY <2>2 DEF ServeLate
    <3>2. m \in Requests
      BY DEF TypeOK
    <3> QED
      BY <2>2, <3>1, <3>2, ExecuteType DEF TypeOK, ServeLate, session, command, history
  <2>3. ASSUME NEW p \in Proc, Obtain(p) PROVE TypeOK'
    <3>1. issued' = issued + 1 /\ issued' \in Tokens
      BY <2>3, LockerAssumption DEF Obtain, TypeOK
    <3>2. /\ pc' \in [Proc -> Labels]
          /\ tries' \in [Proc -> 0..MaxRetries]
          /\ reply' \in [Proc -> Nat \cup {Waiting}]
      BY <2>3, GoToType DEF Obtain
    <3>3. token' \in [Proc -> 0..issued'] /\ \A q \in Proc : pc'[q] # "idle" => token'[q] \in Tokens
      BY <2>3, <3>1 DEF Obtain, TypeOK, GoTo
    <3> QED
      BY <2>3, <3>1, <3>2, <3>3 DEF Obtain, TypeOK, server
  <2>4. ASSUME NEW p \in Proc, Serve(p) PROVE TypeOK'
    <3>1. PICK r \in 0..(fenceKey + 1) :
             Execute(Request(p), r) /\ reply' = [reply EXCEPT ![p] = r]
      BY <2>4 DEF Serve
    <3>2. Request(p) \in Requests
      BY <2>4 DEF TypeOK, Serve, Request
    <3>3. /\ lockKey' \in Tokens \cup {NoToken} /\ lockPX' \in BOOLEAN
          /\ fenceKey' \in Nat /\ r \in Nat
      BY <3>1, <3>2, ExecuteType
    <3>4. /\ older' \in [Proc -> SUBSET Proc] /\ steady' \in [Proc -> BOOLEAN]
          /\ expired' \in [Proc -> BOOLEAN]
      <4>1. older' \in [Proc -> SUBSET Proc]
        <5>1. Forget(p) \in [Proc -> SUBSET Proc]
          BY DEF TypeOK, Forget
        <5>2. {q \in Proc : Holder(q)} \in SUBSET Proc
          OBVIOUS
        <5>3. \/ older' = older
              \/ older' = [Forget(p) EXCEPT ![p] = {q \in Proc : Holder(q)}]
          BY <2>4 DEF Serve
        <5> QED
          BY <5>1, <5>2, <5>3 DEF TypeOK
      <4>2. expired' \in [Proc -> BOOLEAN]
        BY <2>4 DEF TypeOK, Serve
      <4>3. steady' \in [Proc -> BOOLEAN]
        BY <2>4 DEF TypeOK, Serve
      <4> QED
        BY <4>1, <4>2, <4>3
    <3>5. reply' \in [Proc -> Nat \cup {Waiting}]
      BY <3>1, <3>3 DEF TypeOK
    <3>6. UNCHANGED <<late, pc, token, ttl, fenced, fence, tries, outcome, issued>>
      BY <2>4 DEF Serve, session
    <3> QED
      BY <3>3, <3>4, <3>5, <3>6 DEF TypeOK
  <2>5. ASSUME NEW p \in Proc, ObtainReturns(p) PROVE TypeOK'
    BY <2>5, FinishType, KeepType DEF TypeOK, ObtainReturns, Fence, Hold
  <2>6. ASSUME NEW p \in Proc, FenceReturns(p) PROVE TypeOK'
    BY <2>6, KeepType DEF TypeOK, FenceReturns, Hold
  <2>7. ASSUME NEW p \in Proc, Release(p) \/ Refresh(p) PROVE TypeOK'
    BY <2>7, KeepType DEF TypeOK, Release, Refresh
  <2>8. ASSUME NEW p \in Proc, ReleaseReturns(p) \/ RefreshReturns(p) \/ CleanupReturns(p)
        PROVE TypeOK'
    BY <2>8, FinishType, KeepType
       DEF TypeOK, ReleaseReturns, RefreshReturns, CleanupReturns, Hold
  <2>9. ASSUME NEW p \in Proc, Retry(p) PROVE TypeOK'
    <3>1. late' \subseteq Requests
      BY <2>9, AbandonType DEF Retry
    <3> QED
      BY <2>9, <3>1, LockerAssumption DEF TypeOK, Retry, server, session, history
  <2>10. ASSUME NEW p \in Proc, TimeOut(p) \/ Refuse(p) PROVE TypeOK'
    <3>1. late' \subseteq Requests
      BY <2>10, AbandonType DEF TimeOut, Refuse, TypeOK
    <3>2. PICK d \in BOOLEAN : Fail(p, d)
      BY <2>10 DEF TimeOut, Refuse
    <3> QED
      BY <3>1, <3>2, FinishType, KeepType DEF Fail, Hold, TypeOK
  <2>11. ASSUME NEW p \in Proc, Crash(p) PROVE TypeOK'
    <3>1. late' \subseteq Requests
      BY <2>11, AbandonType DEF Crash, TypeOK
    <3> QED
      BY <2>11, <3>1, FinishType DEF Crash
  <2>12. CASE UNCHANGED vars
    BY <2>12 DEF TypeOK, vars, server, session, command, history
  <2> QED
    BY <2>1, <2>2, <2>3, <2>4, <2>5, <2>6, <2>7, <2>8, <2>9, <2>10, <2>11, <2>12
       DEF Next, ClientStep
<1> QED
  BY <1>1, <1>2, PTL DEF Spec

-----------------------------------------------------------------------------
(* Mutual exclusion.  The strengthening of OwnsKey says why no other process   *)
(* can take the key away: tokens are unique, and a release that is still on    *)
(* its way belongs to a session that stopped working.                           *)

TokensDiffer ==
    \A p, q \in Proc : p # q /\ token[p] = token[q] => token[p] = NoToken

\* The key and the attempts on their way carry tokens already drawn.
TokensDrawn ==
    /\ lockKey <= issued
    /\ \A m \in late : m.token <= issued

\* p's session has not sent a PEXPIRE that may delete the key.
Safe(p) == ttl[p] = "whole" \/ pc[p] \in {"setnx", "incr"}

HolderOwnsKey ==
    \A p \in Proc : Holder(p) /\ Safe(p) /\ ~expired[p] => lockKey = token[p]

Releasing(m) == m.op \in {"release", "cleanup"}

LateReleases ==
    \A m \in late, p \in Proc :
        Releasing(m) /\ m.token = token[p] => pc[p] \in {"idle", "release", "cleanup"}

LateRefreshes ==
    \A m \in late, p \in Proc :
        m.op = "refresh" /\ m.token = token[p] =>
            m.ttl = ttl[p] /\ pc[p] \notin {"setnx", "incr", "cleanup"}

LockInv ==
    /\ TypeOK /\ TokensDiffer /\ TokensDrawn
    /\ HolderOwnsKey /\ LateReleases /\ LateRefreshes

WholeTTLs == TTLs \subseteq {"whole"}

\* A step of p's client leaves the server alone, and leaves p working only if it
\* was a holder before and so much as sent a release only if it stops working.
ClientMove(p) ==
    /\ UNCHANGED <<server, token, ttl, expired, issued>>
    /\ \A q \in Proc \ {p} : pc'[q] = pc[q] /\ reply'[q] = reply[q]
    /\ Holder(p)' => Holder(p)
    /\ pc[p] \in {"idle", "release", "cleanup"} => pc'[p] \in {"idle", "release", "cleanup"}
    /\ pc[p] \notin {"setnx", "incr", "cleanup"} => pc'[p] \notin {"setnx", "incr", "cleanup"}
    /\ late' # late =>
          /\ late' = late \cup {Request(p)}

\* A ClientMove keeps the invariant: it leaves the keys alone, and what it abandons
\* is a request of its own session.
LEMMA ClientMoveInv ==
    ASSUME LockInv, TypeOK', NEW p \in Proc, ClientMove(p)
    PROVE  LockInv'
<1> USE DEF LockInv
<1>1. TokensDiffer'
  BY DEF TokensDiffer, ClientMove
<1>2. TokensDrawn'
  BY DEF TokensDrawn, ClientMove, TypeOK, Request, server
<1>3. HolderOwnsKey'
  BY DEF HolderOwnsKey, ClientMove, TypeOK, Holder, Working, Safe, server
<1>4. LateReleases'
  <2> SUFFICES ASSUME NEW m \in late', NEW q \in Proc, Releasing(m), m.token = token'[q]
               PROVE  pc'[q] \in {"idle", "release", "cleanup"}
    BY DEF LateReleases, Releasing
  <2>1. CASE m \in late
    BY <2>1 DEF LateReleases, ClientMove
  <2>2. CASE m \notin late
    <3>1. m = Request(p) /\ pc[p] \in {"release", "cleanup"}
      BY <2>2 DEF ClientMove, Releasing, Request
    <3>2. q = p
      BY <3>1 DEF Request, TokensDiffer, TypeOK, ClientMove
    <3> QED
      BY <3>1, <3>2 DEF ClientMove
  <2> QED
    BY <2>1, <2>2
<1>5. LateRefreshes'
  <2> SUFFICES ASSUME NEW m \in late', NEW q \in Proc, m.op = "refresh", m.token = token'[q]
               PROVE  m.ttl = ttl'[q] /\ pc'[q] \notin {"setnx", "incr", "cleanup"}
    BY DEF LateRefreshes
  <2>1. CASE m \in late
    BY <2>1 DEF LateRefreshes, ClientMove
  <2>2. CASE m \notin late
    <3>1. m = Request(p) /\ pc[p] = "refresh"
      BY <2>2 DEF ClientMove, Request
    <3>2. q = p
      BY <3>1 DEF Request, TokensDiffer, TypeOK, ClientMove
    <3> QED
      BY <3>1, <3>2 DEF ClientMove, Request
  <2> QED
    BY <2>1, <2>2
<1> QED
  BY <1>1, <1>2, <1>3, <1>4, <1>5

\* Every step of a client but Obtain is a ClientMove.
LEMMA ClientMoves ==
    ASSUME TypeOK, NEW p \in Proc,
           ClientStep(p) \/ Release(p) \/ Refresh(p) \/ Refuse(p) \/ Crash(p)
    PROVE  ClientMove(p)
<1> USE DEF TypeOK, ClientMove, Finish, Keep, Hold, GoTo, Holder, Working, Abandon,
            server, session, history
<1>1. CASE ObtainReturns(p)
  BY <1>1 DEF ObtainReturns, Fence
<1>2. CASE FenceReturns(p) \/ Release(p) \/ Refresh(p)
  BY <1>2 DEF FenceReturns, Release, Refresh
<1>3. CASE CleanupReturns(p) \/ ReleaseReturns(p) \/ RefreshReturns(p)
  BY <1>3 DEF CleanupReturns, ReleaseReturns, RefreshReturns
<1>4. CASE Retry(p)
  BY <1>4 DEF Retry
<1>5. CASE TimeOut(p) \/ Refuse(p)
  BY <1>5 DEF TimeOut, Refuse, Fail
<1>6. CASE Crash(p)
  BY <1>6 DEF Crash
<1> QED
  BY <1>1, <1>2, <1>3, <1>4, <1>5, <1>6 DEF ClientStep

\* A request the server executes takes the key away from a working process only
\* if it is a release of that process's own session, or a PEXPIRE that deletes.
LEMMA ExecuteKeepsKey ==
    ASSUME LockInv, NEW m \in Requests, NEW r \in 0..(fenceKey + 1),
           Execute(m, r), lockKey # NoToken, ~(Releasing(m) /\ m.token = lockKey),
           m.op = "refresh" /\ m.token = lockKey => m.ttl = "whole"
    PROVE  lockKey' = lockKey
BY DEF LockInv, Execute, SetNX, ReleaseScript, RefreshScript, Releasing

\* The server never writes a token of its own making.
LEMMA ExecuteDrawn ==
    ASSUME LockInv, NEW m \in Requests, NEW r \in 0..(fenceKey + 1),
           Execute(m, r), m.token <= issued
    PROVE  lockKey' <= issued
BY DEF LockInv, TypeOK, TokensDrawn, Execute, SetNX, ReleaseScript, RefreshScript

\* The server keeps the invariant when it executes an attempt that is waited for.
LEMMA ServeInv ==
    ASSUME LockInv, TypeOK', NEW p \in Proc, Serve(p)
    PROVE  LockInv'
<1> USE DEF LockInv
<1>1. PICK r \in 0..(fenceKey + 1) :
         Execute(Request(p), r) /\ reply' = [reply EXCEPT ![p] = r]
  BY DEF Serve
<1>2. /\ Request(p) \in Requests /\ Request(p).token = token[p]
      /\ Request(p).op = pc[p] /\ Request(p).ttl = ttl[p]
      /\ token[p] \in Tokens /\ token[p] <= issued
  BY DEF TypeOK, Serve, Request
<1>3. UNCHANGED <<late, pc, token, ttl, issued>>
  BY DEF Serve, session
<1>4. TokensDiffer' /\ LateReleases' /\ LateRefreshes'
  BY <1>3 DEF TokensDiffer, LateReleases, LateRefreshes
<1>5. TokensDrawn'
  BY <1>1, <1>2, <1>3, ExecuteDrawn DEF TokensDrawn
<1>6. HolderOwnsKey'
  <2> SUFFICES ASSUME NEW q \in Proc, Holder(q)', Safe(q), ~expired'[q]
               PROVE  lockKey' = token[q]
    BY <1>3 DEF HolderOwnsKey, Safe
  <2>1. token[q] # NoToken
    BY <1>3 DEF TypeOK, Holder, Working
  <2>2. CASE q # p
    <3>1. Holder(q) /\ ~expired[q]
      BY <2>2, <1>1, <1>3 DEF Holder, Working, Serve, TypeOK
    <3>2. lockKey = token[q]
      BY <3>1 DEF HolderOwnsKey
    <3>3. Request(p).token # lockKey
      BY <2>1, <2>2, <3>2, <1>2 DEF TokensDiffer
    <3> QED
      BY <1>1, <1>2, <2>1, <3>2, <3>3, ExecuteKeepsKey
  <2>3. CASE q = p /\ pc[p] = "setnx"
    <3>1. r = 1
      BY <2>3, <1>1, <1>3 DEF Holder, Working, TypeOK
    <3> QED
      BY <2>3, <3>1, <1>1, <1>2 DEF Execute, SetNX, Releasing
  <2>4. CASE q = p /\ pc[p] # "setnx"
    <3>1. Working(p) /\ ~expired[p]
      BY <2>4, <1>3 DEF Holder, Working, Serve
    <3>2. lockKey = token[p] /\ ~Releasing(Request(p))
      BY <3>1, <1>2, <2>4 DEF HolderOwnsKey, Holder, Working, Releasing
    <3>3. pc[p] = "refresh" => ttl[p] = "whole"
      BY <2>4 DEF Safe
    <3> QED
      BY <1>1, <1>2, <2>1, <2>4, <3>2, <3>3, ExecuteKeepsKey
  <2> QED
    BY <2>2, <2>3, <2>4
<1> QED
  BY <1>4, <1>5, <1>6

\* The server keeps the invariant when it executes an abandoned attempt: it can only
\* be the release of a session that stopped working, or miss.
LEMMA ServeLateInv ==
    ASSUME LockInv, TypeOK', NEW m \in late, ServeLate(m)
    PROVE  LockInv'
<1> USE DEF LockInv
<1>1. PICK r \in 0..(fenceKey + 1) : Execute(m, r)
  BY DEF ServeLate
<1>2. m \in Requests /\ m.token <= issued
  BY DEF TypeOK, TokensDrawn
<1>3. /\ UNCHANGED <<pc, token, ttl, reply, expired, issued>>
      /\ late' \subseteq late
  BY DEF ServeLate, session, command, history
<1>4. TokensDiffer' /\ LateReleases' /\ LateRefreshes'
  BY <1>3 DEF TokensDiffer, LateReleases, LateRefreshes
<1>5. TokensDrawn'
  BY <1>1, <1>2, <1>3, ExecuteDrawn DEF TokensDrawn
<1>6. HolderOwnsKey'
  <2> SUFFICES ASSUME NEW q \in Proc, Holder(q), Safe(q), ~expired[q]
               PROVE  lockKey' = lockKey
    BY <1>3 DEF HolderOwnsKey, Holder, Working, Safe
  <2>1. lockKey = token[q] /\ token[q] # NoToken
    BY DEF HolderOwnsKey, Holder, Working, TypeOK
  <2>2. ~(Releasing(m) /\ m.token = lockKey)
    BY <2>1 DEF LateReleases, Holder, Working
  <2>3. m.op = "refresh" /\ m.token = lockKey => m.ttl = "whole"
    BY <2>1 DEF LateRefreshes, Safe
  <2> QED
    BY <1>1, <1>2, <2>1, <2>2, <2>3, ExecuteKeepsKey
<1> QED
  BY <1>4, <1>5, <1>6

\* A new session keeps the invariant: its token is fresh.
LEMMA ObtainInv ==
    ASSUME LockInv, TypeOK', NEW p \in Proc, Obtain(p)
    PROVE  LockInv'
<1> USE DEF LockInv
<1>1. /\ issued' = issued + 1 /\ issued \in Nat
      /\ token' = [token EXCEPT ![p] = issued + 1]
      /\ pc' = [pc EXCEPT ![p] = "setnx"] /\ reply' = [reply EXCEPT ![p] = Waiting]
      /\ UNCHANGED <<lockKey, late>>
  BY LockerAssumption DEF Obtain, GoTo, TypeOK, server
<1>2. TokensDiffer'
  BY <1>1 DEF TokensDiffer, TypeOK
<1>3. TokensDrawn'
  BY <1>1 DEF TokensDrawn, TypeOK
<1>4. HolderOwnsKey'
  BY <1>1 DEF HolderOwnsKey, Holder, Working, Safe, TypeOK, Obtain
<1>5. LateReleases'
  BY <1>1 DEF LateReleases, TokensDrawn, TypeOK, Releasing
<1>6. LateRefreshes'
  BY <1>1 DEF LateRefreshes, TokensDrawn, TypeOK, Obtain
<1> QED
  BY <1>2, <1>3, <1>4, <1>5, <1>6

\* Expiry keeps the invariant: the session it hits is marked expired.
LEMMA ExpireInv ==
    ASSUME LockInv, TypeOK', Expire
    PROVE  LockInv'
<1> USE DEF LockInv
<1>1. /\ UNCHANGED <<pc, token, ttl, reply, late, issued>>
      /\ lockKey' = NoToken
      /\ expired' = [p \in Proc |-> expired[p] \/ token[p] = lockKey]
  BY DEF Expire, session, command
<1>2. TokensDiffer' /\ LateReleases' /\ LateRefreshes'
  BY <1>1 DEF TokensDiffer, LateReleases, LateRefreshes
<1>3. TokensDrawn'
  BY <1>1 DEF TokensDrawn, TypeOK
<1>4. HolderOwnsKey'
  <2> SUFFICES ASSUME NEW q \in Proc, Holder(q), Safe(q), ~expired'[q] PROVE FALSE
    BY <1>1 DEF HolderOwnsKey, Holder, Working, Safe
  <2>1. ~expired[q] /\ token[q] # lockKey
    BY <1>1
  <2> QED
    BY <2>1 DEF HolderOwnsKey
<1> QED
  BY <1>2, <1>3, <1>4

\* Every step keeps the invariant.
LEMMA LockStep ==
    ASSUME LockInv, TypeOK', [Next]_vars
    PROVE  LockInv'
<1>1. CASE UNCHANGED vars
  BY <1>1 DEF LockInv, TokensDiffer, TokensDrawn, HolderOwnsKey, LateReleases, LateRefreshes,
              Holder, Working, Safe, vars, server, session, command, history
<1>2. ASSUME NEW p \in Proc,
             ClientStep(p) \/ Release(p) \/ Refresh(p) \/ Refuse(p) \/ Crash(p)
      PROVE  LockInv'
  BY <1>2, ClientMoves, ClientMoveInv DEF LockInv
<1> QED
  BY <1>1, <1>2, ServeInv, ServeLateInv, ObtainInv, ExpireInv DEF Next

\* The inductive invariant holds in every behaviour.
THEOREM LockInvariant == Spec => []LockInv
<1>1. Init /\ TypeOK => LockInv
  BY DEF Init, LockInv, TokensDiffer, TokensDrawn, HolderOwnsKey, LateReleases,
         LateRefreshes, Holder, Working
<1>2. LockInv /\ TypeOK' /\ [Next]_vars => LockInv'
  BY LockStep
<1> QED
  BY <1>1, <1>2, TypeCorrect, PTL DEF Spec

\* Whatever is retried, lost, late or cancelled, with ttls of at least a
\* millisecond a process that works under an unexpired lock owns the lock key...
THEOREM OwnsKeyHolds == WholeTTLs => (Spec => []OwnsKey)
<1> SUFFICES ASSUME WholeTTLs PROVE Spec => []OwnsKey
  OBVIOUS
<1>1. LockInv => OwnsKey
  BY DEF LockInv, TypeOK, WholeTTLs, HolderOwnsKey, OwnsKey, Holder, Safe
<1> QED
  BY <1>1, LockInvariant, PTL

\* ... and two processes work at once only if the lock of one has expired.
THEOREM MutualExclusionHolds == WholeTTLs => (Spec => []MutualExclusion)
<1> SUFFICES ASSUME WholeTTLs PROVE Spec => []MutualExclusion
  OBVIOUS
<1>1. LockInv /\ OwnsKey => MutualExclusion
  BY DEF LockInv, TypeOK, OwnsKey, TokensDiffer, MutualExclusion, Working
<1> QED
  BY <1>1, LockInvariant, OwnsKeyHolds, PTL

-----------------------------------------------------------------------------
(* Fences.  A session that had set the lock before another one did has lost it   *)
(* by then, so that its INCR, if it was steady, was executed before the other's.  *)
(* This holds for every kind of ttl: a PEXPIRE that deletes is sent after the INCR. *)

\* The answer of p's INCR is under way.
Answered(p) == pc[p] = "incr" /\ reply[p] # Waiting

\* Fences come from the counter, and a session has none before its INCR.
FencesDrawn ==
    \A p \in Proc :
        /\ fence[p] <= fenceKey
        /\ Answered(p) => reply[p] \in 1..fenceKey
        /\ pc[p] \in {"idle", "setnx", "incr", "cleanup"} => fence[p] = 0

\* p's fence, known to it or under way, is below n.
Below(p, n) == fence[p] < n /\ (Answered(p) => reply[p] < n)

OlderLost ==
    \A q \in Proc : \A p \in older[q] :
        /\ p # q /\ pc[p] # "idle" /\ q \notin older[p]
        /\ expired[p] \/ ~Safe(p)

OlderFirst ==
    \A q \in Proc : \A p \in older[q] :
        steady[p] => /\ fence[q] > 0 => Below(p, fence[q])
                     /\ Answered(q) => Below(p, reply[q])

\* Of two sessions that have set the lock one did so first.
Ordered ==
    \A p, q \in Proc : p # q /\ Holder(p) /\ Holder(q) => p \in older[q] \/ q \in older[p]

FenceInv == LockInv /\ FencesDrawn /\ OlderLost /\ OlderFirst /\ Ordered

\* A call that goes on, or sends its command again, keeps the invariant.
LEMMA FenceTurn ==
    ASSUME FenceInv, LockInv', NEW p \in Proc, NEW c \in Labels \ {"idle"}, pc[p] # "idle",
           pc' = [pc EXCEPT ![p] = c], reply' = [reply EXCEPT ![p] = Waiting],
           UNCHANGED <<fenceKey, expired, older, steady, fence>>,
           Holder(p)' => Holder(p), Safe(p)' => Safe(p), UNCHANGED ttl,
           c \in {"setnx", "incr", "cleanup"} => pc[p] \in {"setnx", "incr", "cleanup"}
    PROVE  FenceInv'
<1> USE DEF FenceInv
<1>1. \A q \in Proc : /\ q # p => pc'[q] = pc[q] /\ reply'[q] = reply[q]
                      /\ Answered(q)' => q # p /\ Answered(q) /\ reply'[q] = reply[q]
                      /\ Holder(q)' => Holder(q)
                      /\ Safe(q)' => Safe(q)
  BY DEF LockInv, TypeOK, Answered, Holder, Working, Safe
<1>2. FencesDrawn'
  BY <1>1 DEF FencesDrawn, LockInv, TypeOK
<1>3. OlderLost'
  BY <1>1 DEF OlderLost, LockInv, TypeOK
<1>4. OlderFirst'
  BY <1>1 DEF OlderFirst, LockInv, TypeOK, Below
<1>5. Ordered'
  BY <1>1 DEF Ordered
<1> QED
  BY <1>2, <1>3, <1>4, <1>5

\* A session that ends keeps the invariant: it is forgotten.
LEMMA FenceFinish ==
    ASSUME FenceInv, LockInv', NEW p \in Proc, NEW o, Finish(p, o)
    PROVE  FenceInv'
<1> USE DEF FenceInv
<1>1. /\ \A q \in Proc \ {p} : pc'[q] = pc[q] /\ reply'[q] = reply[q]
                                /\ fence'[q] = fence[q] /\ steady'[q] = steady[q]
      /\ pc'[p] = "idle" /\ fence'[p] = 0
      /\ UNCHANGED <<fenceKey, ttl, expired>>
  BY DEF Finish, GoTo, LockInv, TypeOK, server, session
<1>2. \A q \in Proc : older'[q] = IF q = p THEN {} ELSE older[q] \ {p}
  BY DEF Finish, Forget
<1>3. \A q \in Proc : /\ Holder(q)' => q # p /\ Holder(q)
                      /\ Answered(q)' => q # p /\ Answered(q) /\ reply'[q] = reply[q]
  BY <1>1 DEF Holder, Working, Answered
<1>4. FencesDrawn'
  <2> SUFFICES ASSUME NEW q \in Proc
               PROVE  /\ fence'[q] <= fenceKey
                      /\ Answered(q)' => reply'[q] \in 1..fenceKey
                      /\ pc'[q] \in {"idle", "setnx", "incr", "cleanup"} => fence'[q] = 0
    BY <1>1 DEF FencesDrawn
  <2> QED
    BY <1>1, <1>3 DEF FencesDrawn, LockInv, TypeOK
<1>5. OlderLost'
  BY <1>1, <1>2 DEF OlderLost, LockInv, TypeOK, Safe
<1>6. OlderFirst'
  BY <1>1, <1>2 DEF OlderFirst, LockInv, TypeOK, Below, Answered
<1>7. Ordered'
  <2> SUFFICES ASSUME NEW q \in Proc, NEW u \in Proc, q # u, Holder(q)', Holder(u)'
               PROVE  q \in older'[u] \/ u \in older'[q]
    BY DEF Ordered
  <2> QED
    BY <1>2, <1>3 DEF Ordered
<1> QED
  BY <1>4, <1>5, <1>6, <1>7

\* A fence that becomes known is the one that was under way.
LEMMA FenceKnown ==
    ASSUME FenceInv, LockInv', NEW p \in Proc, FenceReturns(p)
    PROVE  FenceInv'
<1> USE DEF FenceInv
<1>1. /\ \A q \in Proc \ {p} : pc'[q] = pc[q] /\ reply'[q] = reply[q] /\ fence'[q] = fence[q]
      /\ pc[p] = "incr" /\ pc'[p] = "held" /\ Answered(p) /\ fence'[p] = reply[p]
      /\ UNCHANGED <<fenceKey, ttl, expired, older, steady>>
  BY DEF FenceReturns, Hold, Keep, GoTo, LockInv, TypeOK, server, session, history, Answered
<1>2. FencesDrawn'
  BY <1>1 DEF FencesDrawn, Answered, LockInv, TypeOK
<1>3. OlderLost'
  BY <1>1 DEF OlderLost, LockInv, TypeOK, Safe
<1>4. OlderFirst'
  BY <1>1 DEF OlderFirst, FencesDrawn, LockInv, TypeOK, Below, Answered
<1>5. Ordered'
  BY <1>1 DEF Ordered, Holder, Working
<1> QED
  BY <1>2, <1>3, <1>4, <1>5

\* Every step of a client but Obtain keeps the invariant.
LEMMA FenceClient ==
    ASSUME FenceInv, LockInv', NEW p \in Proc,
           ClientStep(p) \/ Release(p) \/ Refresh(p) \/ Refuse(p) \/ Crash(p)
    PROVE  FenceInv'
<1> USE DEF GoTo, Keep, Hold, server, session, history
<1>1. ClientMove(p)
  BY ClientMoves DEF FenceInv, LockInv
<1>2. ASSUME NEW c \in Labels \ {"idle"}, pc[p] # "idle", UNCHANGED <<fenceKey, expired, older, steady, fence>>,
             pc' = [pc EXCEPT ![p] = c], reply' = [reply EXCEPT ![p] = Waiting],
             c \in {"setnx", "incr", "cleanup"} => pc[p] \in {"setnx", "incr", "cleanup"}
      PROVE  FenceInv'
  <2>1. Holder(p)' => Holder(p)
    BY <1>1 DEF ClientMove
  <2>2. Safe(p)' => Safe(p)
    BY <1>1, <1>2 DEF ClientMove, Safe, FenceInv, LockInv, TypeOK
  <2>3. UNCHANGED ttl
    BY <1>1 DEF ClientMove
  <2> QED
    BY <1>2, <2>1, <2>2, <2>3, FenceTurn
<1>3. CASE ObtainReturns(p)
  BY <1>3, <1>2, FenceFinish DEF ObtainReturns, Fence
<1>4. CASE FenceReturns(p)
  BY <1>4, FenceKnown
<1>5. CASE Release(p) \/ Refresh(p)
  BY <1>5, <1>2 DEF Release, Refresh
<1>6. CASE CleanupReturns(p) \/ ReleaseReturns(p) \/ RefreshReturns(p)
  BY <1>6, <1>2, FenceFinish DEF CleanupReturns, ReleaseReturns, RefreshReturns
<1>7. CASE Retry(p)
  <2>1. pc' = [pc EXCEPT ![p] = pc[p]] /\ pc[p] \in Labels \ {"idle"}
    BY <1>7 DEF Retry, FenceInv, LockInv, TypeOK
  <2> QED
    BY <1>7, <1>2, <2>1 DEF Retry
<1>8. CASE TimeOut(p) \/ Refuse(p)
  <2>1. PICK d \in BOOLEAN : Fail(p, d)
    BY <1>8 DEF TimeOut, Refuse
  <2> QED
    BY <2>1, <1>2, FenceFinish DEF Fail
<1>9. CASE Crash(p)
  BY <1>9, FenceFinish DEF Crash
<1> QED
  BY <1>3, <1>4, <1>5, <1>6, <1>7, <1>8, <1>9 DEF ClientStep

\* A SETNX that is executed with success puts its session after all that have set the
\* lock, and those have lost it.
LEMMA FenceSetNX ==
    ASSUME FenceInv, LockInv', NEW p \in Proc, Serve(p), pc[p] = "setnx", reply'[p] = 1
    PROVE  FenceInv'
<1> USE DEF FenceInv
<1>1. /\ UNCHANGED <<fenceKey, pc, token, ttl, fence, steady>>
      /\ reply[p] = Waiting /\ lockKey = NoToken
      /\ \A q \in Proc \ {p} : reply'[q] = reply[q] /\ expired'[q] = expired[q]
  <2>1. PICK r \in 0..(fenceKey + 1) :
           Execute(Request(p), r) /\ reply' = [reply EXCEPT ![p] = r]
    BY DEF Serve
  <2>2. SetNX(token[p], ttl[p], 1) /\ UNCHANGED fenceKey
    BY <2>1 DEF Execute, Request, LockInv, TypeOK
  <2>3. expired' = [expired EXCEPT ![p] = FALSE] /\ steady' = steady
    BY DEF Serve
  <2> QED
    BY <2>1, <2>2, <2>3 DEF Serve, SetNX, session, LockInv, TypeOK
<1>2. \A q \in Proc : older'[q] = IF q = p THEN {u \in Proc : Holder(u)} ELSE older[q] \ {p}
  <2>1. older' = [Forget(p) EXCEPT ![p] = {u \in Proc : Holder(u)}]
    BY DEF Serve
  <2> QED
    BY <2>1 DEF Forget
<1>3. \A q \in Proc : /\ Holder(q)' => q = p \/ Holder(q)
                      /\ Answered(q)' => q # p /\ Answered(q) /\ reply'[q] = reply[q]
  BY <1>1 DEF Holder, Working, Answered
<1>4. FencesDrawn'
  BY <1>1, <1>3 DEF FencesDrawn
<1>5. OlderLost'
  <2> SUFFICES ASSUME NEW q \in Proc, NEW u \in older'[q]
               PROVE  /\ u # q /\ pc[u] # "idle" /\ q \notin older'[u]
                      /\ expired'[u] \/ ~Safe(u)
    BY <1>1 DEF OlderLost, Safe
  <2>1. CASE q = p
    <3>1. u \in Proc /\ Holder(u) /\ u # p
      <4>1. ~Holder(p)
        BY <1>1 DEF Holder, Working
      <4>2. older'[p] = {v \in Proc : Holder(v)}
        BY <1>2
      <4> QED
        BY <2>1, <4>1, <4>2
    <3>2. token[u] # NoToken
      BY <3>1 DEF LockInv, TypeOK, Holder, Working
    <3>3. expired[u] \/ ~Safe(u)
      BY <3>1, <3>2, <1>1 DEF LockInv, HolderOwnsKey
    <3>4. pc[u] # "idle" /\ q \notin older'[u]
      BY <2>1, <3>1, <1>2 DEF Holder, Working
    <3> QED
      BY <2>1, <3>1, <3>3, <3>4, <1>1
  <2>2. CASE q # p
    BY <2>2, <1>1, <1>2 DEF OlderLost, LockInv, TypeOK
  <2> QED
    BY <2>1, <2>2
<1>6. OlderFirst'
  <2> SUFFICES ASSUME NEW q \in Proc, NEW u \in older'[q], steady[u]
               PROVE  /\ fence[q] > 0 => Below(u, fence[q])'
                      /\ Answered(q)' => Below(u, reply[q])'
    BY <1>1 DEF OlderFirst
  <2>1. CASE q = p
    BY <2>1, <1>1, <1>3 DEF FencesDrawn
  <2>2. CASE q # p
    BY <2>2, <1>1, <1>2, <1>3 DEF OlderFirst, Below, LockInv, TypeOK
  <2> QED
    BY <2>1, <2>2
<1>7. Ordered'
  <2> SUFFICES ASSUME NEW q \in Proc, NEW u \in Proc, q # u, Holder(q)', Holder(u)'
               PROVE  q \in older'[u] \/ u \in older'[q]
    BY DEF Ordered
  <2> QED
    BY <1>2, <1>3 DEF Ordered
<1> QED
  BY <1>4, <1>5, <1>6, <1>7

\* An INCR that is executed answers more than any fence drawn before, and makes
\* its session steady only if nobody came after it.
LEMMA FenceIncr ==
    ASSUME FenceInv, LockInv', NEW p \in Proc, Serve(p), pc[p] = "incr"
    PROVE  FenceInv'
<1> USE DEF FenceInv
<1>1. /\ UNCHANGED <<pc, token, ttl, fence, expired, older>>
      /\ reply'[p] = fenceKey + 1 /\ fenceKey' = fenceKey + 1
      /\ steady'[p] = ~expired[p] /\ fence[p] = 0
      /\ \A q \in Proc \ {p} : reply'[q] = reply[q] /\ steady'[q] = steady[q]
  <2>1. PICK r \in 0..(fenceKey + 1) :
           Execute(Request(p), r) /\ reply' = [reply EXCEPT ![p] = r]
    BY DEF Serve
  <2>2. Incr(r)
    BY <2>1 DEF Execute, Request
  <2>3. UNCHANGED <<older, expired>> /\ steady' = [steady EXCEPT ![p] = ~expired[p]]
    BY DEF Serve
  <2> QED
    BY <2>1, <2>2, <2>3 DEF Serve, Incr, session, LockInv, TypeOK, FencesDrawn
<1>2. \A q \in Proc : /\ Holder(q)' => Holder(q)
                      /\ q # p /\ Answered(q)' => Answered(q) /\ reply'[q] = reply[q]
  BY <1>1 DEF Holder, Working, Answered
<1>3. FencesDrawn'
  BY <1>1, <1>2 DEF FencesDrawn, LockInv, TypeOK
<1>4. OlderLost'
  BY <1>1 DEF OlderLost, Safe
<1>5. OlderFirst'
  <2> SUFFICES ASSUME NEW q \in Proc, NEW u \in older[q], steady'[u]
               PROVE  /\ fence[q] > 0 => Below(u, fence[q])'
                      /\ Answered(q)' => Below(u, reply[q])'
    BY <1>1 DEF OlderFirst
  <2>1. u \in Proc /\ u # p
    BY <1>1 DEF OlderLost, Safe, LockInv, TypeOK
  <2>2. CASE q = p
    BY <2>1, <2>2, <1>1, <1>2 DEF FencesDrawn, Below, LockInv, TypeOK
  <2>3. CASE q # p
    BY <2>1, <2>3, <1>1, <1>2 DEF OlderFirst, Below, LockInv, TypeOK
  <2> QED
    BY <2>2, <2>3
<1>6. Ordered'
  BY <1>1, <1>2 DEF Ordered
<1> QED
  BY <1>3, <1>4, <1>5, <1>6

\* So does the server whatever else it executes for p.
LEMMA FenceServe ==
    ASSUME FenceInv, LockInv', NEW p \in Proc, Serve(p)
    PROVE  FenceInv'
<1> USE DEF FenceInv
<1>1. CASE pc[p] = "incr"
  BY <1>1, FenceIncr
<1>2. CASE pc[p] = "setnx" /\ reply'[p] = 1
  BY <1>2, FenceSetNX
<1>3. CASE pc[p] # "incr" /\ ~(pc[p] = "setnx" /\ reply'[p] = 1)
  <2>1. PICK r \in 0..(fenceKey + 1) :
           Execute(Request(p), r) /\ reply' = [reply EXCEPT ![p] = r]
    BY DEF Serve
  <2>2. /\ UNCHANGED <<fenceKey, pc, token, ttl, fence, expired, older, steady>>
        /\ \A q \in Proc \ {p} : reply'[q] = reply[q]
    BY <1>3, <2>1 DEF Serve, Execute, Request, session, LockInv, TypeOK
  <2>3. \A q \in Proc : /\ Holder(q)' => Holder(q)
                        /\ Answered(q)' => Answered(q) /\ reply'[q] = reply[q]
    BY <1>3, <2>2 DEF Holder, Working, Answered
  <2>4. FencesDrawn'
    BY <2>2, <2>3 DEF FencesDrawn
  <2>5. OlderLost'
    BY <2>2 DEF OlderLost, Safe
  <2>6. OlderFirst'
    BY <2>2, <2>3 DEF OlderFirst, Below, LockInv, TypeOK
  <2>7. Ordered'
    BY <2>2, <2>3 DEF Ordered
  <2> QED
    BY <2>4, <2>5, <2>6, <2>7
<1> QED
  BY <1>1, <1>2, <1>3

\* A late attempt leaves every session alone, and never lowers the counter.
LEMMA FenceServeLate ==
    ASSUME FenceInv, LockInv', NEW m \in late, ServeLate(m)
    PROVE  FenceInv'
<1> USE DEF FenceInv
<1>1. /\ UNCHANGED <<pc, ttl, reply, fence, expired, older, steady>>
      /\ fenceKey' >= fenceKey /\ fenceKey' \in Nat
  BY DEF ServeLate, Execute, Incr, session, command, history, LockInv, TypeOK
<1>2. FencesDrawn'
  BY <1>1 DEF FencesDrawn, Answered, LockInv, TypeOK
<1>3. OlderLost' /\ OlderFirst' /\ Ordered'
  BY <1>1 DEF OlderLost, OlderFirst, Ordered, Below, Answered, Safe, Holder, Working
<1> QED
  BY <1>2, <1>3

\* A new session has no fence and nothing is older than it.
LEMMA FenceObtain ==
    ASSUME FenceInv, LockInv', NEW p \in Proc, Obtain(p)
    PROVE  FenceInv'
<1> USE DEF FenceInv
<1>1. /\ UNCHANGED <<fenceKey, fence, older, steady>>
      /\ pc[p] = "idle" /\ pc'[p] = "setnx" /\ reply'[p] = Waiting
      /\ \A q \in Proc \ {p} : pc'[q] = pc[q] /\ reply'[q] = reply[q] /\ ttl'[q] = ttl[q]
                                /\ expired'[q] = expired[q]
  BY DEF Obtain, GoTo, server, LockInv, TypeOK
<1>2. \A q \in Proc : /\ Holder(q)' => Holder(q)
                      /\ Answered(q)' => Answered(q) /\ reply'[q] = reply[q]
                      /\ p \notin older[q]
  BY <1>1 DEF Holder, Working, Answered, OlderLost
<1>3. FencesDrawn'
  BY <1>1, <1>2 DEF FencesDrawn
<1>4. OlderLost'
  BY <1>1, <1>2 DEF OlderLost, Safe, LockInv, TypeOK
<1>5. OlderFirst'
  BY <1>1, <1>2 DEF OlderFirst, Below, LockInv, TypeOK
<1>6. Ordered'
  BY <1>1, <1>2 DEF Ordered
<1> QED
  BY <1>3, <1>4, <1>5, <1>6

\* The fences' invariant, for every kind of ttl.
LEMMA FenceStep ==
    ASSUME FenceInv, LockInv', [Next]_vars
    PROVE  FenceInv'
<1>1. CASE UNCHANGED vars
  BY <1>1 DEF FenceInv, FencesDrawn, OlderLost, OlderFirst, Ordered, Below, Answered, Safe,
              Holder, Working, vars, server, session, command, history
<1>2. CASE Expire
  <2>1. /\ UNCHANGED <<fenceKey, pc, ttl, reply, fence, older, steady>>
        /\ \A q \in Proc : expired[q] => expired'[q]
    BY <1>2 DEF Expire, session, command
  <2> QED
    BY <2>1 DEF FenceInv, FencesDrawn, OlderLost, OlderFirst, Ordered, Below, Answered, Safe,
                Holder, Working, LockInv, TypeOK
<1> QED
  BY <1>1, <1>2, FenceClient, FenceServe, FenceServeLate, FenceObtain DEF Next

\* The fences' invariant holds in every behaviour, for every kind of ttl.
THEOREM FenceInvariant == Spec => []FenceInv
<1>1. Init /\ LockInv => FenceInv
  BY DEF Init, FenceInv, FencesDrawn, OlderLost, OlderFirst, Ordered, Answered, Holder, Working
<1>2. FenceInv /\ LockInv' /\ [Next]_vars => FenceInv'
  BY FenceStep
<1> QED
  BY <1>1, <1>2, LockInvariant, PTL DEF Spec

\* Whoever obtains the lock after a session whose INCR came in time has a larger fence,
\* whatever the ttls, the retries and the late attempts.
THEOREM FenceOrderHolds == Spec => []FenceOrder
<1>1. FenceInv => FenceOrder
  BY DEF FenceInv, OlderFirst, Below, FenceOrder
<1> QED
  BY <1>1, FenceInvariant, PTL

-----------------------------------------------------------------------------
(* What the answers mean when go-redis does not send a command again (maxRetries  *)
(* -1), though an attempt may still be executed after its caller gave up on it:   *)
(* a SETNX of a session is then executed at most once.                            *)

KeyGone(p) == token[p] # NoToken /\ lockKey # token[p]

\* An abandoned SETNX belongs to a session that ended with an error.
LateSetNX ==
    \A m \in late, p \in Proc :
        m.op = "setnx" /\ m.token = token[p] =>
            /\ pc[p] = "idle" /\ outcome[p] = "none"
            /\ KeyGone(p) /\ ~expired[p] /\ m.ttl = ttl[p]

InCall == \A p \in Proc : pc[p] # "idle" => outcome[p] = "none"

SetOnce ==
    \A p \in Proc :
        /\ pc[p] = "setnx" /\ reply[p] = Waiting => KeyGone(p) /\ ~expired[p]
        /\ pc[p] = "setnx" /\ reply[p] \notin {1, Waiting} => KeyGone(p)
        /\ expired[p] => KeyGone(p)

Returned ==
    \A p \in Proc :
        /\ pc[p] = "release" /\ reply[p] \notin {0, Waiting} => KeyGone(p) /\ ~expired[p]
        /\ outcome[p] = "ok" => KeyGone(p) /\ ~expired[p]
        /\ outcome[p] = "not_obtained" => KeyGone(p)

AnswerInv == LockInv /\ LateSetNX /\ InCall /\ SetOnce /\ Returned

NoRetries == MaxRetries = 0

\* What a step of p's client does to its answers when nothing is sent again.
AnswerMove(p) ==
    /\ UNCHANGED <<lockKey, token, ttl, expired, issued>>
    /\ \A q \in Proc \ {p} : pc'[q] = pc[q] /\ reply'[q] = reply[q] /\ outcome'[q] = outcome[q]
    /\ pc[p] # "idle" /\ pc'[p] # "setnx" /\ reply'[p] = Waiting
    /\ pc'[p] # "idle" => outcome'[p] = outcome[p]
    /\ pc'[p] = "release" => pc[p] = "held"
    /\ outcome'[p] # outcome[p] =>
          /\ outcome'[p] = "not_obtained" => pc[p] = "setnx" /\ reply[p] = 0
          /\ outcome'[p] = "ok" => pc[p] = "release" /\ reply[p] \notin {0, Waiting}
          /\ outcome'[p] = "lost" => pc[p] \in {"release", "refresh"} /\ reply[p] = 0
    /\ late' # late =>
          /\ late' = late \cup {Request(p)} /\ reply[p] = Waiting
          /\ pc[p] \in {"setnx", "release", "cleanup"} => pc'[p] = "idle"
          /\ pc[p] = "setnx" => outcome'[p] = "none"

\* Every step of a client but Obtain is an AnswerMove.
LEMMA AnswerMoves ==
    ASSUME TypeOK, NoRetries, NEW p \in Proc,
           ClientStep(p) \/ Release(p) \/ Refresh(p) \/ Refuse(p) \/ Crash(p)
    PROVE  AnswerMove(p)
<1> USE DEF TypeOK, AnswerMove, Finish, Keep, Hold, GoTo, Abandon, server, session, history
<1>1. CASE ObtainReturns(p)
  BY <1>1 DEF ObtainReturns, Fence
<1>2. CASE FenceReturns(p) \/ Release(p) \/ Refresh(p)
  BY <1>2 DEF FenceReturns, Release, Refresh
<1>3. CASE CleanupReturns(p) \/ ReleaseReturns(p) \/ RefreshReturns(p)
  BY <1>3 DEF CleanupReturns, ReleaseReturns, RefreshReturns
<1>4. ~Retry(p)
  BY DEF Retry, NoRetries
<1>5. CASE TimeOut(p) \/ Refuse(p)
  BY <1>5 DEF TimeOut, Refuse, Fail
<1>6. CASE Crash(p)
  BY <1>6 DEF Crash
<1> QED
  BY <1>1, <1>2, <1>3, <1>4, <1>5, <1>6 DEF ClientStep

\* An AnswerMove keeps the invariant.
LEMMA AnswerClient ==
    ASSUME AnswerInv, LockInv', NEW p \in Proc, AnswerMove(p)
    PROVE  AnswerInv'
<1> USE DEF AnswerInv
<1>1. \A q \in Proc : KeyGone(q)' <=> KeyGone(q)
  BY DEF AnswerMove, KeyGone
<1>2. InCall'
  BY DEF InCall, AnswerMove
<1>3. SetOnce'
  BY <1>1 DEF SetOnce, AnswerMove
<1>4. Returned'
  BY <1>1 DEF Returned, SetOnce, InCall, AnswerMove
<1>5. LateSetNX'
  <2> SUFFICES ASSUME NEW m \in late', NEW q \in Proc, m.op = "setnx", m.token = token[q]
               PROVE  /\ pc'[q] = "idle" /\ outcome'[q] = "none"
                      /\ KeyGone(q) /\ ~expired[q] /\ m.ttl = ttl[q]
    BY <1>1 DEF LateSetNX, AnswerMove
  <2>1. CASE m \in late
    BY <2>1 DEF LateSetNX, AnswerMove
  <2>2. CASE m \notin late
    <3>1. m = Request(p) /\ pc[p] = "setnx" /\ reply[p] = Waiting
      BY <2>2 DEF AnswerMove, Request
    <3>2. q = p
      BY <3>1 DEF Request, TokensDiffer, LockInv, TypeOK
    <3> QED
      BY <2>2, <3>1, <3>2 DEF AnswerMove, SetOnce, Request
  <2> QED
    BY <2>1, <2>2
<1> QED
  BY <1>2, <1>3, <1>4, <1>5

\* The server writes no token but the one of the SETNX it executes.
LEMMA ExecuteGone ==
    ASSUME NEW m \in Requests, NEW r \in 0..(fenceKey + 1), Execute(m, r), UNCHANGED token,
           NEW p \in Proc, KeyGone(p), m.op = "setnx" => m.token # token[p]
    PROVE  KeyGone(p)'
BY DEF KeyGone, Execute, SetNX, ReleaseScript, RefreshScript

\* The server keeps the invariant when it executes an attempt that is waited for.
LEMMA AnswerServe ==
    ASSUME AnswerInv, LockInv', NEW p \in Proc, Serve(p)
    PROVE  AnswerInv'
<1> USE DEF AnswerInv
<1>1. PICK r \in 0..(fenceKey + 1) :
         Execute(Request(p), r) /\ reply' = [reply EXCEPT ![p] = r]
  BY DEF Serve
<1>2. /\ Request(p) \in Requests /\ Request(p).token = token[p] /\ Request(p).op = pc[p]
      /\ token[p] # NoToken /\ pc[p] # "idle" /\ reply[p] = Waiting
  BY DEF LockInv, TypeOK, Serve, Request
<1>3. /\ UNCHANGED <<late, pc, token, ttl, outcome>>
      /\ \A q \in Proc \ {p} : reply'[q] = reply[q] /\ expired'[q] = expired[q]
      /\ reply'[p] = r
  BY <1>1 DEF Serve, session, LockInv, TypeOK
<1>4. expired'[p] => expired[p] /\ (pc[p] = "setnx" => r # 1)
  BY <1>1, <1>3 DEF Serve, LockInv, TypeOK
<1>5. \A q \in Proc \ {p} : KeyGone(q) => KeyGone(q)'
  <2> SUFFICES ASSUME NEW q \in Proc \ {p}, KeyGone(q) PROVE KeyGone(q)'
    OBVIOUS
  <2>1. token[p] # token[q]
    BY <1>2 DEF LockInv, TokensDiffer
  <2> QED
    BY <1>1, <1>2, <1>3, <2>1, ExecuteGone
<1>6. pc[p] # "setnx" => (KeyGone(p) => KeyGone(p)')
  BY <1>1, <1>2, <1>3, ExecuteGone
<1>7. pc[p] = "setnx" /\ r # 1 => KeyGone(p)'
  BY <1>1, <1>2, <1>3 DEF SetOnce, KeyGone, Execute, SetNX
<1>8. LateSetNX'
  BY <1>2, <1>3, <1>5 DEF LateSetNX
<1>9. InCall'
  BY <1>3 DEF InCall
<1>10. SetOnce'
  <2> SUFFICES ASSUME NEW q \in Proc
               PROVE  /\ pc[q] = "setnx" /\ reply'[q] = Waiting => KeyGone(q)' /\ ~expired'[q]
                      /\ pc[q] = "setnx" /\ reply'[q] \notin {1, Waiting} => KeyGone(q)'
                      /\ expired'[q] => KeyGone(q)'
    BY <1>3 DEF SetOnce
  <2>1. CASE q = p
    BY <2>1, <1>3, <1>4, <1>6, <1>7 DEF SetOnce, LockInv, TypeOK
  <2>2. CASE q # p
    BY <2>2, <1>3, <1>5 DEF SetOnce
  <2> QED
    BY <2>1, <2>2
<1>11. Returned'
  <2> SUFFICES ASSUME NEW q \in Proc
               PROVE  /\ pc[q] = "release" /\ reply'[q] \notin {0, Waiting} => KeyGone(q)' /\ ~expired'[q]
                      /\ outcome[q] = "ok" => KeyGone(q)' /\ ~expired'[q]
                      /\ outcome[q] = "not_obtained" => KeyGone(q)'
    BY <1>3 DEF Returned
  <2>1. CASE q = p
    <3>1. outcome[p] = "none"
      BY <1>2 DEF InCall
    <3>2. pc[p] = "release" /\ r # 0 => lockKey = token[p] /\ lockKey' = NoToken
      BY <1>1, <1>2 DEF Execute, ReleaseScript
    <3>3. pc[p] = "release" /\ r # 0 => KeyGone(p)' /\ ~expired[p]
      BY <3>2, <1>2, <1>3 DEF SetOnce, KeyGone
    <3> QED
      BY <2>1, <3>1, <3>3, <1>3, <1>4
  <2>2. CASE q # p
    BY <2>2, <1>3, <1>5 DEF Returned
  <2> QED
    BY <2>1, <2>2
<1> QED
  BY <1>8, <1>9, <1>10, <1>11

\* An abandoned attempt that is executed finds no caller to deceive.
LEMMA AnswerServeLate ==
    ASSUME AnswerInv, LockInv', NEW m \in late, ServeLate(m)
    PROVE  AnswerInv'
<1> USE DEF AnswerInv
<1>1. PICK r \in 0..(fenceKey + 1) : Execute(m, r)
  BY DEF ServeLate
<1>2. m \in Requests
  BY DEF LockInv, TypeOK
<1>3. UNCHANGED <<pc, token, ttl, reply, expired, outcome>> /\ late' = late \ {m}
  BY DEF ServeLate, session, command, history
<1>4. \A q \in Proc : KeyGone(q) => KeyGone(q)' \/ (m.op = "setnx" /\ m.token = token[q])
  BY <1>1, <1>2, <1>3, ExecuteGone
<1>5. \A q \in Proc : m.op = "setnx" /\ m.token = token[q] =>
                       pc[q] = "idle" /\ outcome[q] = "none" /\ ~expired[q] /\ m.ttl = ttl[q]
  BY DEF LateSetNX
<1>6. InCall'
  BY <1>3 DEF InCall
<1>7. SetOnce'
  BY <1>3, <1>4, <1>5 DEF SetOnce
<1>8. Returned'
  BY <1>3, <1>4, <1>5 DEF Returned
<1>9. LateSetNX'
  <2> SUFFICES ASSUME NEW n \in late', NEW q \in Proc, n.op = "setnx", n.token = token[q]
               PROVE  /\ pc[q] = "idle" /\ outcome[q] = "none"
                      /\ KeyGone(q)' /\ ~expired[q] /\ n.ttl = ttl[q]
    BY <1>3 DEF LateSetNX
  <2>1. /\ pc[q] = "idle" /\ outcome[q] = "none"
        /\ KeyGone(q) /\ ~expired[q] /\ n.ttl = ttl[q]
    BY <1>3 DEF LateSetNX
  <2>2. ~(m.op = "setnx" /\ m.token = token[q])
    <3> SUFFICES ASSUME m.op = "setnx", m.token = token[q] PROVE FALSE
      OBVIOUS
    <3>1. n \in Requests /\ n.op = m.op /\ n.token = m.token /\ n.ttl = m.ttl
      BY <1>3, <1>5, <2>1 DEF LockInv, TypeOK
    <3>2. n = m
      BY <3>1, <1>2
    <3> QED
      BY <3>2, <1>3
  <2> QED
    BY <2>1, <2>2, <1>4
<1> QED
  BY <1>6, <1>7, <1>8, <1>9

\* A new session starts with a token nobody has used.
LEMMA AnswerObtain ==
    ASSUME AnswerInv, LockInv', NEW p \in Proc, Obtain(p)
    PROVE  AnswerInv'
<1> USE DEF AnswerInv
<1>1. /\ UNCHANGED <<lockKey, late>> /\ issued \in Nat
      /\ token'[p] = issued + 1 /\ pc'[p] = "setnx" /\ outcome'[p] = "none" /\ ~expired'[p]
      /\ reply'[p] = Waiting
      /\ \A q \in Proc \ {p} :
            /\ pc'[q] = pc[q] /\ reply'[q] = reply[q] /\ ttl'[q] = ttl[q]
            /\ token'[q] = token[q] /\ expired'[q] = expired[q] /\ outcome'[q] = outcome[q]
  BY DEF Obtain, GoTo, server, LockInv, TypeOK
<1>2. KeyGone(p)' /\ \A q \in Proc \ {p} : KeyGone(q)' <=> KeyGone(q)
  BY <1>1 DEF KeyGone, LockInv, TokensDrawn, TypeOK
<1>3. \A m \in late : m.token # token'[p]
  BY <1>1 DEF LockInv, TokensDrawn, TypeOK
<1>4. LateSetNX'
  BY <1>1, <1>2, <1>3 DEF LateSetNX
<1>5. InCall' /\ SetOnce' /\ Returned'
  BY <1>1, <1>2 DEF InCall, SetOnce, Returned
<1> QED
  BY <1>4, <1>5

\* Expiry marks only a session whose token is in the key.
LEMMA AnswerExpire ==
    ASSUME AnswerInv, LockInv', Expire
    PROVE  AnswerInv'
<1> USE DEF AnswerInv
<1>1. /\ UNCHANGED <<pc, token, ttl, reply, late, outcome>>
      /\ lockKey # NoToken /\ lockKey' = NoToken
      /\ \A q \in Proc : expired'[q] <=> expired[q] \/ token[q] = lockKey
  BY DEF Expire, session, command
<1>2. \A q \in Proc : /\ KeyGone(q) => KeyGone(q)' /\ (expired'[q] => expired[q])
                      /\ expired'[q] => expired[q] \/ KeyGone(q)'
  BY <1>1 DEF KeyGone
<1>3. LateSetNX'
  BY <1>1, <1>2 DEF LateSetNX
<1>4. InCall' /\ SetOnce' /\ Returned'
  BY <1>1, <1>2 DEF InCall, SetOnce, Returned
<1> QED
  BY <1>3, <1>4

\* The answers' invariant, for every kind of ttl.
LEMMA AnswerStep ==
    ASSUME AnswerInv, NoRetries, LockInv', [Next]_vars
    PROVE  AnswerInv'
<1>1. CASE UNCHANGED vars
  BY <1>1 DEF AnswerInv, LateSetNX, InCall, SetOnce, Returned, KeyGone, vars, server, session,
              command, history
<1>2. ASSUME NEW p \in Proc,
             ClientStep(p) \/ Release(p) \/ Refresh(p) \/ Refuse(p) \/ Crash(p)
      PROVE  AnswerInv'
  BY <1>2, AnswerMoves, AnswerClient DEF AnswerInv, LockInv
<1> QED
  BY <1>1, <1>2, AnswerServe, AnswerServeLate, AnswerObtain, AnswerExpire DEF Next

\* The answers' invariant holds in every behaviour without retries.
THEOREM AnswerInvariant == NoRetries => (Spec => []AnswerInv)
<1> SUFFICES ASSUME NoRetries PROVE Spec => []AnswerInv
  OBVIOUS
<1>1. Init /\ LockInv => AnswerInv
  BY DEF Init, AnswerInv, LateSetNX, InCall, SetOnce, Returned
<1>2. AnswerInv /\ LockInv' /\ [Next]_vars => AnswerInv'
  BY AnswerStep
<1> QED
  BY <1>1, <1>2, LockInvariant, PTL DEF Spec

\* Without retries ErrLockNotObtained leaves nothing of the caller's own behind...
THEOREM NotObtainedHolds == NoRetries => (Spec => []NotObtainedMeansOther)
<1> SUFFICES ASSUME NoRetries PROVE Spec => []NotObtainedMeansOther
  OBVIOUS
<1>1. AnswerInv => NotObtainedMeansOther
  BY DEF AnswerInv, Returned, KeyGone, NotObtainedMeansOther
<1> QED
  BY <1>1, AnswerInvariant, PTL

\* ... and a Release that returned nil is final, for the session it released.
THEOREM ReleaseFinalHolds == NoRetries => (Spec => []ReleaseIsFinal)
<1> SUFFICES ASSUME NoRetries PROVE Spec => []ReleaseIsFinal
  OBVIOUS
<1>1. AnswerInv => ReleaseIsFinal
  BY DEF AnswerInv, Returned, KeyGone, ReleaseIsFinal
<1> QED
  BY <1>1, AnswerInvariant, PTL

-----------------------------------------------------------------------------
(* ErrLockLost.  A release that waits for the server still finds its own token    *)
(* unless the lock expired: no late release of the same session precedes it.      *)

OwnsToRelease ==
    \A p \in Proc :
        pc[p] = "release" /\ reply[p] = Waiting /\ ~expired[p] => lockKey = token[p]

NoLateRelease ==
    \A m \in late, p \in Proc : Releasing(m) /\ m.token = token[p] => pc[p] = "idle"

LostOnlyExpired ==
    \A p \in Proc :
        /\ pc[p] \in {"release", "refresh"} /\ reply[p] = 0 => expired[p]
        /\ outcome[p] = "lost" => expired[p]

LostInv == AnswerInv /\ OwnsToRelease /\ NoLateRelease /\ LostOnlyExpired

\* A ttl of at least a millisecond never makes a PEXPIRE delete the key.
LEMMA WholeSafe ==
    ASSUME TypeOK, WholeTTLs, NEW p \in Proc
    PROVE  ttl[p] = "whole" /\ Safe(p)
BY DEF TypeOK, WholeTTLs, Safe

\* A step of a client keeps the invariant: it sends its release while it owns the key.
LEMMA LostClient ==
    ASSUME LostInv, WholeTTLs, AnswerInv', NEW p \in Proc, AnswerMove(p)
    PROVE  LostInv'
<1> USE DEF LostInv
<1>1. OwnsToRelease'
  <2>1. pc[p] = "held" /\ ~expired[p] => lockKey = token[p]
    BY WholeSafe DEF AnswerInv, LockInv, HolderOwnsKey, Holder, Working
  <2> QED
    BY <2>1 DEF AnswerMove, OwnsToRelease
<1>2. NoLateRelease'
  <2> SUFFICES ASSUME NEW m \in late', NEW q \in Proc, Releasing(m), m.token = token[q]
               PROVE  pc'[q] = "idle"
    BY DEF NoLateRelease, AnswerMove, Releasing
  <2>1. CASE m \in late
    BY <2>1 DEF NoLateRelease, AnswerMove
  <2>2. CASE m \notin late
    <3>1. m = Request(p) /\ pc[p] \in {"release", "cleanup"} /\ pc'[p] = "idle"
      BY <2>2 DEF AnswerMove, Releasing, Request
    <3>2. q = p
      BY <3>1 DEF Request, TokensDiffer, AnswerInv, LockInv, TypeOK
    <3> QED
      BY <3>1, <3>2
  <2> QED
    BY <2>1, <2>2
<1>3. LostOnlyExpired'
  BY DEF LostOnlyExpired, AnswerMove
<1> QED
  BY <1>1, <1>2, <1>3

\* The server keeps the invariant when it executes an attempt that is waited for: the
\* scripts answer 0 only to a session that lost its lock.
LEMMA LostServe ==
    ASSUME LostInv, WholeTTLs, AnswerInv', NEW p \in Proc, Serve(p)
    PROVE  LostInv'
<1> USE DEF LostInv, AnswerInv
<1>1. PICK r \in 0..(fenceKey + 1) :
         Execute(Request(p), r) /\ reply' = [reply EXCEPT ![p] = r]
  BY DEF Serve
<1>2. /\ Request(p) \in Requests /\ Request(p).token = token[p] /\ Request(p).op = pc[p]
      /\ Request(p).ttl = "whole" /\ token[p] # NoToken /\ pc[p] # "idle" /\ reply[p] = Waiting
  BY WholeSafe DEF LockInv, TypeOK, Serve, Request
<1>3. /\ UNCHANGED <<late, pc, token, outcome>>
      /\ \A q \in Proc \ {p} : reply'[q] = reply[q] /\ expired'[q] = expired[q]
      /\ reply'[p] = r /\ r # Waiting
      /\ pc[p] # "setnx" => expired'[p] = expired[p]
  BY <1>1 DEF Serve, session, LockInv, TypeOK
<1>4. OwnsToRelease'
  <2> SUFFICES ASSUME NEW q \in Proc \ {p}, pc[q] = "release", reply[q] = Waiting, ~expired[q]
               PROVE  lockKey' = token[q]
    BY <1>3 DEF OwnsToRelease
  <2>1. lockKey = token[q] /\ token[q] # NoToken /\ token[p] # token[q]
    BY <1>2 DEF OwnsToRelease, LockInv, TypeOK, TokensDiffer
  <2> QED
    BY <1>1, <1>2, <2>1, ExecuteKeepsKey
<1>5. NoLateRelease'
  BY <1>3 DEF NoLateRelease
<1>6. LostOnlyExpired'
  <2>1. outcome[p] = "none"
    BY <1>2 DEF InCall
  <2>2. pc[p] \in {"release", "refresh"} /\ r = 0 => lockKey # token[p]
    BY <1>1, <1>2 DEF Execute, ReleaseScript, RefreshScript
  <2>3. pc[p] \in {"release", "refresh"} /\ lockKey # token[p] => expired[p]
    BY <1>2, WholeSafe DEF OwnsToRelease, LockInv, HolderOwnsKey, Holder, Working
  <2> QED
    BY <2>1, <2>2, <2>3, <1>3 DEF LostOnlyExpired
<1> QED
  BY <1>4, <1>5, <1>6

\* A late attempt finds nobody who still waits to release the same session.
LEMMA LostServeLate ==
    ASSUME LostInv, WholeTTLs, AnswerInv', NEW m \in late, ServeLate(m)
    PROVE  LostInv'
<1> USE DEF LostInv, AnswerInv
<1>1. PICK r \in 0..(fenceKey + 1) : Execute(m, r)
  BY DEF ServeLate
<1>2. m \in Requests /\ m.ttl = "whole"
  BY DEF LockInv, TypeOK, WholeTTLs
<1>3. UNCHANGED <<pc, token, reply, expired, outcome>> /\ late' \subseteq late
  BY DEF ServeLate, session, command, history
<1>4. OwnsToRelease'
  <2> SUFFICES ASSUME NEW q \in Proc, pc[q] = "release", reply[q] = Waiting, ~expired[q]
               PROVE  lockKey' = token[q]
    BY <1>3 DEF OwnsToRelease
  <2>1. lockKey = token[q] /\ token[q] # NoToken
    BY DEF OwnsToRelease, LockInv, TypeOK
  <2>2. ~(Releasing(m) /\ m.token = lockKey)
    BY <2>1 DEF NoLateRelease
  <2> QED
    BY <1>1, <1>2, <2>1, <2>2, ExecuteKeepsKey
<1>5. NoLateRelease' /\ LostOnlyExpired'
  BY <1>3 DEF NoLateRelease, LostOnlyExpired
<1> QED
  BY <1>4, <1>5

\* Every step keeps the invariant.
LEMMA LostStep ==
    ASSUME LostInv, WholeTTLs, NoRetries, AnswerInv', [Next]_vars
    PROVE  LostInv'
<1> USE DEF LostInv
<1>1. CASE UNCHANGED vars
  BY <1>1 DEF OwnsToRelease, NoLateRelease, LostOnlyExpired, vars, server, session, command,
              history
<1>2. CASE Expire
  BY <1>2 DEF Expire, OwnsToRelease, NoLateRelease, LostOnlyExpired, session, command,
              AnswerInv, LockInv, TypeOK
<1>3. ASSUME NEW p \in Proc, Obtain(p) PROVE LostInv'
  <2>1. /\ UNCHANGED <<lockKey, late>> /\ token'[p] = issued + 1
        /\ pc'[p] = "setnx" /\ outcome'[p] = "none"
        /\ \A q \in Proc \ {p} :
              /\ pc'[q] = pc[q] /\ reply'[q] = reply[q] /\ token'[q] = token[q]
              /\ expired'[q] = expired[q] /\ outcome'[q] = outcome[q]
    BY <1>3 DEF Obtain, GoTo, server, AnswerInv, LockInv, TypeOK
  <2>2. \A m \in late : m.token # token'[p]
    BY <2>1 DEF AnswerInv, LockInv, TokensDrawn, TypeOK
  <2>3. OwnsToRelease' /\ LostOnlyExpired'
    BY <2>1 DEF OwnsToRelease, LostOnlyExpired
  <2>4. NoLateRelease'
    BY <2>1, <2>2 DEF NoLateRelease, Releasing
  <2> QED
    BY <2>3, <2>4
<1>4. ASSUME NEW p \in Proc,
             ClientStep(p) \/ Release(p) \/ Refresh(p) \/ Refuse(p) \/ Crash(p)
      PROVE  LostInv'
  BY <1>4, AnswerMoves, LostClient DEF AnswerInv, LockInv
<1> QED
  BY <1>1, <1>2, <1>3, <1>4, LostServe, LostServeLate DEF Next

\* Without retries, and with ttls of at least a millisecond, ErrLockLost says that the
\* TTL ran out under the caller.
THEOREM LostHolds == NoRetries /\ WholeTTLs => (Spec => []LostMeansExpired)
<1> SUFFICES ASSUME NoRetries, WholeTTLs PROVE Spec => []LostMeansExpired
  OBVIOUS
<1>1. Init /\ AnswerInv => LostInv
  BY DEF Init, LostInv, OwnsToRelease, NoLateRelease, LostOnlyExpired
<1>2. LostInv /\ AnswerInv' /\ [Next]_vars => LostInv'
  BY LostStep
<1>3. LostInv => LostMeansExpired
  BY DEF LostInv, LostOnlyExpired, LostMeansExpired
<1> QED
  BY <1>1, <1>2, <1>3, AnswerInvariant, PTL DEF Spec

-----------------------------------------------------------------------------
(* Locker implements Lease: with ttls of at least a millisecond each of its steps   *)
(* grants, enters, leaves, frees or lapses a lease, or is hidden.                    *)

AtWork == {token[p] : p \in {q \in Proc : Working(q)}}
Lapsed == {token[p] : p \in {q \in Proc : pc[q] # "idle" /\ expired[q]}}

\* The lease's actions in the terms of the lock.
LEMMA LeaseTerms ==
    /\ \A t \in Tokens :
          /\ lockKey = NoToken /\ lockKey' = t /\ AtWork' = AtWork
             /\ Lapsed' \in {Lapsed, Lapsed \ {t}} => L!LeaseNext
          /\ (lockKey = t \/ t \in Lapsed) /\ AtWork' = AtWork \cup {t}
             /\ lockKey' = lockKey /\ Lapsed' = Lapsed => L!LeaseNext
          /\ AtWork' = AtWork \ {t} /\ lockKey' = lockKey
             /\ Lapsed' \in {Lapsed, Lapsed \ {t}} => L!LeaseNext
    /\ lockKey # NoToken /\ lockKey \notin AtWork /\ lockKey' = NoToken
       /\ AtWork' = AtWork /\ Lapsed' = Lapsed => L!LeaseNext
    /\ lockKey # NoToken /\ lockKey' = NoToken
       /\ AtWork' = AtWork /\ Lapsed' = Lapsed \cup {lockKey} => L!LeaseNext
    /\ lockKey' = lockKey /\ AtWork' = AtWork /\ Lapsed' = Lapsed => UNCHANGED L!leaseVars
BY DEF L!LeaseNext, L!Grant, L!Enter, L!Leave, L!Free, L!Lapse, L!leaseVars, AtWork, Lapsed

\* Only p's own token can enter or leave the two sets when p's client moves.
LEMMA LeaseClient ==
    ASSUME LockInv, WholeTTLs, TypeOK', NEW p \in Proc, pc[p] # "idle", ClientMove(p)
    PROVE  [L!LeaseNext]_(L!leaseVars)
<1> USE DEF LockInv
<1>1. /\ UNCHANGED <<lockKey, token, expired>> /\ token[p] \in Tokens
      /\ \A q \in Proc \ {p} : pc'[q] = pc[q]
      /\ \A q \in Proc \ {p} : token[q] # token[p]
  BY DEF ClientMove, TypeOK, TokensDiffer, server
<1>2. Lapsed' = IF pc'[p] # "idle" THEN Lapsed ELSE Lapsed \ {token[p]}
  BY <1>1 DEF Lapsed
<1>3. CASE Working(p)' /\ ~Working(p)
  <2>1. Holder(p) /\ pc'[p] # "idle"
    BY <1>3 DEF ClientMove, Holder, Working
  <2>2. lockKey = token[p] \/ token[p] \in Lapsed
    BY <2>1, WholeSafe DEF HolderOwnsKey, Lapsed
  <2>3. AtWork' = AtWork \cup {token[p]}
    BY <1>1, <1>3 DEF AtWork, Working
  <2> QED
    BY <1>1, <1>2, <2>1, <2>2, <2>3, LeaseTerms
<1>4. CASE Working(p)' /\ Working(p)
  <2>1. AtWork' = AtWork /\ pc'[p] # "idle"
    BY <1>1, <1>4 DEF AtWork, Working
  <2> QED
    BY <1>1, <1>2, <2>1, LeaseTerms
<1>5. CASE ~Working(p)'
  <2>1. AtWork' = AtWork \ {token[p]}
    BY <1>1, <1>5 DEF AtWork, Working
  <2> QED
    BY <1>1, <1>2, <2>1, LeaseTerms
<1> QED
  BY <1>3, <1>4, <1>5

\* Whatever the server executes for a client is a grant, a freeing, or hidden.
LEMMA LeaseServe ==
    ASSUME LockInv, WholeTTLs, TypeOK', NEW p \in Proc, Serve(p)
    PROVE  [L!LeaseNext]_(L!leaseVars)
<1> USE DEF LockInv
<1>1. PICK r \in 0..(fenceKey + 1) :
         Execute(Request(p), r) /\ reply' = [reply EXCEPT ![p] = r]
  BY DEF Serve
<1>2. /\ Request(p).token = token[p] /\ Request(p).op = pc[p] /\ Request(p).ttl = "whole"
      /\ token[p] \in Tokens /\ pc[p] # "idle"
  BY WholeSafe DEF TypeOK, Serve, Request
<1>3. /\ UNCHANGED <<pc, token>> /\ reply'[p] = r
      /\ \A q \in Proc \ {p} : expired'[q] = expired[q] /\ token[q] # token[p]
  BY <1>1, <1>2 DEF Serve, session, TypeOK, TokensDiffer
<1>4. AtWork' = AtWork
  BY <1>3 DEF AtWork, Working
<1>5. CASE pc[p] = "setnx" /\ r = 1
  <2>1. lockKey = NoToken /\ lockKey' = token[p]
    BY <1>1, <1>2, <1>5 DEF Execute, SetNX
  <2>2. expired' = [expired EXCEPT ![p] = FALSE]
    BY <1>3, <1>5 DEF Serve
  <2>3. Lapsed' = Lapsed \ {token[p]}
    BY <2>2, <1>3 DEF Lapsed, TypeOK
  <2> QED
    BY <2>1, <2>3, <1>2, <1>4, LeaseTerms
<1>6. CASE ~(pc[p] = "setnx" /\ r = 1)
  <2>1. expired' = expired
    BY <1>3, <1>6 DEF Serve
  <2>2. Lapsed' = Lapsed
    BY <2>1, <1>3 DEF Lapsed
  <2>3. \/ lockKey' = lockKey
        \/ pc[p] \in {"release", "cleanup"} /\ lockKey = token[p] /\ lockKey' = NoToken
    BY <1>1, <1>2, <1>6 DEF Execute, SetNX, ReleaseScript, RefreshScript
  <2>4. pc[p] \in {"release", "cleanup"} => token[p] \notin AtWork
    BY <1>3 DEF AtWork, Working
  <2> QED
    BY <2>2, <2>3, <2>4, <1>2, <1>4, LeaseTerms
<1> QED
  BY <1>5, <1>6

\* So is what it executes late: a late release frees a session that works no more.
LEMMA LeaseServeLate ==
    ASSUME LockInv, WholeTTLs, NEW m \in late, ServeLate(m)
    PROVE  [L!LeaseNext]_(L!leaseVars)
<1> USE DEF LockInv
<1>1. PICK r \in 0..(fenceKey + 1) : Execute(m, r)
  BY DEF ServeLate
<1>2. m.ttl = "whole" /\ m.token \in Tokens
  BY DEF TypeOK, WholeTTLs
<1>3. UNCHANGED <<pc, token, expired>>
  BY DEF ServeLate, session, history
<1>4. AtWork' = AtWork /\ Lapsed' = Lapsed
  BY <1>3 DEF AtWork, Lapsed, Working
<1>5. \/ lockKey' = lockKey
      \/ lockKey = NoToken /\ lockKey' = m.token
      \/ Releasing(m) /\ lockKey = m.token /\ lockKey' = NoToken
  BY <1>1, <1>2 DEF Execute, SetNX, ReleaseScript, RefreshScript, Releasing
<1>6. Releasing(m) => m.token \notin AtWork
  BY DEF LateReleases, AtWork, Working
<1> QED
  BY <1>2, <1>4, <1>5, <1>6, LeaseTerms

\* Expiry is a lapse when a session holds or awaits the lock, else a freeing.
LEMMA LeaseExpire ==
    ASSUME LockInv, Expire
    PROVE  [L!LeaseNext]_(L!leaseVars)
<1>1. /\ UNCHANGED <<pc, token>> /\ lockKey # NoToken /\ lockKey' = NoToken
      /\ \A q \in Proc : expired'[q] <=> expired[q] \/ token[q] = lockKey
  BY DEF Expire, session
<1>2. AtWork' = AtWork
  BY <1>1 DEF AtWork, Working
<1>3. CASE \E p \in Proc : pc[p] # "idle" /\ token[p] = lockKey
  <2>1. Lapsed' = Lapsed \cup {lockKey}
    BY <1>1, <1>3 DEF Lapsed
  <2> QED
    BY <1>1, <1>2, <2>1, LeaseTerms
<1>4. CASE ~\E p \in Proc : pc[p] # "idle" /\ token[p] = lockKey
  <2>1. Lapsed' = Lapsed
    BY <1>1, <1>4 DEF Lapsed
  <2>2. lockKey \notin AtWork
    BY <1>4 DEF AtWork, Working
  <2> QED
    BY <1>1, <1>2, <2>1, <2>2, LeaseTerms
<1> QED
  BY <1>3, <1>4

\* Every step is a step of Lease, or hidden from it.
LEMMA LeaseStep ==
    ASSUME LockInv, WholeTTLs, TypeOK', [Next]_vars
    PROVE  [L!LeaseNext]_(L!leaseVars)
<1>1. CASE UNCHANGED vars
  <2>1. AtWork' = AtWork /\ Lapsed' = Lapsed /\ lockKey' = lockKey
    BY <1>1 DEF AtWork, Lapsed, Working, vars, server, session, history
  <2> QED
    BY <2>1, LeaseTerms
<1>2. ASSUME NEW p \in Proc, Obtain(p) PROVE [L!LeaseNext]_(L!leaseVars)
  <2>1. /\ UNCHANGED lockKey /\ pc[p] = "idle" /\ pc'[p] = "setnx" /\ ~expired'[p]
        /\ \A q \in Proc \ {p} :
              pc'[q] = pc[q] /\ token'[q] = token[q] /\ expired'[q] = expired[q]
    BY <1>2 DEF Obtain, GoTo, server, LockInv, TypeOK
  <2>2. AtWork' = AtWork /\ Lapsed' = Lapsed
    BY <2>1 DEF AtWork, Lapsed, Working
  <2> QED
    BY <2>1, <2>2, LeaseTerms
<1>3. ASSUME NEW p \in Proc,
             ClientStep(p) \/ Release(p) \/ Refresh(p) \/ Refuse(p) \/ Crash(p)
      PROVE  [L!LeaseNext]_(L!leaseVars)
  <2>1. pc[p] # "idle"
    BY <1>3 DEF ClientStep, ObtainReturns, FenceReturns, CleanupReturns, ReleaseReturns,
                RefreshReturns, Retry, TimeOut, Release, Refresh, Refuse, Crash
  <2> QED
    BY <1>3, <2>1, ClientMoves, LeaseClient DEF LockInv
<1> QED
  BY <1>1, <1>2, <1>3, LeaseServe, LeaseServeLate, LeaseExpire DEF Next

\* The lock of rediskit implements the lease of Lease.tla.
THEOREM LeaseRefined == WholeTTLs => (Spec => ImplementsLease)
<1> SUFFICES ASSUME WholeTTLs PROVE Spec => ImplementsLease
  OBVIOUS
<1>1. Init => L!LeaseInit
  BY DEF Init, L!LeaseInit, Working
<1>2. LockInv /\ TypeOK' /\ [Next]_vars => [L!LeaseNext]_(L!leaseVars)
  BY LeaseStep
<1> QED
  BY <1>1, <1>2, LockInvariant, TypeCorrect, PTL DEF Spec, ImplementsLease, L!LeaseSpec

\* What Lease promises holds of the lock: apart from sessions that outlived their lease
\* one session at most is at work, the owner of the key (lock.go 16-23).
THEOREM OneWorkerHolds == WholeTTLs => (Spec => []L!OneWorker)
<1> SUFFICES ASSUME WholeTTLs PROVE Spec => []L!OneWorker
  OBVIOUS
<1> DEFINE LeaseInv == AtWork \subseteq Tokens /\ AtWork \ Lapsed \subseteq {lockKey}
<1>1. L!LeaseInit => LeaseInv
  BY DEF L!LeaseInit, AtWork
<1>2. LeaseInv /\ [L!LeaseNext]_(L!leaseVars) => LeaseInv'
  <2> SUFFICES ASSUME LeaseInv, [L!LeaseNext]_(L!leaseVars) PROVE LeaseInv'
    OBVIOUS
  <2>1. CASE UNCHANGED L!leaseVars
    <3>1. lockKey' = lockKey /\ AtWork' = AtWork /\ Lapsed' = Lapsed
      BY <2>1 DEF L!leaseVars, AtWork, Lapsed
    <3> QED
      BY <3>1
  <2>2. ASSUME NEW t \in Tokens, L!Grant(t) PROVE LeaseInv'
    <3>1. /\ lockKey = NoToken /\ lockKey' = t /\ AtWork' = AtWork
          /\ Lapsed' \in {Lapsed, Lapsed \ {t}}
      BY <2>2 DEF L!Grant, AtWork, Lapsed
    <3> QED
      BY <3>1
  <2>3. ASSUME NEW t \in Tokens, L!Enter(t) PROVE LeaseInv'
    <3>1. /\ lockKey = t \/ t \in Lapsed
          /\ AtWork' = AtWork \cup {t} /\ lockKey' = lockKey /\ Lapsed' = Lapsed
      BY <2>3 DEF L!Enter, AtWork, Lapsed
    <3> QED
      BY <3>1
  <2>4. ASSUME NEW t \in Tokens, L!Leave(t) PROVE LeaseInv'
    <3>1. /\ AtWork' = AtWork \ {t} /\ lockKey' = lockKey
          /\ Lapsed' \in {Lapsed, Lapsed \ {t}}
      BY <2>4 DEF L!Leave, AtWork, Lapsed
    <3> QED
      BY <3>1
  <2>5. CASE L!Free \/ L!Lapse
    <3>1. /\ lockKey' = NoToken /\ AtWork' = AtWork
          /\ \/ lockKey \notin AtWork /\ Lapsed' = Lapsed
             \/ Lapsed' = Lapsed \cup {lockKey}
      BY <2>5 DEF L!Free, L!Lapse, AtWork, Lapsed
    <3> QED
      BY <3>1
  <2> QED
    BY <2>1, <2>2, <2>3, <2>4, <2>5 DEF L!LeaseNext
<1>3. LeaseInv => L!OneWorker
  BY DEF L!OneWorker, AtWork, Lapsed
<1> QED
  BY <1>1, <1>2, <1>3, LeaseRefined, PTL DEF ImplementsLease, L!LeaseSpec

=============================================================================
