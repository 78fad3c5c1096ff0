------------------------------- MODULE Locker -------------------------------
(***************************************************************************)
(* The distributed lock of rediskit/lock.go on one logical Redis: Obtain,  *)
(* ObtainWithFence, Release and Refresh of one lock name, run by a set of  *)
(* processes that may stall, crash or have their context cancelled.        *)
(*                                                                         *)
(* A Redis command is not one step.  It is sent, executed atomically by    *)
(* the server, and answered; go-redis sends it again, up to MaxRetries     *)
(* times, when the connection fails before the answer is read (the         *)
(* executed attempt's answer is lost, or the attempt is still on its way   *)
(* and may be executed after the client gave up on it).                    *)
(***************************************************************************)
EXTENDS Integers, FiniteSets

CONSTANTS
    Proc,        \* processes that use the lock
    TTLs,        \* the kinds of ttl callers pass
    MaxSessions, \* bound: calls of Obtain in all
    MaxLate,     \* bound: abandoned attempts on their way at a time
    MaxRetries   \* options.maxRetries: 0 models -1 (no retry), default 3

\* A random token is the number of the session it is drawn for: never drawn twice.
Tokens == 1..MaxSessions
NoToken == 0     \* the lock key does not exist

\* "whole": at least a millisecond; "submilli": positive, below a millisecond;
\* "none": zero.
ASSUME LockerAssumption ==
    /\ MaxSessions \in Nat
    /\ MaxLate \in Nat /\ MaxRetries \in Nat
    /\ TTLs \subseteq {"whole", "submilli", "none"}

VARIABLES
    \* Redis
    lockKey,     \* value of "lock:"+name: a token, or NoToken
    lockPX,      \* whether the lock key carries a TTL
    fenceKey,    \* value of the counter "lock:fence:"+name
    \* the network
    late,        \* attempts the client gave up on and the server may still execute
    \* per process: the call in progress and the Lock it produced
    pc,          \* the command awaiting its answer, or "idle" or "held"
    token,       \* Lock.token of the current session, of the last one when idle
    ttl,         \* kind of ttl of the current session
    fenced,      \* the session was opened by ObtainWithFence
    fence,       \* Lock.fence, 0 before it is known
    tries,       \* retries of the current command
    reply,       \* answer under way to the client, or Waiting
    outcome,     \* what the last session's last call returned; "none" for an error
    \* history
    issued,      \* tokens drawn so far
    expired,     \* Redis expired the lock the current (last) session had set
    older,       \* the processes whose session had set the lock before this one's did
    steady       \* the session's lock had not expired when its INCR was executed

server  == <<lockKey, lockPX, fenceKey>>
session == <<token, ttl, fenced>>
command == <<tries, reply>>
history == <<issued, expired, older, steady>>
vars == <<server, late, pc, session, fence, command, outcome, history>>

Commands == {"setnx", "incr", "cleanup", "release", "refresh"}
Waiting == -1
Request(p) == [op |-> pc[p], token |-> token[p], ttl |-> ttl[p]]
Requests == [op : Commands, token : Tokens, ttl : TTLs]

Init ==
    /\ lockKey = NoToken /\ lockPX = FALSE /\ fenceKey = 0
    /\ late = {}
    /\ pc = [p \in Proc |-> "idle"]
    /\ token = [p \in Proc |-> NoToken]
    /\ ttl \in [Proc -> TTLs] /\ fenced = [p \in Proc |-> FALSE]
    /\ fence = [p \in Proc |-> 0]
    /\ tries = [p \in Proc |-> 0] /\ reply = [p \in Proc |-> Waiting]
    /\ outcome = [p \in Proc |-> "none"]
    /\ issued = 0 /\ expired = [p \in Proc |-> FALSE]
    /\ older = [p \in Proc |-> {}] /\ steady = [p \in Proc |-> FALSE]

-----------------------------------------------------------------------------
(* What the server does with one request; r is the integer it answers. *)

(* A definition named X_Y is a faulty variant of X that no action uses: each     *)
(* property is checked to fail when X is replaced by such a variant.             *)

\* SET without NX.
SetNX_Overwrites(t, k, r) ==
    r = 1 /\ lockKey' = t /\ lockPX' = (k # "none")

\* SETNX without PX.
SetNX_NoTTL(t, k, r) ==
    \/ lockKey = NoToken /\ r = 1 /\ lockKey' = t /\ lockPX' = FALSE
    \/ lockKey # NoToken /\ r = 0 /\ UNCHANGED <<lockKey, lockPX>>

\* SET key token NX PX ttl; a zero ttl is sent without PX.
SetNX(t, k, r) ==
    \/ /\ lockKey = NoToken
       /\ r = 1
       /\ lockKey' = t /\ lockPX' = (k # "none")
    \/ /\ lockKey # NoToken
       /\ r = 0
       /\ UNCHANGED <<lockKey, lockPX>>

\* The fence is read and its successor handed out, not written back.
Incr_NotStored(r) == r = fenceKey + 1 /\ UNCHANGED fenceKey

\* INCR lock:fence:name.
Incr(r) ==
    /\ r = fenceKey + 1
    /\ fenceKey' = r

\* DEL without the comparison.
ReleaseScript_NoCompare(t, r) ==
    /\ r = IF lockKey = NoToken THEN 0 ELSE 1
    /\ lockKey' = NoToken /\ lockPX' = FALSE

\* lockReleaseScript: GET == token, then DEL.
ReleaseScript(t, r) ==
    \/ lockKey = t /\ r = 1 /\ lockKey' = NoToken /\ lockPX' = FALSE
    \/ lockKey # t /\ r = 0 /\ UNCHANGED <<lockKey, lockPX>>

\* SET key token PX ttl instead of PEXPIRE.
RefreshScript_Sets(t, k, r) ==
    r = 1 /\ lockKey' = t /\ lockPX' = TRUE

\* lockRefreshScript: GET == token, then PEXPIRE ttl.Milliseconds(), which is 0
\* below a millisecond, and PEXPIRE 0 deletes the key and answers 1.
RefreshScript(t, k, r) ==
    \/ lockKey = t /\ k = "whole" /\ r = 1 /\ lockPX' = TRUE /\ UNCHANGED lockKey
    \/ lockKey = t /\ k # "whole" /\ r = 1 /\ lockPX' = FALSE /\ lockKey' = NoToken
    \/ lockKey # t /\ r = 0 /\ UNCHANGED <<lockKey, lockPX>>

Execute(m, r) ==
    \/ m.op = "setnx" /\ SetNX(m.token, m.ttl, r) /\ UNCHANGED fenceKey
    \/ m.op = "incr" /\ Incr(r) /\ UNCHANGED <<lockKey, lockPX>>
    \/ /\ m.op \in {"release", "cleanup"}
       /\ ReleaseScript(m.token, r) /\ UNCHANGED fenceKey
    \/ /\ m.op = "refresh"
       /\ RefreshScript(m.token, m.ttl, r) /\ UNCHANGED fenceKey

\* p believes it has the lock: its SETNX was answered 1 and it has asked neither
\* Release nor the clean-up Release to give it back.
Working(p) == pc[p] \in {"incr", "held", "refresh"}

\* p's session has set the lock, though p may not know it yet.
Holder(p) == Working(p) \/ (pc[p] = "setnx" /\ reply[p] = 1)

\* History: p's session has not set the lock, or not any more.
Forget(p) == [q \in Proc |-> IF q = p THEN {} ELSE older[q] \ {p}]

\* The server executes the attempt p is waiting on, and its answer is under way.
Serve(p) ==
    /\ pc[p] \in Commands /\ reply[p] = Waiting
    /\ \E r \in 0..(fenceKey + 1) :
          Execute(Request(p), r) /\ reply' = [reply EXCEPT ![p] = r]
    /\ IF pc[p] = "setnx" /\ reply'[p] = 1
       THEN /\ older' = [Forget(p) EXCEPT ![p] = {q \in Proc : Holder(q)}]
            /\ expired' = [expired EXCEPT ![p] = FALSE]
       ELSE UNCHANGED <<older, expired>>
    /\ steady' = IF pc[p] = "incr"
                 THEN [steady EXCEPT ![p] = ~expired[p]] ELSE steady
    /\ UNCHANGED <<late, pc, session, fence, tries, outcome, issued>>

\* The server executes an attempt nobody waits for any more.
ServeLate(m) ==
    /\ m \in late
    /\ \E r \in 0..(fenceKey + 1) : Execute(m, r)
    /\ late' = late \ {m}
    /\ UNCHANGED <<pc, session, fence, command, outcome, history>>

\* Redis drops the lock key when its TTL has run out.
Expire ==
    /\ lockKey # NoToken /\ lockPX
    /\ expired' = [p \in Proc |-> expired[p] \/ token[p] = lockKey]
    /\ lockKey' = NoToken /\ lockPX' = FALSE
    /\ UNCHANGED <<fenceKey, late, pc, session, fence, command, outcome,
                   issued, older, steady>>

-----------------------------------------------------------------------------
(* The client.  Its context may end at any time; the code sees it only when it *)
(* is about to send a command or to send one again, and a call that saw its    *)
(* context done sends nothing more, so it is chosen there.                     *)

\* p moves to c: a command whose first attempt is sent, or "idle", or "held".
GoTo(p, c) ==
    /\ pc' = [pc EXCEPT ![p] = c]
    /\ tries' = [tries EXCEPT ![p] = 0]
    /\ reply' = [reply EXCEPT ![p] = Waiting]

\* p's call returns without a lock, or gives the lock up, with result o.
Finish(p, o) ==
    /\ GoTo(p, "idle")
    /\ outcome' = [outcome EXCEPT ![p] = o]
    /\ fence' = [fence EXCEPT ![p] = 0]
    /\ older' = Forget(p)
    /\ steady' = [steady EXCEPT ![p] = FALSE]
    /\ UNCHANGED <<server, session, issued, expired>>

\* p's call returns and p goes on (or goes on inside the call) holding a Lock.
Keep(p) ==
    UNCHANGED <<server, session, outcome, history>>

\* The call returns with the Lock: p works under it.
Hold(p) ==
    /\ GoTo(p, "held")
    /\ Keep(p)

\* The token is drawn once per process.
Obtain_SameToken(p) ==
    /\ pc[p] = "idle" /\ issued < MaxSessions
    /\ issued' = issued + 1
    /\ token' = [token EXCEPT ![p] = IF @ = NoToken THEN issued' ELSE @]
    /\ expired' = [expired EXCEPT ![p] = FALSE]
    /\ \E k \in TTLs, f \in BOOLEAN :
          ttl' = [ttl EXCEPT ![p] = k] /\ fenced' = [fenced EXCEPT ![p] = f]
    /\ GoTo(p, "setnx")
    /\ outcome' = [outcome EXCEPT ![p] = "none"]
    /\ UNCHANGED <<server, late, fence, older, steady>>

\* Obtain and ObtainWithFence, up to the SETNX: a fresh random token.
Obtain(p) ==
    /\ pc[p] = "idle" /\ issued < MaxSessions
    /\ issued' = issued + 1
    /\ token' = [token EXCEPT ![p] = issued']
    /\ expired' = [expired EXCEPT ![p] = FALSE]
    /\ \E k \in TTLs, f \in BOOLEAN :
          ttl' = [ttl EXCEPT ![p] = k] /\ fenced' = [fenced EXCEPT ![p] = f]
    /\ GoTo(p, "setnx")
    /\ outcome' = [outcome EXCEPT ![p] = "none"]
    /\ UNCHANGED <<server, late, fence, older, steady>>

\* ObtainWithFence once Obtain returned a Lock: INCR, which a context that is
\* done by then fails before it is sent, and the clean-up Release with it.
Fence(p) ==
    \/ GoTo(p, "incr") /\ Keep(p) /\ UNCHANGED fence
    \/ Finish(p, "fence_failed")

\* Obtain reads the answer of SETNX.
ObtainReturns(p) ==
    /\ pc[p] = "setnx" /\ reply[p] # Waiting
    /\ \/ reply[p] = 0 /\ Finish(p, "not_obtained")
       \/ reply[p] = 1 /\ ~fenced[p] /\ Hold(p) /\ UNCHANGED fence
       \/ reply[p] = 1 /\ fenced[p] /\ Fence(p)
    /\ UNCHANGED late

\* ObtainWithFence reads the answer of INCR.
FenceReturns(p) ==
    /\ pc[p] = "incr" /\ reply[p] # Waiting
    /\ fence' = [fence EXCEPT ![p] = reply[p]]
    /\ Hold(p)
    /\ UNCHANGED late

\* Release and Refresh, with a context of their own.
Release(p) ==
    /\ pc[p] = "held"
    /\ GoTo(p, "release") /\ Keep(p)
    /\ UNCHANGED <<late, fence>>

Refresh(p) ==
    /\ pc[p] = "held"
    /\ GoTo(p, "refresh") /\ Keep(p)
    /\ UNCHANGED <<late, fence>>

\* ErrLockLost is the answer 0 of either script; the caller stops its work.
ReleaseReturns(p) ==
    /\ pc[p] = "release" /\ reply[p] # Waiting
    /\ Finish(p, IF reply[p] = 0 THEN "lost" ELSE "ok")
    /\ UNCHANGED late

RefreshReturns(p) ==
    /\ pc[p] = "refresh" /\ reply[p] # Waiting
    /\ \/ reply[p] = 0 /\ Finish(p, "lost")
       \/ reply[p] # 0 /\ Hold(p) /\ UNCHANGED fence
    /\ UNCHANGED late

\* The result of the clean-up Release is dropped: the INCR's error is returned.
CleanupReturns(p) ==
    /\ pc[p] = "cleanup" /\ reply[p] # Waiting
    /\ Finish(p, "fence_failed")
    /\ UNCHANGED late

\* The connection fails before the answer is read; an attempt that was not
\* executed yet is lost, or may be executed later.
Abandon(p) ==
    \/ UNCHANGED late
    \/ /\ reply[p] = Waiting /\ Cardinality(late) < MaxLate
       /\ late' = late \cup {Request(p)}

\* One retry too many.
Retry_OneMore(p) ==
    /\ pc[p] \in Commands /\ tries[p] <= MaxRetries
    /\ Abandon(p)
    /\ tries' = [tries EXCEPT ![p] = @ + 1]
    /\ reply' = [reply EXCEPT ![p] = Waiting]
    /\ UNCHANGED <<server, pc, session, fence, outcome, history>>

\* go-redis sends the command again.
Retry(p) ==
    /\ pc[p] \in Commands /\ tries[p] < MaxRetries
    /\ Abandon(p)
    /\ tries' = [tries EXCEPT ![p] = @ + 1]
    /\ reply' = [reply EXCEPT ![p] = Waiting]
    /\ UNCHANGED <<server, pc, session, fence, outcome, history>>

\* The clean-up Release is called until it succeeds.
Fail_CleanupAgain(p, ctxDone) ==
    \/ pc[p] \in {"setnx", "release"} /\ Finish(p, "none")
    \/ pc[p] = "refresh" /\ Hold(p) /\ UNCHANGED fence
    \/ pc[p] = "incr" /\ ctxDone /\ Finish(p, "fence_failed")
    \/ pc[p] \in {"incr", "cleanup"} /\ GoTo(p, "cleanup") /\ Keep(p) /\ UNCHANGED fence

\* What each call does with the error of its command, its context being done or not.
Fail(p, ctxDone) ==
    \/ pc[p] \in {"setnx", "release"} /\ Finish(p, "none")
    \/ pc[p] = "refresh" /\ Hold(p) /\ UNCHANGED fence
    \/ pc[p] = "cleanup" /\ Finish(p, "fence_failed")
    \/ pc[p] = "incr" /\ ctxDone /\ Finish(p, "fence_failed")
    \/ pc[p] = "incr" /\ ~ctxDone /\ GoTo(p, "cleanup") /\ Keep(p) /\ UNCHANGED fence

\* The last attempt failed, or the context ended the retries.
TimeOut(p) ==
    /\ pc[p] \in Commands
    /\ \E ctxDone \in BOOLEAN : (tries[p] = MaxRetries \/ ctxDone) /\ Fail(p, ctxDone)
    /\ Abandon(p)

\* The server answers with an error (OOM, READONLY...): nothing was executed.
Refuse(p) ==
    /\ pc[p] \in Commands /\ reply[p] = Waiting
    /\ \E ctxDone \in BOOLEAN : Fail(p, ctxDone)
    /\ UNCHANGED late

\* The process dies, or drops its Lock without Release.
Crash(p) ==
    /\ pc[p] # "idle"
    /\ IF pc[p] \in Commands THEN Abandon(p) ELSE UNCHANGED late
    /\ Finish(p, "none")

ClientStep(p) ==
    \/ ObtainReturns(p) \/ FenceReturns(p) \/ CleanupReturns(p)
    \/ ReleaseReturns(p) \/ RefreshReturns(p)
    \/ Retry(p) \/ TimeOut(p)

Next ==
    \/ Expire
    \/ \E m \in late : ServeLate(m)
    \/ \E p \in Proc :
          \/ Obtain(p) \/ Release(p) \/ Refresh(p)
          \/ Serve(p) \/ ClientStep(p) \/ Refuse(p) \/ Crash(p)

\* A session is live from Obtain to the return of its last call.
Live(t) == \E p \in Proc : pc[p] # "idle" /\ t = token[p]

\* Every attempt is answered or times out (ReadTimeout, PoolTimeout), and a lock
\* nobody refreshes any more runs out; nothing else is guaranteed.
Spec == Init /\ [][Next]_vars
FairSpec ==
    /\ Spec
    /\ \A p \in Proc : WF_vars(ClientStep(p))
    /\ WF_vars(Expire /\ ~Live(lockKey))

-----------------------------------------------------------------------------
(* Properties. *)

Labels == Commands \cup {"idle", "held"}
Outcomes == {"none", "ok", "not_obtained", "lost", "fence_failed"}

\* The types of the lock's state, the calls in progress and the history.
TypeOK ==
    /\ lockKey \in Tokens \cup {NoToken} /\ lockPX \in BOOLEAN /\ fenceKey \in Nat
    /\ late \subseteq Requests
    /\ pc \in [Proc -> Labels]
    /\ token \in [Proc -> 0..issued]
    /\ \A p \in Proc : pc[p] # "idle" => token[p] \in Tokens
    /\ ttl \in [Proc -> TTLs] /\ fenced \in [Proc -> BOOLEAN]
    /\ fence \in [Proc -> Nat]
    /\ tries \in [Proc -> 0..MaxRetries] /\ reply \in [Proc -> Nat \cup {Waiting}]
    /\ outcome \in [Proc -> Outcomes]
    /\ issued \in 0..MaxSessions /\ expired \in [Proc -> BOOLEAN]
    /\ older \in [Proc -> SUBSET Proc] /\ steady \in [Proc -> BOOLEAN]

\* A process that works under a lock Redis has not expired owns the lock key,
\* whatever retried, late or cancelled calls of the others do (lock.go 22-23:
\* only the holder releases or refreshes).
OwnsKey ==
    \A p \in Proc : Working(p) /\ ~expired[p] => lockKey = token[p]

\* So two processes work at the same time only after the TTL of one ran out,
\* the flaw of TTL locks lock.go 60-62 names and no other.
MutualExclusion ==
    \A p, q \in Proc : p # q /\ Working(p) /\ Working(q)
        => expired[p] \/ expired[q]

\* If p's lock had not expired when its INCR was executed, whoever obtains the
\* lock after p gets a larger fence (ObtainWithFence, lock.go 60-62).
FenceOrder ==
    \A p, q \in Proc :
        fence[p] > 0 /\ fence[q] > 0 /\ steady[p] /\ p \in older[q]
            => fence[p] < fence[q]

\* Release and Refresh answer ErrLockLost only when the TTL ran out under the
\* caller (errors.go 22-24, lock.go 82-83).
LostMeansExpired ==
    \A p \in Proc : outcome[p] = "lost" => expired[p]

\* ErrLockNotObtained says that somebody else holds the lock: the caller who gets
\* it leaves nothing of its own behind (lock.go 43, errors.go 20).
NotObtainedMeansOther ==
    \A p \in Proc : outcome[p] = "not_obtained" => lockKey # token[p]

\* Release that returns nil found the lock never lost since Obtain, and the lock
\* does not come back under the released token (lock.go 81-93).
ReleaseIsFinal ==
    \A p \in Proc : outcome[p] = "ok" => lockKey # token[p] /\ ~expired[p]

\* ObtainWithFence that fails at the INCR leaves no lock behind (lock.go 70).
FenceFailureFreesLock ==
    \A p \in Proc : outcome[p] = "fence_failed" => lockKey # token[p]

\* Every call ends: with the lock, or idle.
CallsReturn == \A p \in Proc : pc[p] \in Commands ~> pc[p] \in {"idle", "held"}

\* A lock whose session is over (its holder crashed, gave up, or an attempt of
\* SETNX was executed late) leaves the key by its TTL (lock.go 42).
AbandonedLockFreed ==
    \A t \in Tokens : lockKey = t /\ ~Live(t) ~> lockKey # t

=============================================================================
