------------------------- MODULE FencedResourceProofs -------------------------
(* Proofs about FencedResource, for every set of processes, bound and ttl. *)
EXTENDS FencedResource, LockerProofs

USE DEF NoToken, Tokens, Commands, Labels, Outcomes, Waiting, Requests

\* The lock under the resource behaves as Locker says.
LEMMA FencedIsLocker == FencedSpec => Spec
<1>1. FencedInit => Init
  BY DEF FencedInit
<1>2. [FencedNext]_fencedVars => [Next]_vars
  BY DEF FencedNext, fencedVars, Send, Write
<1> QED
  BY <1>1, <1>2, PTL DEF FencedSpec, Spec

\* What the guard has seen was drawn from the counter, and the histories hold tokens
\* already drawn.
GuardType ==
    /\ overtaken \subseteq 1..issued
    /\ seen \in 0..fenceKey
    /\ writer \in [token : 0..issued, steady : BOOLEAN]
    /\ \A w \in sent :
          /\ w.token \in 1..issued /\ w.fence \in 1..fenceKey /\ w.steady \in BOOLEAN
          /\ w.elders \subseteq 1..issued /\ w.token \notin w.elders

\* If q's session is one of T, it has lost its lock, and a fence it drew in time is at
\* most n.
Beaten(q, T, n) ==
    token[q] \in T =>
        /\ pc[q] # "setnx" /\ (expired[q] \/ ~Safe(q))
        /\ steady[q] => fence[q] <= n /\ (Answered(q) => reply[q] <= n)

\* Who was overtaken is beaten by what the guard has seen, and the elders of a write are
\* beaten by its fence.
SessionsBeaten ==
    \A q \in Proc :
        /\ Beaten(q, overtaken, seen)
        /\ \A u \in sent : Beaten(q, u.elders, u.fence)

\* So are the writes they sent, whether the session goes on or not.
WritesBeaten ==
    \A w \in sent : w.steady =>
        /\ w.token \in overtaken => w.fence <= seen
        /\ \A u \in sent : w.token \in u.elders => w.fence <= u.fence

\* A session that goes on has the fence it has sent.
SentCurrent ==
    \A w \in sent, q \in Proc : w.token = token[q] /\ pc[q] # "idle" =>
        /\ pc[q] \in {"held", "refresh", "release"}
        /\ fence[q] = w.fence /\ steady[q] = w.steady

\* p owns the lock.
Owns(p) == Holder(p) /\ ttl[p] = "whole" /\ ~expired[p]

\* p's fence, known to it or under way, is above n.
Above(p, n) == (fence[p] > 0 => fence[p] > n) /\ (Answered(p) => reply[p] > n)

\* The owner's fence is larger than what the guard has seen, and than every write of
\* somebody else, if those were drawn in time.
OwnerAhead ==
    \A p \in Proc : Owns(p) =>
        /\ writer.steady /\ writer.token # token[p] => Above(p, seen)
        /\ \A w \in sent : w.steady /\ w.token # token[p] => Above(p, w.fence)

GuardInv ==
    /\ GuardType /\ SessionsBeaten /\ WritesBeaten /\ SentCurrent /\ OwnerAhead
    /\ SteadyStaleWriteRejected

\* What a step of p's client but Obtain does to its fence.
FenceMove(p) ==
    /\ \A q \in Proc \ {p} : fence'[q] = fence[q] /\ steady'[q] = steady[q]
    /\ steady'[p] => steady[p]
    /\ reply'[p] = Waiting
    /\ pc[p] # "setnx" => pc'[p] # "setnx"
    /\ pc[p] \in {"held", "refresh", "release"} =>
          \/ pc'[p] = "idle"
          \/ /\ pc'[p] \in {"held", "refresh", "release"}
             /\ fence'[p] = fence[p] /\ steady'[p] = steady[p]
    /\ \/ fence'[p] = fence[p]
       \/ fence'[p] = 0
       \/ Answered(p) /\ fence'[p] = reply[p]

\* Every step of a client but Obtain is a FenceMove.
LEMMA FenceMoves ==
    ASSUME TypeOK, NEW p \in Proc,
           ClientStep(p) \/ Release(p) \/ Refresh(p) \/ Refuse(p) \/ Crash(p)
    PROVE  FenceMove(p)
<1> USE DEF TypeOK, FenceMove, Finish, Keep, Hold, GoTo, history
<1>1. CASE ObtainReturns(p)
  BY <1>1 DEF ObtainReturns, Fence
<1>2. CASE FenceReturns(p) \/ Release(p) \/ Refresh(p)
  BY <1>2 DEF FenceReturns, Release, Refresh, Answered
<1>3. CASE CleanupReturns(p) \/ ReleaseReturns(p) \/ RefreshReturns(p)
  BY <1>3 DEF CleanupReturns, ReleaseReturns, RefreshReturns
<1>4. CASE Retry(p)
  BY <1>4 DEF Retry
<1>5. CASE TimeOut(p) \/ Refuse(p)
  BY <1>5 DEF TimeOut, Refuse, Fail
<1>6. CASE Crash(p)
  BY <1>6 DEF Crash
<1> QED
  BY <1>1, <1>2, <1>3, <1>4, <1>5, <1>6 DEF ClientStep

\* A step of a client leaves beaten what was, and the owner above what it was.
LEMMA ClientKeeps ==
    ASSUME LockInv, NEW p \in Proc, pc[p] # "idle", ClientMove(p), FenceMove(p),
           NEW q \in Proc
    PROVE  /\ \A T : \A n \in Nat : Beaten(q, T, n) =>
                  (token[q] \in T =>
                      /\ pc'[q] # "setnx" /\ (expired[q] \/ ~Safe(q)')
                      /\ steady'[q] => fence'[q] <= n /\ (Answered(q)' => reply'[q] <= n))
           /\ Owns(q)' => Owns(q)
           /\ \A n \in Nat : Owns(q)' /\ Above(q, n) =>
                  (fence'[q] > 0 => fence'[q] > n) /\ (Answered(q)' => reply'[q] > n)
<1>1. /\ UNCHANGED <<token, ttl, expired>>
      /\ q # p => /\ pc'[q] = pc[q] /\ reply'[q] = reply[q]
                  /\ fence'[q] = fence[q] /\ steady'[q] = steady[q]
      /\ ~Answered(p)'
  BY DEF ClientMove, FenceMove, Answered
<1>2. pc[p] # "setnx" => pc'[p] # "setnx" /\ (Safe(p)' => Safe(p))
  BY DEF ClientMove, FenceMove, Safe, LockInv, TypeOK
<1>3. fence'[p] \in {fence[p], 0} \/ (Answered(p) /\ fence'[p] = reply[p])
  BY DEF FenceMove
<1>4. steady'[p] => steady[p]
  BY DEF FenceMove
<1>5. ASSUME NEW T, NEW n \in Nat, Beaten(q, T, n), token[q] \in T
      PROVE  /\ pc'[q] # "setnx" /\ (expired[q] \/ ~Safe(q)')
             /\ steady'[q] => fence'[q] <= n /\ (Answered(q)' => reply'[q] <= n)
  <2>1. CASE q = p
    BY <1>5, <2>1, <1>1, <1>2, <1>3, <1>4 DEF Beaten
  <2>2. CASE q # p
    BY <1>5, <2>2, <1>1 DEF Beaten, Answered, Safe
  <2> QED
    BY <2>1, <2>2
<1>6. Owns(q)' => Owns(q)
  BY <1>1 DEF Owns, ClientMove, Holder, Working
<1>7. ASSUME NEW n \in Nat, Above(q, n)
      PROVE  (fence'[q] > 0 => fence'[q] > n) /\ (Answered(q)' => reply'[q] > n)
  <2>1. CASE q = p
    BY <1>7, <2>1, <1>1, <1>3 DEF Above
  <2>2. CASE q # p
    BY <1>7, <2>2, <1>1 DEF Above, Answered
  <2> QED
    BY <2>1, <2>2
<1> QED
  BY <1>5, <1>6, <1>7

\* A step of a client keeps the guard's invariant: a fence that becomes known is the
\* one that was under way.
LEMMA GuardClient ==
    ASSUME GuardInv, LockInv, NEW p \in Proc, pc[p] # "idle", ClientMove(p), FenceMove(p),
           UNCHANGED guardVars
    PROVE  GuardInv'
<1> USE DEF GuardInv
<1>1. UNCHANGED <<fenceKey, token, ttl, expired, issued, seen, sent, writer, overtaken>>
  BY DEF ClientMove, guardVars, server
<1>2. seen \in Nat /\ \A w \in sent : w.fence \in Nat
  BY DEF GuardType, LockInv, TypeOK
<1>3. GuardType' /\ SteadyStaleWriteRejected' /\ WritesBeaten'
  BY <1>1 DEF GuardType, SteadyStaleWriteRejected, WritesBeaten
<1>4. SessionsBeaten'
  <2> SUFFICES ASSUME NEW q \in Proc
               PROVE  /\ Beaten(q, overtaken, seen)'
                      /\ \A u \in sent : Beaten(q, u.elders, u.fence)'
    BY <1>1 DEF SessionsBeaten
  <2>1. Beaten(q, overtaken, seen) /\ \A u \in sent : Beaten(q, u.elders, u.fence)
    BY DEF SessionsBeaten
  <2>2. Beaten(q, overtaken, seen)'
    BY <2>1, <1>1, <1>2, ClientKeeps DEF Beaten
  <2>3. ASSUME NEW u \in sent PROVE Beaten(q, u.elders, u.fence)'
    BY <2>1, <1>1, <1>2, ClientKeeps DEF Beaten
  <2> QED
    BY <2>2, <2>3
<1>5. SentCurrent'
  <2> SUFFICES ASSUME NEW w \in sent, NEW q \in Proc, w.token = token[q], pc'[q] # "idle"
               PROVE  /\ pc'[q] \in {"held", "refresh", "release"}
                      /\ fence'[q] = w.fence /\ steady'[q] = w.steady
    BY <1>1 DEF SentCurrent
  <2>1. CASE q = p
    BY <2>1 DEF SentCurrent, FenceMove
  <2>2. CASE q # p
    BY <2>2 DEF SentCurrent, FenceMove, ClientMove
  <2> QED
    BY <2>1, <2>2
<1>6. OwnerAhead'
  <2> SUFFICES ASSUME NEW q \in Proc, Owns(q)'
               PROVE  /\ writer.steady /\ writer.token # token[q] => Above(q, seen)'
                      /\ \A w \in sent :
                            w.steady /\ w.token # token[q] => Above(q, w.fence)'
    BY <1>1 DEF OwnerAhead
  <2>1. Owns(q)
    BY ClientKeeps
  <2>2. ASSUME writer.steady, writer.token # token[q] PROVE Above(q, seen)'
    BY <2>1, <2>2, <1>1, <1>2, ClientKeeps DEF OwnerAhead, Above
  <2>3. ASSUME NEW w \in sent, w.steady, w.token # token[q] PROVE Above(q, w.fence)'
    BY <2>1, <2>3, <1>1, <1>2, ClientKeeps DEF OwnerAhead, Above
  <2> QED
    BY <2>2, <2>3
<1> QED
  BY <1>3, <1>4, <1>5, <1>6

\* The server keeps it: an INCR answers more than the guard can have seen or been sent.
LEMMA GuardServe ==
    ASSUME GuardInv, FenceInv, LockInv', NEW p \in Proc, Serve(p), UNCHANGED guardVars
    PROVE  GuardInv'
<1> USE DEF GuardInv, FenceInv
<1>1. PICK r \in 0..(fenceKey + 1) :
         Execute(Request(p), r) /\ reply' = [reply EXCEPT ![p] = r]
  BY DEF Serve
<1>2. /\ UNCHANGED <<pc, token, ttl, fence, issued, seen, sent, writer, overtaken>>
      /\ \A q \in Proc \ {p} : /\ reply'[q] = reply[q] /\ expired'[q] = expired[q]
                                /\ steady'[q] = steady[q]
      /\ reply'[p] = r /\ reply[p] = Waiting
      /\ pc[p] # "setnx" => expired'[p] = expired[p]
      /\ IF pc[p] = "incr" THEN steady'[p] = ~expired[p] ELSE steady'[p] = steady[p]
      /\ pc[p] \in Commands
  BY <1>1 DEF Serve, session, LockInv, TypeOK, guardVars
<1>3. /\ fenceKey' \in Nat /\ fenceKey' >= fenceKey /\ fenceKey \in Nat
      /\ pc[p] = "incr" => r = fenceKey + 1
  BY <1>1 DEF Execute, Incr, Request, LockInv, TypeOK
<1>4. GuardType' /\ SteadyStaleWriteRejected' /\ WritesBeaten'
  BY <1>2, <1>3 DEF GuardType, SteadyStaleWriteRejected, WritesBeaten
<1>5. ASSUME NEW q \in Proc, NEW T, NEW n, Beaten(q, T, n), token[q] \in T
      PROVE  /\ pc[q] # "setnx" /\ (expired'[q] \/ ~Safe(q))
             /\ steady'[q] => fence[q] <= n /\ (Answered(q)' => reply'[q] <= n)
  <2>1. CASE q = p /\ pc[p] = "incr"
    BY <2>1, <1>5, <1>2 DEF Beaten, Safe
  <2>2. CASE ~(q = p /\ pc[p] = "incr")
    BY <2>2, <1>5, <1>2 DEF Beaten, Answered
  <2> QED
    BY <2>1, <2>2
<1>6. SessionsBeaten'
  BY <1>2, <1>5 DEF SessionsBeaten, Beaten, Safe, Answered
<1>7. SentCurrent'
  BY <1>2 DEF SentCurrent
<1>8. OwnerAhead'
  <2> SUFFICES ASSUME NEW q \in Proc, Owns(q)'
               PROVE  /\ writer.steady /\ writer.token # token[q] => Above(q, seen)'
                      /\ \A w \in sent :
                            w.steady /\ w.token # token[q] => Above(q, w.fence)'
    BY <1>2 DEF OwnerAhead
  <2>1. CASE q = p /\ pc[p] = "setnx"
    BY <2>1, <1>2 DEF FencesDrawn, Answered, Above
  <2>2. CASE q = p /\ pc[p] = "incr"
    <3>1. Owns(q) /\ Answered(q)' /\ reply'[q] > seen /\ fence[q] = 0
      BY <2>2, <1>2, <1>3 DEF Owns, Holder, Working, Answered, GuardType, FencesDrawn
    <3>2. \A w \in sent : reply'[q] > w.fence
      BY <2>2, <1>2, <1>3 DEF GuardType
    <3> QED
      BY <3>1, <3>2, <1>2 DEF Above
  <2>3. CASE ~(q = p /\ pc[p] \in {"setnx", "incr"})
    <3>1. Owns(q)
      BY <2>3, <1>2 DEF Owns, Holder, Working
    <3>2. Answered(q)' => Answered(q) /\ reply'[q] = reply[q]
      BY <2>3, <1>2 DEF Answered
    <3> QED
      BY <3>1, <3>2, <1>2 DEF OwnerAhead, Above
  <2> QED
    BY <2>1, <2>2, <2>3
<1> QED
  BY <1>4, <1>6, <1>7, <1>8

\* A step that leaves the sessions alone, or expires more, keeps it.
LEMMA GuardIdle ==
    ASSUME GuardInv,
           UNCHANGED <<pc, token, ttl, reply, fence, steady, issued, seen, sent, writer,
                       overtaken>>,
           \A q \in Proc : expired[q] => expired'[q],
           fenceKey \in Nat, fenceKey' \in Nat, fenceKey' >= fenceKey
    PROVE  GuardInv'
<1> USE DEF GuardInv
<1>1. GuardType'
  BY DEF GuardType
<1>2. SessionsBeaten'
  BY DEF SessionsBeaten, Beaten, Safe, Answered
<1>3. OwnerAhead'
  BY DEF OwnerAhead, Owns, Above, Holder, Working, Answered
<1>4. WritesBeaten' /\ SentCurrent' /\ SteadyStaleWriteRejected'
  BY DEF WritesBeaten, SentCurrent, SteadyStaleWriteRejected
<1> QED
  BY <1>1, <1>2, <1>3, <1>4

\* Every step of the lock that leaves the guard alone keeps it.
LEMMA GuardLock ==
    ASSUME GuardInv, FenceInv, LockInv', [Next]_vars, UNCHANGED guardVars
    PROVE  GuardInv'
<1>1. CASE UNCHANGED vars
  BY <1>1, GuardIdle DEF guardVars, vars, server, session, command, history, FenceInv,
                         LockInv, TypeOK
<1>2. CASE Expire
  <2>1. /\ UNCHANGED <<fenceKey, pc, token, ttl, reply, fence, steady, issued, seen, sent,
                       writer, overtaken>>
        /\ \A q \in Proc : expired[q] => expired'[q]
    BY <1>2 DEF Expire, session, command, guardVars
  <2>2. fenceKey \in Nat
    BY DEF FenceInv, LockInv, TypeOK
  <2> QED
    BY <2>1, <2>2, GuardIdle
<1>3. ASSUME NEW m \in late, ServeLate(m) PROVE GuardInv'
  <2>1. /\ UNCHANGED <<pc, token, ttl, reply, fence, steady, expired, issued, seen, sent,
                       writer, overtaken>>
        /\ fenceKey' >= fenceKey /\ fenceKey' \in Nat /\ fenceKey \in Nat
    BY <1>3 DEF ServeLate, Execute, Incr, session, command, history, guardVars, FenceInv,
                LockInv, TypeOK
  <2> QED
    BY <2>1, GuardIdle
<1>4. ASSUME NEW p \in Proc, Obtain(p) PROVE GuardInv'
  <2>1. /\ UNCHANGED <<fenceKey, fence, steady, seen, sent, writer, overtaken>>
        /\ token'[p] = issued + 1 /\ issued' = issued + 1 /\ issued \in Nat
        /\ pc'[p] = "setnx" /\ reply'[p] = Waiting
        /\ \A q \in Proc \ {p} :
              /\ pc'[q] = pc[q] /\ reply'[q] = reply[q] /\ ttl'[q] = ttl[q]
              /\ token'[q] = token[q] /\ expired'[q] = expired[q]
    BY <1>4 DEF Obtain, GoTo, server, guardVars, FenceInv, LockInv, TypeOK
  <2>2. /\ token'[p] \notin overtaken
        /\ \A u \in sent : token'[p] # u.token /\ token'[p] \notin u.elders
    BY <2>1 DEF GuardInv, GuardType
  <2>3. GuardType' /\ SteadyStaleWriteRejected' /\ WritesBeaten'
    BY <2>1 DEF GuardInv, GuardType, SteadyStaleWriteRejected, WritesBeaten
  <2>4. SessionsBeaten'
    BY <2>1, <2>2 DEF GuardInv, SessionsBeaten, Beaten, Answered, Safe
  <2>5. SentCurrent'
    BY <2>1, <2>2 DEF GuardInv, SentCurrent
  <2>6. OwnerAhead'
    BY <2>1 DEF GuardInv, OwnerAhead, Owns, Above, Holder, Working, Answered
  <2> QED
    BY <2>3, <2>4, <2>5, <2>6 DEF GuardInv
<1>5. ASSUME NEW p \in Proc,
             ClientStep(p) \/ Release(p) \/ Refresh(p) \/ Refuse(p) \/ Crash(p)
      PROVE  GuardInv'
  <2>1. pc[p] # "idle"
    BY <1>5 DEF ClientStep, ObtainReturns, FenceReturns, CleanupReturns, ReleaseReturns,
                RefreshReturns, Retry, TimeOut, Release, Refresh, Refuse, Crash
  <2>2. LockInv /\ TypeOK
    BY DEF FenceInv, LockInv
  <2> QED
    BY <1>5, <2>1, <2>2, ClientMoves, FenceMoves, GuardClient
<1> QED
  BY <1>1, <1>2, <1>3, <1>4, <1>5, GuardServe DEF Next

\* The elders of a session at work have lost their locks and have smaller fences.
LEMMA EldersBeaten ==
    ASSUME FenceInv, NEW p \in Proc, pc[p] = "held", fence[p] > 0
    PROVE  /\ Elders(p) \subseteq 1..issued /\ token[p] \notin Elders(p)
           /\ \A q \in Proc : token[q] \in Elders(p) => Working(q)
           /\ \A q \in Proc : Beaten(q, Elders(p), fence[p])
<1> USE DEF FenceInv
<1>1. \A q \in older[p] :
         Working(q) => /\ q \in Proc /\ q # p /\ (expired[q] \/ ~Safe(q))
                       /\ token[q] # token[p] /\ token[q] \in 1..issued
  BY DEF OlderLost, LockInv, TypeOK, TokensDiffer, Working
<1>2. Elders(p) \subseteq 1..issued /\ token[p] \notin Elders(p)
  BY <1>1 DEF Elders
<1>3. ASSUME NEW q \in Proc, token[q] \in Elders(p)
      PROVE  q \in older[p] /\ Working(q)
  <2>1. PICK u \in older[p] : Working(u) /\ token[u] = token[q]
    BY <1>3 DEF Elders
  <2>2. u = q
    BY <2>1, <1>1 DEF LockInv, TokensDiffer
  <2> QED
    BY <2>1, <2>2
<1>4. ASSUME NEW q \in Proc PROVE Beaten(q, Elders(p), fence[p])
  <2> SUFFICES ASSUME token[q] \in Elders(p)
               PROVE  /\ pc[q] # "setnx" /\ (expired[q] \/ ~Safe(q))
                      /\ steady[q] =>
                            fence[q] <= fence[p] /\ (Answered(q) => reply[q] <= fence[p])
    BY DEF Beaten
  <2>1. q \in older[p] /\ Working(q) /\ (expired[q] \/ ~Safe(q))
    BY <1>1, <1>3
  <2>2. steady[q] => Below(q, fence[p])
    BY <2>1 DEF OlderFirst
  <2>3. fence[q] \in Nat /\ reply[q] \in Int /\ fence[p] \in Nat
    BY DEF LockInv, TypeOK
  <2> QED
    BY <2>1, <2>2, <2>3 DEF Below, Working
<1> QED
  BY <1>2, <1>3, <1>4

\* A write that is sent keeps it: its elders are beaten, and whoever owns the lock
\* came after its session.
LEMMA GuardSend ==
    ASSUME GuardInv, FenceInv, NEW p \in Proc, Send(p)
    PROVE  GuardInv'
<1> USE DEF GuardInv, FenceInv
<1> DEFINE new == [token |-> token[p], fence |-> fence[p], steady |-> steady[p],
                   elders |-> Elders(p)]
<1>1. /\ UNCHANGED <<fenceKey, pc, token, ttl, reply, fence, steady, expired, issued, seen,
                     writer, overtaken>>
      /\ pc[p] = "held" /\ fence[p] > 0 /\ sent' = sent \cup {new}
  BY DEF Send, vars, server, session, command, history
<1>2. /\ Elders(p) \subseteq 1..issued /\ token[p] \notin Elders(p)
      /\ \A q \in Proc : token[q] \in Elders(p) => Working(q)
      /\ \A q \in Proc : Beaten(q, Elders(p), fence[p])
  BY <1>1, EldersBeaten
<1>3. /\ token[p] \in 1..issued /\ fence[p] \in 1..fenceKey /\ steady[p] \in BOOLEAN
      /\ fenceKey \in Nat /\ issued \in Nat
  BY <1>1 DEF FencesDrawn, LockInv, TypeOK
<1>4. /\ new.token = token[p] /\ new.fence = fence[p] /\ new.steady = steady[p]
      /\ new.elders = Elders(p)
  OBVIOUS
<1> HIDE DEF new
<1>5. GuardType'
  BY <1>1, <1>2, <1>3, <1>4 DEF GuardType
<1>6. SessionsBeaten'
  <2>1. \A q \in Proc : \A T, n : Beaten(q, T, n) => Beaten(q, T, n)'
    BY <1>1 DEF Beaten, Safe, Answered
  <2> QED
    BY <2>1, <1>1, <1>2, <1>4 DEF SessionsBeaten
<1>7. SentCurrent'
  <2>1. ASSUME NEW q \in Proc, token[p] = token[q] PROVE q = p
    BY <2>1, <1>1 DEF LockInv, TokensDiffer, TypeOK
  <2> QED
    BY <2>1, <1>1, <1>4 DEF SentCurrent
<1>8. WritesBeaten'
  <2>1. ASSUME NEW w \in sent, w.steady, w.token \in Elders(p) PROVE w.fence <= fence[p]
    <3>1. PICK q \in Proc : token[q] = w.token
      BY <2>1, <1>1 DEF Elders, LockInv, TypeOK
    <3>2. pc[q] # "idle"
      BY <3>1, <2>1, <1>2 DEF Working
    <3>3. fence[q] = w.fence /\ steady[q] = w.steady
      BY <3>1, <3>2 DEF SentCurrent
    <3> QED
      BY <3>1, <3>3, <2>1, <1>2 DEF Beaten
  <2>2. steady[p] =>
          /\ token[p] \in overtaken => fence[p] <= seen
          /\ \A u \in sent : token[p] \in u.elders => fence[p] <= u.fence
    BY DEF SessionsBeaten, Beaten
  <2> QED
    BY <2>1, <2>2, <1>1, <1>2, <1>4 DEF WritesBeaten
<1>9. OwnerAhead'
  <2> SUFFICES ASSUME NEW q \in Proc, Owns(q), steady[p], token[p] # token[q]
               PROVE  Above(q, fence[p])
    BY <1>1, <1>4 DEF OwnerAhead, Owns, Above, Holder, Working, Answered
  <2>1. p \in older[q]
    BY <1>1 DEF Ordered, OlderLost, Owns, Holder, Working, Safe
  <2> QED
    BY <2>1, <1>3 DEF OlderFirst, Below, Above, LockInv, TypeOK
<1>10. SteadyStaleWriteRejected'
  BY <1>1 DEF SteadyStaleWriteRejected
<1> QED
  BY <1>5, <1>6, <1>7, <1>8, <1>9, <1>10

\* A write that the guard accepts keeps it, whenever it is executed: the sessions it
\* overtakes are beaten by its fence.
LEMMA GuardWrite ==
    ASSUME GuardInv, FenceInv, NEW w \in sent, Write(w)
    PROVE  GuardInv'
<1> USE DEF GuardInv, FenceInv
<1>1. /\ UNCHANGED <<fenceKey, pc, token, ttl, reply, fence, steady, expired, issued, sent>>
      /\ w.fence > seen /\ seen' = w.fence
      /\ writer' = [token |-> w.token, steady |-> w.steady]
      /\ overtaken' = overtaken \cup w.elders
  BY DEF Write, vars, server, session, command, history
<1>2. /\ seen \in Nat /\ fenceKey \in Nat /\ issued \in Nat
      /\ \A u \in sent : u.fence \in Nat
      /\ \A q \in Proc : fence[q] \in Nat /\ reply[q] \in Int
  BY DEF GuardType, LockInv, TypeOK
<1>3. writer'.token = w.token /\ writer'.steady = w.steady
  BY <1>1
<1>4. GuardType'
  <2>1. overtaken' \subseteq 1..issued
    <3>1. overtaken \subseteq 1..issued /\ w.elders \subseteq 1..issued
      BY DEF GuardType
    <3> QED
      BY <3>1, <1>1
  <2>2. seen' \in 0..fenceKey
    <3>1. w.fence \in 1..fenceKey
      BY DEF GuardType
    <3> QED
      BY <3>1, <1>1, <1>2
  <2>3. writer' \in [token : 0..issued, steady : BOOLEAN]
    <3>1. w.token \in 0..issued /\ w.steady \in BOOLEAN
      BY <1>2 DEF GuardType
    <3> QED
      BY <3>1, <1>1
  <2> QED
    BY <2>1, <2>2, <2>3, <1>1 DEF GuardType
<1>5. SessionsBeaten'
  <2> SUFFICES ASSUME NEW q \in Proc PROVE Beaten(q, overtaken', w.fence)
    BY <1>1 DEF SessionsBeaten, Beaten, Safe, Answered
  <2>1. Beaten(q, overtaken, seen) /\ Beaten(q, w.elders, w.fence)
    BY DEF SessionsBeaten
  <2> QED
    BY <2>1, <1>1, <1>2 DEF Beaten
<1>6. WritesBeaten'
  BY <1>1, <1>2 DEF WritesBeaten
<1>7. SentCurrent'
  BY <1>1 DEF SentCurrent
<1>8. OwnerAhead'
  BY <1>1, <1>3 DEF OwnerAhead, Owns, Above, Holder, Working, Answered
<1>9. SteadyStaleWriteRejected'
  <2> SUFFICES ASSUME w.steady PROVE w.token \notin overtaken'
    BY <1>3 DEF SteadyStaleWriteRejected
  <2>1. w.token \notin overtaken
    BY <1>1, <1>2 DEF WritesBeaten
  <2> QED
    BY <2>1, <1>1 DEF GuardType
<1> QED
  BY <1>4, <1>5, <1>6, <1>7, <1>8, <1>9

\* The guard's invariant holds in every behaviour.
THEOREM GuardInvariant == FencedSpec => []GuardInv
<1>1. FencedInit /\ LockInv => GuardInv
  BY DEF FencedInit, Init, GuardInv, GuardType, SessionsBeaten, Beaten, WritesBeaten,
         SentCurrent, OwnerAhead, Owns, SteadyStaleWriteRejected, NoWriter, Holder, Working,
         LockInv, TypeOK
<1>2. GuardInv /\ FenceInv /\ LockInv' /\ [FencedNext]_fencedVars => GuardInv'
  <2> SUFFICES ASSUME GuardInv, FenceInv, LockInv', [FencedNext]_fencedVars PROVE GuardInv'
    OBVIOUS
  <2>1. \/ [Next]_vars /\ UNCHANGED guardVars
        \/ \E p \in Proc : Send(p)
        \/ \E w \in sent : Write(w)
    BY DEF FencedNext, fencedVars
  <2> QED
    BY <2>1, GuardLock, GuardSend, GuardWrite
<1> QED
  BY <1>1, <1>2, FencedIsLocker, LockInvariant, FenceInvariant, PTL DEF FencedSpec

\* A session that drew its fence in time never writes after a younger one did,
\* whatever the ttls, the stalls, the retries and the late attempts, and however late
\* the writes themselves are executed.
THEOREM StaleWriteHolds == FencedSpec => []SteadyStaleWriteRejected
<1>1. GuardInv => SteadyStaleWriteRejected
  BY DEF GuardInv
<1> QED
  BY <1>1, GuardInvariant, PTL

\* And the guard never turns the owner of the lock away, but after a write of its own or
\* of a session whose fence came too late.
THEOREM OwnerAcceptedHolds == FencedSpec => []OwnerAccepted
<1>1. GuardInv => OwnerAccepted
  BY DEF GuardInv, OwnerAhead, Owns, Above, OwnerAccepted, Holder, Working
<1> QED
  BY <1>1, GuardInvariant, PTL

=============================================================================
