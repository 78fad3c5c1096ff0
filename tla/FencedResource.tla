--------------------------- MODULE FencedResource ---------------------------
(***************************************************************************)
(* A resource guarded by fencing tokens, written by the processes of       *)
(* Locker under the lock they hold: the downstream that ObtainWithFence    *)
(* (rediskit/lock.go 60-62) is made for, with the guard of                 *)
(* labs/01-string-counter (fenceGuardScript): it remembers the largest     *)
(* fence it has seen and accepts only a larger one.                        *)
(***************************************************************************)
EXTENDS Locker

VARIABLES
    seen,        \* the guard key "resource:...:max"
    sent,        \* writes sent to the resource: their session, and what it knew then
    writer,      \* history: the session whose write was accepted last
    overtaken    \* history: sessions older than one, at work when it sent a write since accepted

guardVars == <<seen, sent, writer, overtaken>>
fencedVars == <<vars, guardVars>>

NoWriter == [token |-> NoToken, steady |-> TRUE]

FencedInit ==
    /\ Init
    /\ seen = 0 /\ sent = {} /\ writer = NoWriter /\ overtaken = {}

\* The sessions at work that had set the lock before p's did.
Elders(p) == {token[q] : q \in {r \in older[p] : Working(r)}}

\* p, which may have stalled past its TTL, sends a write with its fence.
Send(p) ==
    /\ pc[p] = "held" /\ fence[p] > 0
    /\ sent' = sent \cup {[token |-> token[p], fence |-> fence[p], steady |-> steady[p],
                            elders |-> Elders(p)]}
    /\ UNCHANGED <<vars, seen, writer, overtaken>>

\* A guard that only keeps the largest fence and lets every write through.
Write_NoCompare(w) ==
    /\ w \in sent
    /\ seen' = w.fence
    /\ writer' = [token |-> w.token, steady |-> w.steady]
    /\ overtaken' = overtaken \cup w.elders
    /\ UNCHANGED <<vars, sent>>

\* The guard's script accepts a write: at once, or long after its session ended, and
\* any number of times (it is retried).  A write it rejects changes nothing.
Write(w) ==
    /\ w \in sent /\ w.fence > seen
    /\ seen' = w.fence
    /\ writer' = [token |-> w.token, steady |-> w.steady]
    /\ overtaken' = overtaken \cup w.elders
    /\ UNCHANGED <<vars, sent>>

FencedNext ==
    \/ Next /\ UNCHANGED guardVars
    \/ \E p \in Proc : Send(p)
    \/ \E w \in sent : Write(w)

FencedSpec == FencedInit /\ [][FencedNext]_fencedVars

-----------------------------------------------------------------------------
\* "A's lock expired, B has the new lock, A's late write" is rejected once B has
\* written (lock.go 60-62), whenever A and B obtained their fences.
StaleWriteRejected == writer.token \notin overtaken

\* The same for every A whose lock had not expired yet when its INCR was executed.
SteadyStaleWriteRejected == writer.steady => writer.token \notin overtaken

\* The guard rejects the write of the process that owns the lock only after it
\* wrote before, or after a write of a session whose fence came too late.  (A ttl
\* below a millisecond makes Refresh give the lock away: no owner is left.)
OwnerAccepted ==
    \A p \in Proc :
        /\ pc[p] = "held" /\ fence[p] > 0 /\ ttl[p] = "whole" /\ ~expired[p]
        /\ writer.steady /\ writer.token # token[p]
        => fence[p] > seen

=============================================================================
