----------------------------- MODULE LockerLease -----------------------------
(***************************************************************************)
(* Locker implements Lease: the lock key is the owner, the processes that  *)
(* believe they hold a Lock are the sessions at work.                      *)
(***************************************************************************)
EXTENDS Locker

L == INSTANCE Lease WITH
    Token <- Tokens,
    None <- NoToken,
    owner <- lockKey,
    working <- {token[p] : p \in {q \in Proc : Working(q)}},
    lapsed <- {token[p] : p \in {q \in Proc : pc[q] # "idle" /\ expired[q]}}

\* Obtain, Release, Refresh, their retries, their late executions and the expiry
\* of the key do nothing but grant, enter, leave, free and lapse a lease
\* (the promise of lock.go 16-23).
ImplementsLease == L!LeaseSpec

=============================================================================
