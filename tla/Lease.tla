-------------------------------- MODULE Lease --------------------------------
(***************************************************************************)
(* What a TTL lock promises, free of Redis, commands and retries.  The     *)
(* lock has at most one owner; a session that works without owning the     *)
(* lock is one whose lease lapsed under it.                                *)
(***************************************************************************)
CONSTANTS Token, None

VARIABLES
    owner,     \* the token that has the lock, or None
    working,   \* sessions at work under the lock
    lapsed     \* sessions whose lease ran out

leaseVars == <<owner, working, lapsed>>

LeaseInit == owner = None /\ working = {} /\ lapsed = {}

\* A free lock is given to one session.
Grant(t) ==
    /\ owner = None
    /\ owner' = t
    /\ lapsed' \in {lapsed, lapsed \ {t}}
    /\ UNCHANGED working

\* A session learns that it got the lock, in time or too late.
Enter(t) ==
    /\ owner = t \/ t \in lapsed
    /\ working' = working \cup {t}
    /\ UNCHANGED <<owner, lapsed>>

\* A session stops working under the lock.
Leave(t) ==
    /\ working' = working \ {t}
    /\ lapsed' \in {lapsed, lapsed \ {t}}
    /\ UNCHANGED owner

\* The lock of a session that does not work any more is freed.
Free ==
    /\ owner # None /\ owner \notin working
    /\ owner' = None
    /\ UNCHANGED <<working, lapsed>>

\* The lease runs out, under a working session too.
Lapse ==
    /\ owner # None
    /\ owner' = None
    /\ lapsed' = lapsed \cup {owner}
    /\ UNCHANGED working

LeaseNext == Free \/ Lapse \/ \E t \in Token : Grant(t) \/ Enter(t) \/ Leave(t)

LeaseSpec == LeaseInit /\ [][LeaseNext]_leaseVars

\* Sessions at work own the lock or have outlived their lease.
OneWorker == working \ lapsed \subseteq {owner}

=============================================================================
