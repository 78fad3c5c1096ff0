------------------------------- MODULE HotKey -------------------------------
(***************************************************************************)
(* Lab 06: rebuildHotKey.  The processes that miss a hot key compete for a *)
(* rebuild lock (SET NX, 5 s, released by token); the one that gets it     *)
(* looks again, loads and stores; the others wait 50 ms, look once more    *)
(* and then load without the lock and without storing.                     *)
(***************************************************************************)
EXTENDS Naturals

CONSTANTS Reader, MaxUpsets    \* bound on what counts as an upset, below

ASSUME UpsetsAssumption == MaxUpsets \in Nat
ASSUME LockTokens == {"free", "orphan"} \cap Reader = {}

VARIABLES hot,       \* the hot key exists
          rebuild,   \* whose token the rebuild lock holds, "free", or "orphan"
          at,        \* where each reader is
          loads,     \* loads under the lock that succeeded since the hot key expired
          upsets     \* locks that expired, commands that failed, lost answers
hotVars == <<hot, rebuild, at, loads, upsets>>

HotInit ==
    /\ hot = FALSE /\ rebuild = "free" /\ at = [r \in Reader |-> "get"]
    /\ loads = 0 /\ upsets = 0

To(r, pc) == at' = [at EXCEPT ![r] = pc]
Upset == upsets < MaxUpsets /\ upsets' = upsets + 1

\* GET: a hit is answered (and the reader comes back for its next call).
FirstLook(r) ==
    at[r] = "get" /\ ~hot /\ To(r, "setnx") /\ UNCHANGED <<hot, rebuild, loads, upsets>>

\* SETNX.  A lost answer leaves the lock with a token that nobody releases; an error
\* ends the call.
TryLock(r) ==
    /\ at[r] = "setnx"
    /\ \/ rebuild = "free" /\ rebuild' = r /\ To(r, "recheck") /\ UNCHANGED upsets
       \/ rebuild = "free" /\ rebuild' = "orphan" /\ To(r, "backoff") /\ Upset
       \/ rebuild # "free" /\ To(r, "backoff") /\ UNCHANGED <<rebuild, upsets>>
       \/ To(r, "get") /\ UNCHANGED <<rebuild, upsets>>
    /\ UNCHANGED <<hot, loads>>

\* After the backoff: GET, and when it misses or fails, a load of its own.
SecondLook(r) ==
    at[r] = "backoff" /\ To(r, "get") /\ UNCHANGED <<hot, rebuild, loads, upsets>>

Recheck_Skipped(r) ==
    /\ at[r] = "recheck" /\ To(r, "load") /\ UNCHANGED <<hot, rebuild, loads, upsets>>

\* The double check.  An error counts as a miss.
Recheck(r) ==
    /\ at[r] = "recheck"
    /\ \/ hot /\ To(r, "unlock") /\ UNCHANGED upsets
       \/ ~hot /\ To(r, "load") /\ UNCHANGED upsets
       \/ hot /\ To(r, "load") /\ Upset
    /\ UNCHANGED <<hot, rebuild, loads>>

\* The load of the lock's holder; an error ends the call.
Load(r) ==
    /\ at[r] = "load"
    /\ \/ To(r, "store") /\ loads' = loads + 1
       \/ To(r, "unlock") /\ UNCHANGED loads
    /\ UNCHANGED <<hot, rebuild, upsets>>

\* The SET; its error is dropped.
Store(r) ==
    /\ at[r] = "store" /\ To(r, "unlock")
    /\ \/ hot' = TRUE /\ UNCHANGED upsets
       \/ UNCHANGED hot /\ Upset
    /\ UNCHANGED <<rebuild, loads>>

\* The deferred release, by token; its error is dropped.
Unlock(r) ==
    /\ at[r] = "unlock" /\ To(r, "get")
    /\ rebuild' \in {rebuild} \cup (IF rebuild = r THEN {"free"} ELSE {})
    /\ UNCHANGED <<hot, loads, upsets>>

\* The TTLs.  That of the lock upsets only a holder that is still at it.
HotExpires == hot /\ hot' = FALSE /\ loads' = 0 /\ UNCHANGED <<rebuild, at, upsets>>
LockExpires ==
    /\ rebuild # "free" /\ rebuild' = "free"
    /\ IF rebuild # "orphan" /\ at[rebuild] \in {"recheck", "load", "store"}
       THEN Upset ELSE UNCHANGED upsets
    /\ UNCHANGED <<hot, at, loads>>

HotNext ==
    \/ HotExpires \/ LockExpires
    \/ \E r \in Reader : \/ FirstLook(r) \/ TryLock(r) \/ SecondLook(r) \/ Recheck(r)
                         \/ Load(r) \/ Store(r) \/ Unlock(r)

HotSpec == HotInit /\ [][HotNext]_hotVars

HotTypeOK ==
    /\ hot \in BOOLEAN /\ rebuild \in Reader \cup {"free", "orphan"} /\ loads \in Nat
    /\ at \in [Reader -> {"get", "setnx", "backoff", "recheck", "load", "store", "unlock"}]
    /\ upsets \in 0..MaxUpsets

\* Of all who miss, one loads under the lock until the value expires again (main.go
\* 178), and one more for each lock that expired under its holder and each SET or
\* second look that failed.
OneRebuild == loads <= 1 + upsets

=============================================================================
