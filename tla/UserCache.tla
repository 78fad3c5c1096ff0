----------------------------- MODULE UserCache -----------------------------
(***************************************************************************)
(* Lab 06: GetUserGuarded for one id.  A Bloom filter in a bitmap answers  *)
(* "never added" first; GetUser then reads the cache, which may hold a     *)
(* sentinel that says the database has no such user, and loads and stores  *)
(* on a miss.  Meanwhile the user is created and added to the filter.      *)
(***************************************************************************)
EXTENDS Naturals

CONSTANTS Asker,        \* calls of GetUserGuarded
          Position      \* the bits the k hashes of the id select (positions)

VARIABLES exists,    \* the database has the user
          added,     \* Add returned, after the user was created
          bits,      \* which of the id's bits are set in the bitmap
          cached,    \* the key user:id: "nothing", "null" (the sentinel) or "user"
          asks,      \* where each call is; "found" and "absent" are its answers
          late,      \* values of SETs that Redis may execute after their caller
          settled    \* calls that began when nothing spoke against the user any more
userVars == <<exists, added, bits, cached, asks, late, settled>>

UserInit ==
    /\ exists = FALSE /\ added = FALSE /\ bits = {} /\ cached = "nothing"
    /\ asks = [c \in Asker |-> "idle"] /\ late = {} /\ settled = {}

Moves(c, pc) == asks' = [asks EXCEPT ![c] = pc]

\* Outside the source: somebody creates the user, then calls Add.
Create == ~exists /\ exists' = TRUE /\ UNCHANGED <<added, bits, cached, asks, late, settled>>

\* Add: one SETBIT per position in a pipeline, which is not a transaction.  Other ids
\* set the same bits: their Add is the same step.
SetBit(p) ==
    bits' = bits \cup {p} /\ UNCHANGED <<exists, added, cached, asks, late, settled>>
AddReturns ==
    /\ exists /\ Position \subseteq bits /\ added' = TRUE
    /\ UNCHANGED <<exists, bits, cached, asks, late, settled>>

\* A call begins: MightContain.  A bit that is 0 answers ErrNotFound at once.  The bits
\* are read one by one, and as none is ever cleared the last read decides for all.
Ask(c) ==
    /\ asks[c] \in {"idle", "found", "absent"}
    /\ Moves(c, IF Position \subseteq bits THEN "get" ELSE "absent")
    /\ settled' = IF added /\ cached # "null" /\ "null" \notin late
                           /\ \A d \in Asker : asks[d] # "putnull"
                  THEN settled \cup {c} ELSE settled \ {c}
    /\ UNCHANGED <<exists, added, bits, cached, late>>

\* GET user:id; an error other than redis.Nil ends the call.
LookUp(c) ==
    /\ asks[c] = "get"
    /\ \/ Moves(c, CASE cached = "null" -> "absent" [] cached = "user" -> "found"
                     [] OTHER -> "load")
       \/ Moves(c, "idle")
    /\ UNCHANGED <<exists, added, bits, cached, late, settled>>

LoadUser_ErrorIsAbsence(c) ==
    /\ asks[c] = "load"
    /\ Moves(c, IF exists THEN "putuser" ELSE "putnull") \/ Moves(c, "putnull")
    /\ UNCHANGED <<exists, added, bits, cached, late, settled>>

\* The database answers; an error other than ErrNotFound ends the call.
LoadUser(c) ==
    /\ asks[c] = "load"
    /\ Moves(c, IF exists THEN "putuser" ELSE "putnull") \/ Moves(c, "idle")
    /\ UNCHANGED <<exists, added, bits, cached, late, settled>>

\* SET, of the sentinel for 60 s or the user for 10 min.  Its error is dropped, and the
\* command may be executed later.
Put(c, value, answer) ==
    /\ Moves(c, answer)
    /\ \/ cached' = value /\ UNCHANGED late
       \/ UNCHANGED cached /\ late' \in {late, late \cup {value}}
    /\ UNCHANGED <<exists, added, bits, settled>>
PutNull(c) == asks[c] = "putnull" /\ Put(c, "null", "absent")
PutUser(c) == asks[c] = "putuser" /\ Put(c, "user", "found")
LatePut ==
    /\ \E v \in late : cached' = v /\ late' = late \ {v}
    /\ UNCHANGED <<exists, added, bits, asks, settled>>

\* The TTLs of the cached values; the bitmap has none.
ValueExpires ==
    cached' = "nothing" /\ UNCHANGED <<exists, added, bits, asks, late, settled>>

UserNext ==
    \/ Create \/ AddReturns \/ LatePut \/ ValueExpires \/ \E p \in Position : SetBit(p)
    \/ \E c \in Asker : Ask(c) \/ LookUp(c) \/ LoadUser(c) \/ PutNull(c) \/ PutUser(c)

UserSpec == UserInit /\ [][UserNext]_userVars

UserTypeOK ==
    /\ exists \in BOOLEAN /\ added \in BOOLEAN /\ bits \subseteq Position
    /\ cached \in {"nothing", "null", "user"} /\ late \subseteq {"null", "user"}
    /\ asks \in [Asker -> {"idle", "get", "load", "putnull", "putuser", "found", "absent"}]
    /\ settled \subseteq Asker

\* No false negative: once the user is created and added, a sentinel that was stored,
\* is on its way or was loaded before can still answer ErrNotFound; a call that began
\* when there was none never does.
NoFalseAbsence == \A c \in settled : asks[c] # "absent"

=============================================================================
