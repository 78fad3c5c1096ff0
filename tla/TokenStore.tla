----------------------------- MODULE TokenStore -----------------------------
(***************************************************************************)
(* rediskit/tokenstore.go for one key (one session): Save, Rotate and      *)
(* Revoke, called by any number of callers at once, over the same at least *)
(* once delivery as in Locker.  Load changes nothing and is not an action: *)
(* what it would find at any moment is the variable value.                 *)
(***************************************************************************)
EXTENDS Integers, FiniteSets

CONSTANTS
    Proc,        \* callers
    TTLs,        \* the kinds of ttl callers pass
    MaxTokens,   \* bound: tokens drawn
    MaxLate,     \* bound: abandoned attempts on their way at a time
    MaxRetries   \* options.maxRetries

\* Callers draw a fresh token for every Save and Rotate.
Tokens == 1..MaxTokens
None == 0

\* "whole": at least a millisecond; "submilli": positive, below one; "none": <= 0.
ASSUME TokenAssumption ==
    /\ MaxTokens \in Nat /\ MaxLate \in Nat /\ MaxRetries \in Nat
    /\ TTLs \subseteq {"whole", "submilli", "none"}

VARIABLES
    value,       \* value of "token:"+key, or None
    px,          \* whether the key carries a TTL
    late,        \* attempts the client gave up on and the server may still execute
    pc,          \* per caller: "idle", "sent", "answered"
    req,         \* the request of the call
    tries,       \* retries of the call
    reply,       \* the answer under way
    outcome,     \* what the last call returned
    \* history
    issued,      \* tokens drawn so far
    handed,      \* tokens whose Save or Rotate returned nil
    stored,      \* tokens that have been the value
    spent,       \* per token: the Rotates of it that returned nil
    rewritten,   \* tokens stored again after they had been handed out
    over         \* a Revoke was executed and no Save called since, nor under way then

written == <<stored, rewritten>>
server == <<value, px, written>>
call == <<pc, req, tries, reply, outcome>>
history == <<issued, handed, spent>>
vars == <<server, late, call, history, over>>

Ops == {"save", "rotate", "revoke"}
Requests == [op : Ops, old : 0..MaxTokens, new : 0..MaxTokens,
             ttl : TTLs \cup {"unused"}]
Deletion == [op |-> "revoke", old |-> None, new |-> None, ttl |-> "unused"]
Outcomes == {"none", "ok", "denied", "error"}
Failure == -1    \* an error reply

Init ==
    /\ value = None /\ px = FALSE /\ stored = {} /\ rewritten = {}
    /\ late = {}
    /\ pc = [p \in Proc |-> "idle"] /\ req = [p \in Proc |-> Deletion]
    /\ tries = [p \in Proc |-> 0] /\ reply = [p \in Proc |-> 0]
    /\ outcome = [p \in Proc |-> "none"]
    /\ issued = 0 /\ handed = {} /\ spent = [t \in Tokens |-> 0]
    /\ over = FALSE

-----------------------------------------------------------------------------
(* The server.  X_Y is a faulty variant of X that no action uses.              *)

Put(t, ends) ==
    /\ value' = t /\ px' = ends
    /\ stored' = stored \cup {t}
    /\ rewritten' = rewritten \cup ({t} \cap handed)

\* SET key token with its ttl: go-redis rounds one below a millisecond up, and
\* sends none for a ttl that is not positive.
SetToken(m, r) == r = 1 /\ Put(m.new, m.ttl # "none")

\* The new token is written before the old one is compared (SET ... GET).
RotateScript_SetsFirst(m, r) ==
    /\ Put(m.new, TRUE)
    /\ r = IF value = m.old THEN 1 ELSE 0

\* The new token is written if the key exists (SET ... XX).
RotateScript_NoCompare(m, r) ==
    \/ value # None /\ r = 1 /\ Put(m.new, TRUE)
    \/ value = None /\ r = 0 /\ UNCHANGED server

\* tokenRotateScript.  SET refuses PX 0, which is what a ttl below a millisecond
\* becomes.
RotateScript(m, r) ==
    \/ value = m.old /\ m.ttl = "whole" /\ r = 1 /\ Put(m.new, TRUE)
    \/ value = m.old /\ m.ttl # "whole" /\ r = Failure /\ UNCHANGED server
    \/ value # m.old /\ r = 0 /\ UNCHANGED server

\* DEL, whether the key exists or not.
DelToken(r) ==
    /\ r = 1
    /\ value' = None /\ px' = FALSE
    /\ UNCHANGED written

\* No Save is on its way for a caller that waits.
NoSave == \A p \in Proc : pc[p] # "idle" => req[p].op # "save"

\* A Revoke that is executed while no Save is under way ends the session.
Ends(m) == over \/ (m.op = "revoke" /\ NoSave)

Execute(m, r) ==
    \/ m.op = "save" /\ SetToken(m, r)
    \/ m.op = "rotate" /\ RotateScript(m, r)
    \/ m.op = "revoke" /\ DelToken(r)

Serve(p) ==
    /\ pc[p] = "sent"
    /\ \E r \in {Failure, 0, 1} : Execute(req[p], r) /\ reply' = [reply EXCEPT ![p] = r]
    /\ over' = Ends(req[p])
    /\ pc' = [pc EXCEPT ![p] = "answered"]
    /\ UNCHANGED <<late, req, tries, outcome, history>>

\* An abandoned Save that is executed late opens the session again.
ServeLate(m) ==
    /\ m \in late
    /\ \E r \in {Failure, 0, 1} : Execute(m, r)
    /\ over' = (Ends(m) /\ m.op # "save")
    /\ late' = late \ {m}
    /\ UNCHANGED <<call, history>>

Expire ==
    /\ value # None /\ px
    /\ value' = None /\ px' = FALSE
    /\ UNCHANGED <<written, late, call, history, over>>

-----------------------------------------------------------------------------
(* The callers. *)

Send(p, m) ==
    /\ pc[p] = "idle"
    /\ pc' = [pc EXCEPT ![p] = "sent"]
    /\ req' = [req EXCEPT ![p] = m]
    /\ tries' = [tries EXCEPT ![p] = 0]
    /\ outcome' = [outcome EXCEPT ![p] = "none"]
    /\ UNCHANGED <<server, late, reply, handed, spent>>

\* The check of the ttl is forgotten.
Accepted_Any(k) == TRUE

\* ttl <= 0 is refused before anything is sent.
Accepted(k) == k # "none"

Save(p) ==
    /\ issued < MaxTokens
    /\ issued' = issued + 1
    /\ \E k \in TTLs :
          /\ Accepted(k)
          /\ Send(p, [op |-> "save", old |-> None, new |-> issued', ttl |-> k])
    /\ over' = FALSE

\* A caller presents a token it was given, perhaps one it presented before.
Rotate(p) ==
    /\ issued < MaxTokens
    /\ issued' = issued + 1
    /\ \E k \in TTLs, t \in handed :
          /\ Accepted(k)
          /\ Send(p, [op |-> "rotate", old |-> t, new |-> issued', ttl |-> k])
    /\ UNCHANGED over

Revoke(p) ==
    /\ Send(p, Deletion)
    /\ UNCHANGED <<issued, over>>

\* The call of p returns.
Return(p) ==
    /\ pc[p] = "answered"
    /\ pc' = [pc EXCEPT ![p] = "idle"]
    /\ outcome' = [outcome EXCEPT ![p] =
                     IF reply[p] = Failure THEN "error"
                     ELSE IF reply[p] = 0 THEN "denied" ELSE "ok"]
    /\ IF reply[p] = 1 /\ req[p].op # "revoke"
       THEN handed' = handed \cup {req[p].new} ELSE UNCHANGED handed
    /\ spent' = IF reply[p] = 1 /\ req[p].op = "rotate"
                THEN [spent EXCEPT ![req[p].old] = @ + 1] ELSE spent
    /\ UNCHANGED <<server, late, req, tries, reply, issued, over>>

\* The connection fails: an attempt that was not executed may still be.
Abandon(p) ==
    \/ UNCHANGED late
    \/ /\ pc[p] = "sent" /\ Cardinality(late) < MaxLate
       /\ late' = late \cup {req[p]}

\* One retry too many.
Retry_OneMore(p) ==
    /\ pc[p] # "idle" /\ tries[p] <= MaxRetries
    /\ Abandon(p)
    /\ pc' = [pc EXCEPT ![p] = "sent"]
    /\ tries' = [tries EXCEPT ![p] = @ + 1]
    /\ UNCHANGED <<server, req, reply, outcome, history, over>>

\* The answer of the executed attempt, or the attempt, is lost: go-redis sends again.
Retry(p) ==
    /\ pc[p] # "idle" /\ tries[p] < MaxRetries
    /\ Abandon(p)
    /\ pc' = [pc EXCEPT ![p] = "sent"]
    /\ tries' = [tries EXCEPT ![p] = @ + 1]
    /\ UNCHANGED <<server, req, reply, outcome, history, over>>

\* The call returns an error: refused by the server, cancelled, or out of retries.
Fail(p) ==
    /\ pc[p] # "idle"
    /\ Abandon(p)
    /\ pc' = [pc EXCEPT ![p] = "idle"]
    /\ outcome' = [outcome EXCEPT ![p] = "error"]
    /\ UNCHANGED <<server, req, tries, reply, history, over>>

Next ==
    \/ Expire
    \/ \E m \in late : ServeLate(m)
    \/ \E p \in Proc :
          \/ Save(p) \/ Rotate(p) \/ Revoke(p)
          \/ Serve(p) \/ Return(p) \/ Retry(p) \/ Fail(p)

Spec == Init /\ [][Next]_vars

-----------------------------------------------------------------------------
(* Properties. *)

\* The types of the store, the calls and the history.
TypeOK ==
    /\ value \in Tokens \cup {None} /\ px \in BOOLEAN
    /\ late \subseteq Requests
    /\ pc \in [Proc -> {"idle", "sent", "answered"}]
    /\ req \in [Proc -> Requests]
    /\ tries \in [Proc -> 0..MaxRetries] /\ reply \in [Proc -> {Failure, 0, 1}]
    /\ outcome \in [Proc -> Outcomes]
    /\ issued \in 0..MaxTokens /\ handed \subseteq Tokens
    /\ stored \subseteq Tokens /\ rewritten \subseteq Tokens
    /\ spent \in [Tokens -> Nat] /\ over \in BOOLEAN

\* No credential without an end (tokenstore.go 20-21).
AlwaysExpires == value # None => px

\* Of all the Rotates of one token, concurrent ones and replays included, at most
\* one returns nil (script.go 76-79), unless the token was stored again after its
\* caller had been given it, which only an abandoned attempt executed late does.
RotateOnce == \A t \in Tokens \ rewritten : spent[t] <= 1

\* After a Revoke nothing is found until a Save is called or executed late: no
\* Rotate, late or sent again, brings the session back (tokenstore.go 61-62).
RevokeSticks == over => value = None

\* ErrTokenNotFound means that this Rotate did not rotate: the token had expired or
\* was rotated by another call (tokenstore.go 41-43).
DeniedRotatedNothing ==
    \A p \in Proc : outcome[p] = "denied" => req[p].new \notin stored

=============================================================================
