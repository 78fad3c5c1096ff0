-------------------------- MODULE TokenStoreProofs --------------------------
(* Proofs about TokenStore, for every set of callers and every bound. *)
EXTENDS TokenStore, FiniteSetTheorems, TLAPS

Active(p) == pc[p] # "idle"
Writes(p) == Active(p) /\ req[p].op \in {"save", "rotate"}

\* p's Rotate was executed and answered 1; p has not been told yet.
Won(p) == pc[p] = "answered" /\ req[p].op = "rotate" /\ reply[p] = 1

\* t was rotated by a call that returned nil, or is about to.
Used(t) == spent[t] > 0 \/ \E p \in Proc : Won(p) /\ req[p].old = t

\* Tokens are drawn for one call each: what a call in progress writes has not
\* been handed out, and what was handed out had been drawn.
FreshTokens ==
    /\ \A t \in handed : t <= issued
    /\ \A p \in Proc : Writes(p) => req[p].new \in 1..issued /\ req[p].new \notin handed
    /\ \A p, q \in Proc : p # q /\ Writes(p) /\ Writes(q) => req[p].new # req[q].new

\* Callers present tokens they were given.
PresentsHanded ==
    \A p \in Proc : Active(p) /\ req[p].op = "rotate" => req[p].old \in handed

\* What an abandoned attempt writes had been drawn; it may have been handed out.
LateTokens == \A m \in late : m.op \in {"save", "rotate"} => m.new \in 1..issued

\* A rotated token was handed out and, unless it was stored again, is not current,
\* so no other call can win it.
UsedIsGone ==
    /\ \A t \in Tokens : Used(t) => t \in handed /\ (t # value \/ t \in rewritten)
    /\ \A p, q \in Proc :
          Won(p) /\ Won(q) /\ req[p].old = req[q].old =>
              p = q \/ req[p].old \in rewritten
    /\ \A p \in Proc : Won(p) => spent[req[p].old] = 0 \/ req[p].old \in rewritten

\* The inductive strengthening of RotateOnce.
RotateInv ==
    /\ TypeOK /\ FreshTokens /\ LateTokens
    /\ PresentsHanded /\ UsedIsGone /\ RotateOnce

-----------------------------------------------------------------------------
(* Types. *)

\* A request has an operation, two token fields and a ttl.
LEMMA RequestType ==
    ASSUME NEW m \in Requests
    PROVE  /\ m.op \in Ops /\ m.old \in 0..MaxTokens /\ m.new \in 0..MaxTokens
           /\ m.ttl \in TTLs \cup {"unused"}
BY DEF Requests

\* Sending a request keeps the types of the calls.
LEMMA SendType ==
    ASSUME TypeOK, NEW p \in Proc, NEW m \in Requests, Send(p, m)
    PROVE  /\ pc' \in [Proc -> {"idle", "sent", "answered"}]
           /\ req' \in [Proc -> Requests]
           /\ tries' \in [Proc -> 0..MaxRetries]
           /\ outcome' \in [Proc -> Outcomes]
           /\ UNCHANGED <<value, px, stored, rewritten, late, reply, handed, spent>>
BY TokenAssumption DEF TypeOK, Send, Outcomes, server, written

\* Abandoning an attempt keeps the late attempts in their type.
LEMMA AbandonType ==
    ASSUME TypeOK, NEW p \in Proc, Abandon(p)
    PROVE  late' \subseteq Requests
BY DEF TypeOK, Abandon

\* What the server does with a request keeps the store in its types.
LEMMA ExecuteType ==
    ASSUME TypeOK, NEW m \in Requests, NEW r \in {Failure, 0, 1}, Execute(m, r),
           m.op \in {"save", "rotate"} => m.new # None
    PROVE  /\ value' \in Tokens \cup {None} /\ px' \in BOOLEAN
           /\ stored' \subseteq Tokens /\ rewritten' \subseteq Tokens
<1>1. m.op \in Ops /\ m.new \in 0..MaxTokens
  BY RequestType
<1>2. m.op \in {"save", "rotate"} => m.new \in Tokens
  BY <1>1, TokenAssumption DEF Tokens, None
<1>3. /\ value' \in Tokens \cup {None}
      /\ stored' \subseteq Tokens /\ rewritten' \subseteq Tokens
  BY <1>2 DEF TypeOK, Execute, SetToken, RotateScript, Put, DelToken, server, written
<1>4. px' \in BOOLEAN
  <2>1. px' \in {px, TRUE, FALSE} \/ px' = (m.ttl # "none")
    BY Zenon DEF Execute, SetToken, RotateScript, Put, DelToken, server, written
  <2>2. (m.ttl # "none") \in BOOLEAN
    OBVIOUS
  <2> QED
    BY <2>1, <2>2, Zenon DEF TypeOK
<1> QED
  BY <1>3, <1>4

\* A Revoke may end the session; nothing else changes over.
LEMMA EndsType ==
    ASSUME TypeOK, NEW m
    PROVE  Ends(m) \in BOOLEAN
BY Zenon DEF TypeOK, Ends

\* A fresh token is drawn.
LEMMA DrawType ==
    ASSUME TypeOK, issued < MaxTokens, issued' = issued + 1
    PROVE  issued' \in 0..MaxTokens /\ issued' \in 1..issued' /\ issued' # None
BY TokenAssumption DEF TypeOK, None

\* Save sends a well-formed request.
LEMMA SaveSends ==
    ASSUME TypeOK, NEW p \in Proc, Save(p)
    PROVE  \E m \in Requests : Send(p, m) /\ m.op = "save" /\ m.new = issued'
<1>1. PICK k \in TTLs :
        Send(p, [op |-> "save", old |-> None, new |-> issued', ttl |-> k])
  BY DEF Save
<1>2. issued' \in 0..MaxTokens /\ None \in 0..MaxTokens
  BY DrawType, TokenAssumption DEF Save, None
<1>3. [op |-> "save", old |-> None, new |-> issued', ttl |-> k] \in Requests
  BY <1>2 DEF Requests, Ops
<1> QED
  BY <1>1, <1>3

\* Rotate sends a well-formed request with a token that was handed out.
LEMMA RotateSends ==
    ASSUME TypeOK, NEW p \in Proc, Rotate(p)
    PROVE  \E m \in Requests :
              Send(p, m) /\ m.op = "rotate" /\ m.new = issued' /\ m.old \in handed
<1>1. PICK k \in TTLs, t \in handed :
        Send(p, [op |-> "rotate", old |-> t, new |-> issued', ttl |-> k])
  BY DEF Rotate
<1>2. t \in 0..MaxTokens /\ issued' \in 0..MaxTokens
  BY DrawType, TokenAssumption DEF TypeOK, Tokens, Rotate
<1> QED
  BY <1>1, <1>2 DEF Requests, Ops

\* Revoke sends a well-formed request.
LEMMA RevokeSends ==
    ASSUME TypeOK, NEW p \in Proc, Revoke(p)
    PROVE  \E m \in Requests : Send(p, m) /\ m.op = "revoke"
<1>1. Deletion \in Requests /\ Deletion.op = "revoke"
  BY TokenAssumption DEF Deletion, Requests, Ops, None
<1> QED
  BY <1>1 DEF Revoke

\* Every step keeps the types, given that what a call writes is a token.
LEMMA StepType ==
    ASSUME TypeOK, FreshTokens, LateTokens, [Next]_vars
    PROVE  TypeOK'
<1>1. CASE Expire
  BY <1>1 DEF TypeOK, Expire, call, history, written
<1>2. ASSUME NEW p \in Proc, Save(p) PROVE TypeOK'
  <2>1. PICK m \in Requests : Send(p, m)
    BY <1>2, SaveSends
  <2>2. issued' \in 0..MaxTokens /\ over' = FALSE
    BY <1>2, DrawType DEF Save
  <2> QED
    BY <2>1, <2>2, SendType DEF TypeOK
<1>3. ASSUME NEW p \in Proc, Rotate(p) PROVE TypeOK'
  <2>1. PICK m \in Requests : Send(p, m)
    BY <1>3, RotateSends
  <2>2. issued' \in 0..MaxTokens /\ over' = over
    BY <1>3, DrawType DEF Rotate
  <2> QED
    BY <2>1, <2>2, SendType DEF TypeOK
<1>4. ASSUME NEW p \in Proc, Revoke(p) PROVE TypeOK'
  <2>1. PICK m \in Requests : Send(p, m)
    BY <1>4, RevokeSends
  <2> QED
    BY <1>4, <2>1, SendType DEF TypeOK, Revoke
<1>5. ASSUME NEW p \in Proc, Serve(p) PROVE TypeOK'
  <2>1. PICK r \in {Failure, 0, 1} : Execute(req[p], r) /\ reply' = [reply EXCEPT ![p] = r]
    BY <1>5 DEF Serve
  <2>2. req[p] \in Requests /\ pc[p] = "sent"
    BY <1>5 DEF TypeOK, Serve
  <2>3. req[p].op \in {"save", "rotate"} => req[p].new # None
    BY <2>2, TokenAssumption DEF FreshTokens, Writes, Active, None, TypeOK
  <2>4. /\ value' \in Tokens \cup {None} /\ px' \in BOOLEAN
        /\ stored' \subseteq Tokens /\ rewritten' \subseteq Tokens
    BY <2>1, <2>2, <2>3, ExecuteType
  <2>5. over' \in BOOLEAN
    BY <1>5, EndsType DEF Serve
  <2> QED
    BY <1>5, <2>1, <2>4, <2>5 DEF TypeOK, Serve, history
<1>6. ASSUME NEW p \in Proc, Return(p) PROVE TypeOK'
  <2>1. req[p] \in Requests /\ reply[p] \in {Failure, 0, 1} /\ pc[p] = "answered"
    BY <1>6 DEF TypeOK, Return
  <2>2. handed' \subseteq Tokens
    <3>1. CASE reply[p] = 1 /\ req[p].op # "revoke"
      <4>1. Writes(p)
        BY <2>1, <3>1, RequestType DEF Writes, Active, Ops
      <4>2. req[p].new \in 1..issued /\ issued \in 0..MaxTokens
        BY <4>1 DEF FreshTokens, TypeOK
      <4>3. req[p].new \in Tokens
        BY <4>2, TokenAssumption DEF Tokens
      <4>4. handed' = handed \cup {req[p].new}
        BY <1>6, <3>1 DEF Return
      <4> QED
        BY <4>3, <4>4 DEF TypeOK
    <3>2. CASE ~ (reply[p] = 1 /\ req[p].op # "revoke")
      BY <1>6, <3>2 DEF Return, TypeOK
    <3> QED
      BY <3>1, <3>2
  <2>3. spent' \in [Tokens -> Nat]
    <3>1. \/ spent' = spent
          \/ spent' = [spent EXCEPT ![req[p].old] = @ + 1]
      BY <1>6 DEF Return
    <3> QED
      BY <3>1 DEF TypeOK
  <2>4. outcome' \in [Proc -> Outcomes]
    BY <1>6 DEF TypeOK, Return, Outcomes
  <2> QED
    BY <1>6, <2>2, <2>3, <2>4 DEF TypeOK, Return, server, written
<1>7. ASSUME NEW p \in Proc, Retry(p) PROVE TypeOK'
  BY <1>7, AbandonType, TokenAssumption DEF TypeOK, Retry, server, written, history
<1>8. ASSUME NEW p \in Proc, Fail(p) PROVE TypeOK'
  BY <1>8, AbandonType DEF TypeOK, Fail, server, written, history, Outcomes
<1>9. ASSUME NEW m \in late, ServeLate(m) PROVE TypeOK'
  <2>1. PICK r \in {Failure, 0, 1} : Execute(m, r)
    BY <1>9 DEF ServeLate
  <2>2. m \in Requests
    BY DEF TypeOK
  <2>3. m.op \in {"save", "rotate"} => m.new # None
    BY TokenAssumption DEF LateTokens, None, TypeOK
  <2>4. /\ value' \in Tokens \cup {None} /\ px' \in BOOLEAN
        /\ stored' \subseteq Tokens /\ rewritten' \subseteq Tokens
    BY <2>1, <2>2, <2>3, ExecuteType
  <2>5. over' \in BOOLEAN
    BY <1>9, Zenon DEF ServeLate
  <2> QED
    BY <1>9, <2>4, <2>5 DEF TypeOK, ServeLate, call, history
<1>10. CASE UNCHANGED vars
  BY <1>10 DEF TypeOK, vars, server, written, call, history
<1> QED
  BY <1>1, <1>2, <1>3, <1>4, <1>5, <1>6, <1>7, <1>8, <1>9, <1>10 DEF Next

-----------------------------------------------------------------------------
(* At most one Rotate of a token returns nil. *)

\* A call that starts draws a token nobody else writes, and changes nothing that
\* was won before.
LEMMA SendRotateInv ==
    ASSUME RotateInv, TypeOK', NEW p \in Proc, NEW m \in Requests, Send(p, m),
           \/ m.op = "revoke" /\ issued' = issued
           \/ /\ issued' = issued + 1 /\ m.new = issued'
              /\ m.op = "rotate" => m.old \in handed
    PROVE  RotateInv'
<1>1. /\ TypeOK /\ FreshTokens /\ LateTokens /\ PresentsHanded /\ UsedIsGone /\ RotateOnce
      /\ pc[p] = "idle" /\ pc' = [pc EXCEPT ![p] = "sent"] /\ req' = [req EXCEPT ![p] = m]
      /\ UNCHANGED <<value, rewritten, reply, handed, spent, late>>
  BY DEF RotateInv, Send, server, written
<1>2. issued \in Nat /\ issued' \in Nat
  BY <1>1, TokenAssumption DEF TypeOK
<1>3. /\ pc'[p] = "sent" /\ req'[p] = m
      /\ \A q \in Proc \ {p} : pc'[q] = pc[q] /\ req'[q] = req[q]
  BY <1>1 DEF TypeOK
<1>4. \A q \in Proc \ {p} : Writes(q)' <=> Writes(q)
  BY <1>3 DEF Writes, Active
<1>5. Writes(p)' => m.new = issued' /\ issued' = issued + 1
  BY <1>3 DEF Writes, Active
<1>6. handed \subseteq Nat
  BY <1>1, TokenAssumption DEF TypeOK, Tokens
<1>7. FreshTokens'
  <2>1. \A t \in handed' : t <= issued'
    BY <1>1, <1>2, <1>6 DEF FreshTokens
  <2>2. \A q \in Proc : Writes(q)' => req'[q].new \in 1..issued' /\ req'[q].new \notin handed'
    BY <1>1, <1>2, <1>3, <1>4, <1>5 DEF FreshTokens
  <2>3. \A q, r \in Proc : q # r /\ Writes(q)' /\ Writes(r)' => req'[q].new # req'[r].new
    BY <1>1, <1>2, <1>3, <1>4, <1>5 DEF FreshTokens
  <2> QED
    BY <2>1, <2>2, <2>3 DEF FreshTokens
<1>8. PresentsHanded'
  BY <1>1, <1>3 DEF PresentsHanded, Active
<1>9. \A q \in Proc : Won(q)' <=> (Won(q) /\ q # p)
  BY <1>1, <1>3 DEF Won
<1>10. \A t : Used(t)' <=> Used(t)
  BY <1>1, <1>3, <1>9 DEF Used, Won
<1>11. UsedIsGone'
  BY <1>1, <1>3, <1>9, <1>10 DEF UsedIsGone
<1>12. LateTokens'
  BY <1>1, <1>2 DEF LateTokens
<1> QED
  BY <1>1, <1>7, <1>8, <1>11, <1>12 DEF RotateInv, RotateOnce

\* What the server does for a call that waits: it writes no token that was handed
\* out, and a Rotate that it answers 1 found its old token current.
LEMMA ServeEffect ==
    ASSUME RotateInv, NEW p \in Proc, Serve(p)
    PROVE  /\ pc[p] = "sent" /\ pc' = [pc EXCEPT ![p] = "answered"]
           /\ rewritten' = rewritten
           /\ value' = value \/ value' = None \/ (Writes(p) /\ value' = req[p].new)
           /\ req[p].op = "rotate" /\ reply'[p] = 1 =>
                 value = req[p].old /\ value' = req[p].new
           /\ \A q \in Proc \ {p} : reply'[q] = reply[q]
<1>1. PICK r \in {Failure, 0, 1} : Execute(req[p], r) /\ reply' = [reply EXCEPT ![p] = r]
  BY DEF Serve
<1>2. TypeOK /\ FreshTokens /\ pc[p] = "sent" /\ pc' = [pc EXCEPT ![p] = "answered"]
  BY DEF RotateInv, Serve
<1>3. reply'[p] = r /\ \A q \in Proc \ {p} : reply'[q] = reply[q]
  BY <1>1, <1>2 DEF TypeOK
<1>4. Writes(p) => {req[p].new} \cap handed = {}
  BY <1>2 DEF FreshTokens
<1>5. req[p].op \in {"save", "rotate"} => Writes(p)
  BY <1>2 DEF Writes, Active
<1>6. rewritten' = rewritten
  BY <1>1, <1>4, <1>5
  DEF Execute, SetToken, RotateScript, Put, DelToken, server, written
<1>7. value' = value \/ value' = None \/ (Writes(p) /\ value' = req[p].new)
  BY <1>1, <1>5 DEF Execute, SetToken, RotateScript, Put, DelToken, server
<1>8. req[p].op = "rotate" /\ r = 1 => value = req[p].old /\ value' = req[p].new
  BY <1>1 DEF Execute, RotateScript, Put, server, Failure
<1> QED
  BY <1>2, <1>3, <1>6, <1>7, <1>8

\* A script or a SET: it wins only a token nobody has won, because a rotated token
\* is not current, and what it writes was never handed out.
LEMMA ServeRotateInv ==
    ASSUME RotateInv, TypeOK', NEW p \in Proc, Serve(p)
    PROVE  RotateInv'
<1>1. /\ pc[p] = "sent" /\ pc' = [pc EXCEPT ![p] = "answered"]
      /\ rewritten' = rewritten
      /\ value' = value \/ value' = None \/ (Writes(p) /\ value' = req[p].new)
      /\ req[p].op = "rotate" /\ reply'[p] = 1 => value = req[p].old /\ value' = req[p].new
      /\ \A q \in Proc \ {p} : reply'[q] = reply[q]
  BY ServeEffect
<1>2. /\ TypeOK /\ FreshTokens /\ LateTokens /\ PresentsHanded /\ UsedIsGone /\ RotateOnce
      /\ UNCHANGED <<req, late, issued, handed, spent>>
  BY DEF RotateInv, Serve, history
<1>3. pc'[p] = "answered" /\ \A q \in Proc \ {p} : pc'[q] = pc[q]
  BY <1>1, <1>2 DEF TypeOK
<1>4. \A q \in Proc : (Writes(q)' <=> Writes(q)) /\ (Active(q)' <=> Active(q))
  BY <1>1, <1>2, <1>3 DEF Writes, Active
<1>5. FreshTokens' /\ PresentsHanded' /\ LateTokens'
  BY <1>2, <1>4 DEF FreshTokens, PresentsHanded, LateTokens
<1>8. None \notin Tokens /\ handed \subseteq Tokens
  BY <1>2 DEF TypeOK, Tokens, None
<1>9. \A t \in handed : t # value => t # value'
  BY <1>1, <1>2, <1>8 DEF FreshTokens
<1>10. \A q \in Proc \ {p} : Won(q)' <=> Won(q)
  BY <1>1, <1>2, <1>3 DEF Won
<1>11. ~ Won(p)
  BY <1>1 DEF Won
<1>12. CASE Won(p)'
  <2>1. req[p].op = "rotate" /\ reply'[p] = 1
    BY <1>2, <1>12 DEF Won
  <2>2. value = req[p].old /\ value' = req[p].new
    BY <1>1, <2>1
  <2>3. req[p].old \in handed /\ req[p].new \notin handed
    BY <1>1, <1>2, <2>1 DEF PresentsHanded, FreshTokens, Writes, Active
  <2>4. (~ Used(req[p].old) \/ req[p].old \in rewritten) /\ req[p].old \in Tokens
    BY <1>2, <1>8, <2>2, <2>3 DEF UsedIsGone
  <2>5. \/ spent[req[p].old] = 0 /\ \A q \in Proc : Won(q) => req[q].old # req[p].old
        \/ req[p].old \in rewritten
    BY <1>2, <2>4 DEF Used, TypeOK
  <2>6. \A t \in Tokens : Used(t)' => Used(t) \/ t = req[p].old
    BY <1>2, <1>10 DEF Used
  <2>7. \A t \in Tokens : Used(t)' => t \in handed' /\ (t # value' \/ t \in rewritten')
    BY <1>1, <1>2, <1>9, <2>2, <2>3, <2>6 DEF UsedIsGone
  <2>8. \A q, s \in Proc : Won(q)' /\ Won(s)' /\ req'[q].old = req'[s].old =>
           q = s \/ req'[q].old \in rewritten'
    BY <1>1, <1>2, <1>10, <2>5 DEF UsedIsGone
  <2>9. \A q \in Proc : Won(q)' => spent'[req'[q].old] = 0 \/ req'[q].old \in rewritten'
    BY <1>1, <1>2, <1>10, <2>5 DEF UsedIsGone
  <2> QED
    BY <1>1, <1>2, <1>5, <2>7, <2>8, <2>9 DEF RotateInv, UsedIsGone, RotateOnce
<1>13. CASE ~ Won(p)'
  <2>1. \A q \in Proc : Won(q)' <=> Won(q)
    BY <1>10, <1>11, <1>13
  <2>2. \A t \in Tokens : Used(t)' <=> Used(t)
    BY <1>2, <2>1 DEF Used
  <2>3. UsedIsGone'
    BY <1>1, <1>2, <1>9, <2>1, <2>2 DEF UsedIsGone
  <2> QED
    BY <1>1, <1>2, <1>5, <2>3 DEF RotateInv, RotateOnce
<1> QED
  BY <1>12, <1>13

\* An abandoned attempt: a handed out token that it writes counts as rewritten.
LEMMA LateRotateInv ==
    ASSUME RotateInv, TypeOK', NEW m \in late, ServeLate(m)
    PROVE  RotateInv'
<1>1. PICK r \in {Failure, 0, 1} : Execute(m, r)
  BY DEF ServeLate
<1>2. /\ TypeOK /\ FreshTokens /\ LateTokens /\ PresentsHanded /\ UsedIsGone /\ RotateOnce
      /\ late' \subseteq late
      /\ UNCHANGED <<pc, req, reply, issued, handed, spent>>
  BY DEF RotateInv, ServeLate, call, history
<1>3. /\ rewritten \subseteq rewritten'
      /\ \/ value' = value
         \/ value' = None
         \/ value' \in handed => value' \in rewritten'
  BY <1>1 DEF Execute, SetToken, RotateScript, Put, DelToken, server, written
<1>4. \A q \in Proc :
         (Writes(q)' <=> Writes(q)) /\ (Active(q)' <=> Active(q)) /\ (Won(q)' <=> Won(q))
  BY <1>2 DEF Writes, Active, Won
<1>5. \A t \in Tokens : (Used(t)' <=> Used(t)) /\ t # None
  BY <1>2, <1>4 DEF Used, Tokens, None
<1>6. FreshTokens' /\ PresentsHanded' /\ LateTokens'
  BY <1>2, <1>4 DEF FreshTokens, PresentsHanded, LateTokens
<1>7. UsedIsGone'
  BY <1>2, <1>3, <1>4, <1>5 DEF UsedIsGone
<1>8. RotateOnce'
  BY <1>2, <1>3 DEF RotateOnce
<1> QED
  BY <1>6, <1>7, <1>8 DEF RotateInv

\* The winner is told: its token is counted as spent and its new one handed out.
LEMMA ReturnRotateInv ==
    ASSUME RotateInv, TypeOK', NEW p \in Proc, Return(p)
    PROVE  RotateInv'
<1> DEFINE old == req[p].old
           new == req[p].new
<1>1. /\ TypeOK /\ FreshTokens /\ LateTokens /\ PresentsHanded /\ UsedIsGone /\ RotateOnce
      /\ pc[p] = "answered" /\ pc' = [pc EXCEPT ![p] = "idle"]
      /\ UNCHANGED <<value, rewritten, late, req, reply, issued>>
  BY DEF RotateInv, Return, server, written
<1>2. /\ pc'[p] = "idle"
      /\ \A q \in Proc \ {p} : pc'[q] = pc[q]
  BY <1>1 DEF TypeOK
<1>3. /\ ~ Writes(p)' /\ ~ Active(p)' /\ ~ Won(p)'
      /\ \A q \in Proc \ {p} :
            (Writes(q)' <=> Writes(q)) /\ (Active(q)' <=> Active(q)) /\ (Won(q)' <=> Won(q))
  BY <1>1, <1>2 DEF Writes, Active, Won
<1>4. handed' = handed \/ (Writes(p) /\ handed' = handed \cup {new})
  BY <1>1, RequestType DEF Return, Writes, Active, TypeOK, Ops
<1>5. FreshTokens'
  <2>1. \A t \in handed' : t <= issued'
    BY <1>1, <1>4, TokenAssumption DEF FreshTokens, TypeOK
  <2>2. \A q \in Proc : Writes(q)' => req'[q].new \in 1..issued' /\ req'[q].new \notin handed'
    BY <1>1, <1>3, <1>4 DEF FreshTokens
  <2>3. \A q, r \in Proc : q # r /\ Writes(q)' /\ Writes(r)' => req'[q].new # req'[r].new
    BY <1>1, <1>3 DEF FreshTokens
  <2> QED
    BY <2>1, <2>2, <2>3 DEF FreshTokens
<1>6. PresentsHanded' /\ LateTokens'
  BY <1>1, <1>3, <1>4 DEF PresentsHanded, LateTokens
<1>7. spent' = IF Won(p) THEN [spent EXCEPT ![old] = @ + 1] ELSE spent
  BY <1>1 DEF Return, Won
<1>8. CASE Won(p)
  <2>1. Used(old) /\ old \in handed /\ old \in Tokens
    <3>1. Used(old)
      BY <1>8 DEF Used
    <3>2. old \in handed
      BY <1>1, <1>8 DEF PresentsHanded, Active, Won
    <3> QED
      BY <1>1, <3>1, <3>2 DEF TypeOK
  <2>2. /\ (spent[old] = 0 /\ spent'[old] = 1) \/ old \in rewritten
        /\ \A t \in Tokens \ {old} : spent'[t] = spent[t]
    BY <1>1, <1>7, <1>8, <2>1 DEF UsedIsGone, TypeOK
  <2>3. RotateOnce'
    BY <1>1, <2>2 DEF RotateOnce
  <2>4. \A t \in Tokens : Used(t)' => Used(t)
    BY <1>1, <1>3, <2>1, <2>2 DEF Used
  <2>5. \A t \in Tokens : Used(t)' => t \in handed' /\ (t # value' \/ t \in rewritten')
    BY <1>1, <1>4, <2>4 DEF UsedIsGone
  <2>6. \A q \in Proc : Won(q)' =>
           (req[q].old # old \/ old \in rewritten) /\ req[q].old \in Tokens
    BY <1>1, <1>3, <1>8 DEF UsedIsGone, PresentsHanded, TypeOK, Won, Active
  <2>7. \A q \in Proc : Won(q)' => spent'[req'[q].old] = 0 \/ req'[q].old \in rewritten'
    BY <1>1, <1>3, <2>2, <2>6 DEF UsedIsGone
  <2>8. \A q, r \in Proc : Won(q)' /\ Won(r)' /\ req'[q].old = req'[r].old =>
           q = r \/ req'[q].old \in rewritten'
    BY <1>1, <1>3 DEF UsedIsGone
  <2> QED
    BY <1>1, <1>5, <1>6, <2>3, <2>5, <2>7, <2>8 DEF RotateInv, UsedIsGone
<1>9. CASE ~ Won(p)
  <2>1. spent' = spent /\ \A q \in Proc : Won(q)' <=> Won(q)
    BY <1>3, <1>7, <1>9
  <2>2. \A t \in Tokens : Used(t)' <=> Used(t)
    BY <1>1, <2>1 DEF Used
  <2>3. UsedIsGone'
    BY <1>1, <1>4, <2>1, <2>2 DEF UsedIsGone
  <2> QED
    BY <1>1, <1>5, <1>6, <2>1, <2>3 DEF RotateInv, RotateOnce
<1> QED
  BY <1>8, <1>9

\* A call that is sent again, or that fails, wins nothing, and what it abandons had
\* been drawn.
LEMMA DropRotateInv ==
    ASSUME RotateInv, TypeOK', NEW p \in Proc, Abandon(p), NEW c \in {"sent", "idle"},
           pc[p] # "idle", pc' = [pc EXCEPT ![p] = c],
           UNCHANGED <<value, rewritten, req, reply, issued, handed, spent>>
    PROVE  RotateInv'
<1>1. TypeOK /\ FreshTokens /\ LateTokens /\ PresentsHanded /\ UsedIsGone /\ RotateOnce
  BY DEF RotateInv
<1>2. pc'[p] = c /\ \A q \in Proc \ {p} : pc'[q] = pc[q]
  BY <1>1 DEF TypeOK
<1>3. \A q \in Proc : (Writes(q)' => Writes(q)) /\ (Active(q)' => Active(q)) /\ (Won(q)' => Won(q))
  BY <1>2 DEF Writes, Active, Won
<1>4. \A t \in Tokens : Used(t)' => Used(t)
  BY <1>3 DEF Used
<1>5. FreshTokens' /\ PresentsHanded'
  BY <1>1, <1>3 DEF FreshTokens, PresentsHanded
<1>6. UsedIsGone'
  BY <1>1, <1>3, <1>4 DEF UsedIsGone
<1>7. LateTokens'
  <2>1. req[p].op \in {"save", "rotate"} => req[p].new \in 1..issued
    BY <1>1 DEF FreshTokens, Writes, Active
  <2>2. late' \subseteq late \cup {req[p]}
    BY DEF Abandon
  <2> QED
    BY <1>1, <2>1, <2>2 DEF LateTokens
<1> QED
  BY <1>1, <1>5, <1>6, <1>7 DEF RotateInv, RotateOnce

\* Steps that change no call.
LEMMA IdleRotateInv ==
    ASSUME RotateInv, TypeOK', value' = value \/ value' = None,
           UNCHANGED <<rewritten, late, pc, req, reply, issued, handed, spent>>
    PROVE  RotateInv'
<1>1. TypeOK /\ FreshTokens /\ LateTokens /\ PresentsHanded /\ UsedIsGone /\ RotateOnce
  BY DEF RotateInv
<1>2. \A p \in Proc :
        (Writes(p)' <=> Writes(p)) /\ (Active(p)' <=> Active(p)) /\ (Won(p)' <=> Won(p))
  BY DEF Writes, Active, Won
<1>3. \A t \in Tokens : (Used(t)' <=> Used(t)) /\ t # None
  BY <1>2 DEF Used, Tokens, None
<1>4. FreshTokens' /\ LateTokens' /\ PresentsHanded'
  BY <1>1, <1>2 DEF FreshTokens, LateTokens, PresentsHanded
<1>5. UsedIsGone'
  BY <1>1, <1>2, <1>3 DEF UsedIsGone
<1> QED
  BY <1>1, <1>4, <1>5 DEF RotateInv, RotateOnce

\* The invariant holds at first.
LEMMA InitRotateInv == Init => RotateInv
<1> SUFFICES ASSUME Init PROVE RotateInv
  OBVIOUS
<1>1. TypeOK
  <2>1. /\ value \in Tokens \cup {None} /\ late \subseteq Requests
        /\ issued \in 0..MaxTokens /\ handed \subseteq Tokens
        /\ stored \subseteq Tokens /\ rewritten \subseteq Tokens
        /\ tries \in [Proc -> 0..MaxRetries] /\ spent \in [Tokens -> Nat]
    BY TokenAssumption DEF Init
  <2>2. Deletion \in Requests
    BY TokenAssumption DEF Deletion, Requests, Ops, None
  <2>3. /\ pc \in [Proc -> {"idle", "sent", "answered"}] /\ req \in [Proc -> Requests]
        /\ reply \in [Proc -> {Failure, 0, 1}] /\ outcome \in [Proc -> Outcomes]
    BY <2>2 DEF Init, Outcomes
  <2>4. px \in BOOLEAN /\ over \in BOOLEAN
    BY DEF Init
  <2> QED
    BY <2>1, <2>3, <2>4 DEF TypeOK
<1>2. \A p \in Proc : ~ Writes(p) /\ ~ Active(p) /\ ~ Won(p)
  BY DEF Init, Writes, Active, Won
<1>3. \A t \in Tokens : spent[t] = 0 /\ ~ Used(t)
  BY <1>2 DEF Init, Used
<1> QED
  BY <1>1, <1>2, <1>3
  DEF Init, RotateInv, FreshTokens, LateTokens, PresentsHanded, UsedIsGone, RotateOnce

\* Every step keeps the invariant.
LEMMA StepRotateInv == RotateInv /\ [Next]_vars => RotateInv'
<1> SUFFICES ASSUME RotateInv, [Next]_vars PROVE RotateInv'
  OBVIOUS
<1>1. TypeOK /\ TypeOK'
  BY StepType DEF RotateInv
<1>2. ASSUME NEW p \in Proc, Save(p) PROVE RotateInv'
  <2>1. PICK m \in Requests : Send(p, m) /\ m.op = "save" /\ m.new = issued'
    BY <1>1, <1>2, SaveSends
  <2> QED
    BY <1>1, <1>2, <2>1, SendRotateInv DEF Save
<1>3. ASSUME NEW p \in Proc, Rotate(p) PROVE RotateInv'
  <2>1. PICK m \in Requests :
          Send(p, m) /\ m.op = "rotate" /\ m.new = issued' /\ m.old \in handed
    BY <1>1, <1>3, RotateSends
  <2> QED
    BY <1>1, <1>3, <2>1, SendRotateInv DEF Rotate
<1>4. ASSUME NEW p \in Proc, Revoke(p) PROVE RotateInv'
  <2>1. PICK m \in Requests : Send(p, m) /\ m.op = "revoke"
    BY <1>1, <1>4, RevokeSends
  <2> QED
    BY <1>1, <1>4, <2>1, SendRotateInv DEF Revoke
<1>5. ASSUME NEW p \in Proc, Serve(p) PROVE RotateInv'
  BY <1>1, <1>5, ServeRotateInv
<1>6. ASSUME NEW p \in Proc, Return(p) PROVE RotateInv'
  BY <1>1, <1>6, ReturnRotateInv
<1>7. ASSUME NEW p \in Proc, Retry(p) PROVE RotateInv'
  BY <1>1, <1>7, DropRotateInv DEF Retry, server, written, history
<1>8. ASSUME NEW p \in Proc, Fail(p) PROVE RotateInv'
  BY <1>1, <1>8, DropRotateInv DEF Fail, server, written, history
<1>9. CASE Expire
  BY <1>1, <1>9, IdleRotateInv DEF Expire, written, call, history
<1>10. ASSUME NEW m \in late, ServeLate(m) PROVE RotateInv'
  BY <1>1, <1>10, LateRotateInv
<1>11. CASE UNCHANGED vars
  BY <1>1, <1>11, IdleRotateInv DEF vars, server, written, call, history
<1> QED
  BY <1>2, <1>3, <1>4, <1>5, <1>6, <1>7, <1>8, <1>9, <1>10, <1>11 DEF Next

\* Of all the Rotates of one token, concurrent ones, replays, retries and late
\* executions included, at most one returns nil, unless the token was stored again
\* after it had been handed out: the atomic comparison of script.go 80-86 gives what
\* script.go 76-79 asks of it.
THEOREM RotateOnceHolds == Spec => []RotateOnce
<1>1. RotateInv => RotateOnce
  BY DEF RotateInv
<1> QED
  BY <1>1, InitRotateInv, StepRotateInv, PTL DEF Spec

\* The types of the store, for every set of callers and every bound.
THEOREM TypeCorrect == Spec => []TypeOK
<1>1. RotateInv => TypeOK
  BY DEF RotateInv
<1> QED
  BY <1>1, InitRotateInv, StepRotateInv, PTL DEF Spec

-----------------------------------------------------------------------------
(* Where a token can be stored again. *)

\* Nothing is left behind where no attempt may be.
LEMMA NothingLate ==
    ASSUME MaxLate = 0, late = {}, NEW p \in Proc, Abandon(p)
    PROVE  late' = {}
<1>1. Cardinality(late) = 0
  BY FS_EmptySet
<1> QED
  BY <1>1 DEF Abandon

NothingRewritten == late = {} /\ rewritten = {}

\* Retries alone store no token again that was handed out, so that where no
\* abandoned attempt is executed late RotateOnce holds for every token.
THEOREM RetriesRewriteNothing ==
    ASSUME MaxLate = 0
    PROVE  Spec => [](rewritten = {})
<1>1. Init => NothingRewritten
  BY DEF Init, NothingRewritten
<1>2. RotateInv /\ NothingRewritten /\ [Next]_vars => NothingRewritten'
  <2> SUFFICES ASSUME RotateInv, NothingRewritten, [Next]_vars PROVE NothingRewritten'
    OBVIOUS
  <2>1. late = {} /\ rewritten = {}
    BY DEF NothingRewritten
  <2>2. ASSUME NEW p \in Proc, Serve(p) PROVE NothingRewritten'
    BY <2>1, <2>2, ServeEffect DEF Serve, NothingRewritten
  <2>3. ASSUME NEW p \in Proc, Save(p) \/ Rotate(p) \/ Revoke(p) PROVE NothingRewritten'
    BY <2>1, <2>3 DEF Save, Rotate, Revoke, Send, server, written, NothingRewritten
  <2>4. ASSUME NEW p \in Proc, Retry(p) \/ Fail(p) PROVE NothingRewritten'
    BY <2>1, <2>4, NothingLate DEF Retry, Fail, server, written, NothingRewritten
  <2>5. ASSUME NEW p \in Proc, Return(p) PROVE NothingRewritten'
    BY <2>1, <2>5 DEF Return, server, written, NothingRewritten
  <2>6. CASE Expire \/ UNCHANGED vars
    BY <2>1, <2>6 DEF Expire, vars, server, written, NothingRewritten
  <2> QED
    BY <2>1, <2>2, <2>3, <2>4, <2>5, <2>6 DEF Next
<1>3. NothingRewritten => rewritten = {}
  BY DEF NothingRewritten
<1> QED
  BY <1>1, <1>2, <1>3, InitRotateInv, StepRotateInv, PTL DEF Spec

-----------------------------------------------------------------------------
(* Expiry and revocation. *)

\* What Save and Rotate send: a ttl, and an old token that is one.
Allowed(m) ==
    /\ m.op = "save" => m.ttl # "none"
    /\ m.op = "rotate" => m.old # None

\* The inductive strengthening of AlwaysExpires and RevokeSticks: once a session is
\* over no caller waits for a Save.
SessionInv ==
    /\ \A m \in late : Allowed(m)
    /\ \A p \in Proc : Active(p) => Allowed(req[p])
    /\ AlwaysExpires
    /\ over => value = None /\ NoSave

\* A request is executed: what it stores has a ttl, and it stores nothing where
\* nothing is, unless it is a Save.
LEMMA ExecuteSession ==
    ASSUME NEW m, NEW r, Execute(m, r), Allowed(m), AlwaysExpires
    PROVE  /\ AlwaysExpires'
           /\ m.op = "revoke" => value' = None
           /\ value = None /\ m.op # "save" => value' = None
<1>1. CASE m.op = "save"
  <2>1. px' = (m.ttl # "none")
    BY <1>1 DEF Execute, SetToken, Put
  <2>2. px'
    BY <1>1, <2>1 DEF Allowed
  <2> QED
    BY <1>1, <2>2 DEF AlwaysExpires
<1>2. CASE m.op = "rotate"
  <2>1. CASE value = m.old /\ m.ttl = "whole" /\ Put(m.new, TRUE)
    BY <1>2, <2>1 DEF AlwaysExpires, Put, Allowed
  <2>2. CASE UNCHANGED server
    BY <1>2, <2>2 DEF AlwaysExpires, server
  <2> QED
    BY <1>2, <2>1, <2>2 DEF Execute, RotateScript
<1>3. CASE m.op = "revoke"
  BY <1>3 DEF Execute, DelToken, AlwaysExpires
<1> QED
  BY <1>1, <1>2, <1>3 DEF Execute

\* A call starts.
LEMMA SendSession ==
    ASSUME TypeOK, SessionInv, NEW p \in Proc, NEW m, Send(p, m), Allowed(m),
           over' => over /\ m.op # "save"
    PROVE  SessionInv'
<1>1. /\ pc'[p] = "sent" /\ req'[p] = m
      /\ \A q \in Proc \ {p} : pc'[q] = pc[q] /\ req'[q] = req[q]
      /\ UNCHANGED <<value, px, late>>
  BY DEF TypeOK, Send, server
<1>2. AlwaysExpires'
  BY <1>1 DEF SessionInv, AlwaysExpires
<1>3. \A q \in Proc : Active(q)' => Allowed(req'[q])
  BY <1>1 DEF SessionInv, Active
<1>4. over' => value' = None /\ NoSave'
  BY <1>1 DEF SessionInv, NoSave
<1> QED
  BY <1>1, <1>2, <1>3, <1>4 DEF SessionInv

\* A call goes on, or ends, without a request being executed.
LEMMA QuietSession ==
    ASSUME SessionInv, (value' = value /\ px' = px) \/ value' = None,
           req' = req, over' = over,
           \A p \in Proc : Active(p)' => Active(p),
           \A m \in late' : m \in late \/ \E p \in Proc : Active(p) /\ m = req[p]
    PROVE  SessionInv'
<1>1. AlwaysExpires'
  BY DEF SessionInv, AlwaysExpires
<1>2. over' => NoSave'
  BY DEF SessionInv, NoSave, Active
<1> QED
  BY <1>1, <1>2 DEF SessionInv

\* Every step keeps the invariant.
LEMMA StepSession == RotateInv /\ SessionInv /\ [Next]_vars => SessionInv'
<1> SUFFICES ASSUME RotateInv, SessionInv, [Next]_vars PROVE SessionInv'
  OBVIOUS
<1>1. TypeOK
  BY DEF RotateInv
<1>2. ASSUME NEW p \in Proc, Save(p) PROVE SessionInv'
  <2>1. PICK k \in TTLs : /\ k # "none"
                          /\ Send(p, [op |-> "save", old |-> None, new |-> issued', ttl |-> k])
    BY <1>2 DEF Save, Accepted
  <2>2. ~ over'
    BY <1>2 DEF Save
  <2> QED
    BY <1>1, <2>1, <2>2, SendSession DEF Allowed
<1>3. ASSUME NEW p \in Proc, Rotate(p) PROVE SessionInv'
  <2>1. PICK k \in TTLs, t \in handed :
          Send(p, [op |-> "rotate", old |-> t, new |-> issued', ttl |-> k])
    BY <1>3 DEF Rotate
  <2>2. t # None
    BY <1>1 DEF TypeOK, Tokens, None
  <2>3. over' = over
    BY <1>3 DEF Rotate
  <2> QED
    BY <1>1, <2>1, <2>2, <2>3, SendSession DEF Allowed
<1>4. ASSUME NEW p \in Proc, Revoke(p) PROVE SessionInv'
  <2>1. Send(p, Deletion) /\ over' = over
    BY <1>4 DEF Revoke
  <2>2. Allowed(Deletion) /\ Deletion.op # "save"
    BY DEF Allowed, Deletion
  <2> QED
    BY <1>1, <2>1, <2>2, SendSession
<1>5. ASSUME NEW p \in Proc, Serve(p) PROVE SessionInv'
  <2>1. PICK r \in {Failure, 0, 1} : Execute(req[p], r)
    BY <1>5 DEF Serve
  <2>2. /\ pc[p] = "sent" /\ pc' = [pc EXCEPT ![p] = "answered"] /\ req' = req /\ late' = late
        /\ over' = Ends(req[p])
    BY <1>5 DEF Serve
  <2>3. \A q \in Proc : pc'[q] # "idle" <=> pc[q] # "idle"
    BY <1>1, <2>2 DEF TypeOK
  <2>4. NoSave' <=> NoSave
    BY <2>2, <2>3 DEF NoSave
  <2>5. Allowed(req[p]) /\ AlwaysExpires
    BY <2>2 DEF SessionInv, Active
  <2>6. /\ AlwaysExpires'
        /\ req[p].op = "revoke" => value' = None
        /\ value = None /\ req[p].op # "save" => value' = None
    BY <2>1, <2>5, ExecuteSession
  <2>7. NoSave => req[p].op # "save"
    BY <2>2 DEF NoSave
  <2>8. over' => value' = None /\ NoSave'
    BY <2>2, <2>4, <2>6, <2>7 DEF SessionInv, Ends
  <2>9. /\ \A m \in late' : Allowed(m)
        /\ \A q \in Proc : Active(q)' => Allowed(req'[q])
    BY <2>2, <2>3 DEF SessionInv, Active
  <2> QED
    BY <2>6, <2>8, <2>9 DEF SessionInv
<1>6. ASSUME NEW m \in late, ServeLate(m) PROVE SessionInv'
  <2>1. PICK r \in {Failure, 0, 1} : Execute(m, r)
    BY <1>6 DEF ServeLate
  <2>2. /\ UNCHANGED <<pc, req>> /\ late' \subseteq late
        /\ over' <=> Ends(m) /\ m.op # "save"
    BY <1>6 DEF ServeLate, call
  <2>3. /\ AlwaysExpires'
        /\ m.op = "revoke" => value' = None
        /\ value = None /\ m.op # "save" => value' = None
    BY <2>1, ExecuteSession DEF SessionInv
  <2>4. NoSave' <=> NoSave
    BY <2>2 DEF NoSave
  <2>5. over' => value' = None /\ NoSave'
    BY <2>2, <2>3, <2>4 DEF SessionInv, Ends
  <2>6. /\ \A n \in late' : Allowed(n)
        /\ \A q \in Proc : Active(q)' => Allowed(req'[q])
    BY <2>2 DEF SessionInv, Active
  <2> QED
    BY <2>3, <2>5, <2>6 DEF SessionInv
<1>7. ASSUME NEW p \in Proc, NEW c \in {"sent", "idle"}, pc[p] # "idle",
             pc' = [pc EXCEPT ![p] = c], Abandon(p) \/ late' = late,
             UNCHANGED <<server, req, over>>
      PROVE SessionInv'
  <2>1. \A q \in Proc : Active(q)' => Active(q)
    BY <1>1, <1>7 DEF TypeOK, Active
  <2>2. \A m \in late' : m \in late \/ \E q \in Proc : Active(q) /\ m = req[q]
    BY <1>7 DEF Abandon, Active
  <2> QED
    BY <1>7, <2>1, <2>2, QuietSession DEF server
<1>8. ASSUME NEW p \in Proc, Retry(p) PROVE SessionInv'
  BY <1>7, <1>8 DEF Retry
<1>9. ASSUME NEW p \in Proc, Fail(p) PROVE SessionInv'
  BY <1>7, <1>9 DEF Fail
<1>10. ASSUME NEW p \in Proc, Return(p) PROVE SessionInv'
  BY <1>7, <1>10 DEF Return
<1>11. CASE Expire \/ UNCHANGED vars
  BY <1>11, QuietSession DEF Expire, vars, server, call, history, Active
<1> QED
  BY <1>2, <1>3, <1>4, <1>5, <1>6, <1>8, <1>9, <1>10, <1>11 DEF Next

\* The invariant holds at first.
LEMMA InitSession == Init => SessionInv
BY DEF Init, SessionInv, AlwaysExpires, Active

\* No credential without an end (tokenstore.go 20-21), retries and late executions
\* included.
THEOREM AlwaysExpiresHolds == Spec => []AlwaysExpires
<1>1. SessionInv => AlwaysExpires
  BY DEF SessionInv
<1> QED
  BY <1>1, InitRotateInv, StepRotateInv, InitSession, StepSession, PTL DEF Spec

\* No Rotate, concurrent, sent again or executed late, brings a revoked session back
\* (tokenstore.go 61-62).
THEOREM RevokeSticksHolds == Spec => []RevokeSticks
<1>1. SessionInv => RevokeSticks
  BY DEF SessionInv, RevokeSticks
<1> QED
  BY <1>1, InitRotateInv, StepRotateInv, InitSession, StepSession, PTL DEF Spec

=============================================================================
