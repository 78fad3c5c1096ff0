------------------------------ MODULE LabDataProofs ------------------------------
(***************************************************************************)
(* Proofs about the data structures of the labs, and about all the labs    *)
(* together: what the list of a queue and the pending entries of a stream  *)
(* hold, for any number of jobs and orders; how often a job is run,        *)
(* counted over its consumers; where an order is until it is billed; the   *)
(* views of the archive, a sum over the archivers; what a key of rediskit  *)
(* says of its parts, through the folds it is built with.  The last        *)
(* section puts the parts together as MCLabs does.                         *)
(***************************************************************************)
EXTENDS MCLabs, LabProofs, SumTheorems, SequenceTheorems

-----------------------------------------------------------------------------
(* Sequences: what the lists and the pending entries hold. *)

\* No element stands at two places of s.
NoRepeat(s) == \A i, j \in 1..Len(s) : s[i] = s[j] => i = j

\* What a sequence holds is what it has at its places.
LEMMA Held ==
    ASSUME NEW S, NEW s \in Seq(S)
    PROVE  /\ \A x : x \in Range(s) <=> \E i \in 1..Len(s) : s[i] = x
           /\ Range(s) \subseteq S /\ Len(s) \in Nat
           /\ s = <<>> <=> Len(s) = 0
           /\ Range(s) = {} <=> s = <<>>
<1>1. Len(s) \in Nat /\ DOMAIN s = 1..Len(s) /\ (s = <<>> <=> Len(s) = 0) OBVIOUS
<1>2. \A x : x \in Range(s) <=> \E i \in 1..Len(s) : s[i] = x BY <1>1 DEF Range
<1>3. \A i \in 1..Len(s) : s[i] \in S OBVIOUS
<1>4. s # <<>> => s[1] \in Range(s)
    <2>1. s # <<>> => 1 \in 1..Len(s) BY <1>1
    <2> QED BY <1>2, <2>1
<1>5. s = <<>> => Range(s) = {} BY <1>1, <1>2
<1>6. Range(s) \subseteq S BY <1>2, <1>3
<1> QED BY <1>1, <1>2, <1>4, <1>5, <1>6

\* RPUSH: a sequence with an element appended holds it, and what it held.
LEMMA AppendHolds ==
    ASSUME NEW S, NEW s \in Seq(S), NEW x \in S
    PROVE  /\ Append(s, x) \in Seq(S) /\ Range(Append(s, x)) = Range(s) \cup {x}
           /\ NoRepeat(s) /\ x \notin Range(s) => NoRepeat(Append(s, x))
<1> DEFINE t == Append(s, x)
<1>1. /\ t \in Seq(S) /\ Len(t) = Len(s) + 1 /\ Len(s) \in Nat
      /\ \A i \in 1..Len(s) : t[i] = s[i]
      /\ t[Len(s) + 1] = x
    OBVIOUS
<1>2. \A i \in 1..Len(t) : i \in 1..Len(s) \/ i = Len(s) + 1 BY <1>1
<1>3. Range(t) = Range(s) \cup {x}
    <2> HIDE DEF t
    <2>1. ASSUME NEW y \in Range(t) PROVE y \in Range(s) \cup {x}
        BY <1>1, <1>2, <2>1, Held
    <2>2. ASSUME NEW y \in Range(s) PROVE y \in Range(t) 
        <3>1. PICK i \in 1..Len(s) : s[i] = y BY <2>2, Held
        <3>2. i \in 1..Len(t) /\ t[i] = y BY <1>1, <3>1
        <3> QED BY <1>1, <3>2, Held
    <2>3. x \in Range(t)
        <3>1. Len(s) + 1 \in 1..Len(t) BY <1>1
        <3> QED BY <1>1, <3>1, Held
    <2> QED BY <2>1, <2>2, <2>3
<1>4. ASSUME NoRepeat(s), x \notin Range(s) PROVE NoRepeat(t)
    <2> HIDE DEF t
    <2>1. \A i \in 1..Len(s) : s[i] # x BY <1>4, Held
    <2> QED BY <1>1, <1>2, <1>4, <2>1 DEF NoRepeat
<1> QED BY <1>1, <1>3, <1>4

\* LPOP: a sequence holds its head and what its tail holds.
LEMMA TailHolds ==
    ASSUME NEW S, NEW s \in Seq(S), s # <<>>
    PROVE  /\ Head(s) \in S /\ Tail(s) \in Seq(S) /\ Head(s) \in Range(s)
           /\ Range(s) = Range(Tail(s)) \cup {Head(s)}
           /\ NoRepeat(s) => NoRepeat(Tail(s)) /\ Head(s) \notin Range(Tail(s))
<1> DEFINE t == Tail(s)
<1>1. /\ t \in Seq(S) /\ Len(t) = Len(s) - 1 /\ Len(s) \in Nat \ {0} /\ Head(s) = s[1]
      /\ \A i \in 1..Len(t) : t[i] = s[i + 1]
      /\ Head(s) \in S
    BY HeadTailProperties
<1> HIDE DEF t
<1>2. \A i \in 1..Len(s) : i = 1 \/ (i - 1 \in 1..Len(t) /\ t[i - 1] = s[i]) BY <1>1
<1>3. \A i \in 1..Len(t) : i + 1 \in 1..Len(s) /\ i + 1 # 1 BY <1>1
<1>4. 1 \in 1..Len(s) BY <1>1
<1>5. Head(s) \in Range(s) BY <1>1, <1>4, Held
<1>6. ASSUME NEW y \in Range(s) PROVE y \in Range(t) \cup {Head(s)}
    <2>1. PICK i \in 1..Len(s) : s[i] = y BY <1>6, Held
    <2>2. CASE i = 1 BY <1>1, <2>1, <2>2
    <2>3. CASE i - 1 \in 1..Len(t) /\ t[i - 1] = s[i] BY <1>1, <2>1, <2>3, Held
    <2> QED BY <1>2, <2>2, <2>3
<1>7. ASSUME NEW y \in Range(t) PROVE y \in Range(s)
    <2>1. PICK i \in 1..Len(t) : t[i] = y BY <1>1, <1>7, Held
    <2>2. i + 1 \in 1..Len(s) /\ s[i + 1] = y BY <1>1, <1>3, <2>1
    <2> QED BY <2>2, Held
<1>8. ASSUME NoRepeat(s) PROVE NoRepeat(t) /\ Head(s) \notin Range(t)
    <2>1. ASSUME NEW i \in 1..Len(t), NEW j \in 1..Len(t), t[i] = t[j] PROVE i = j
        <3>1. s[i + 1] = s[j + 1] BY <1>1, <2>1
        <3>2. i + 1 = j + 1 BY <1>3, <1>8, <3>1 DEF NoRepeat
        <3> QED BY <3>2
    <2>2. ASSUME NEW i \in 1..Len(t), t[i] = Head(s) PROVE FALSE
        <3>1. s[i + 1] = s[1] BY <1>1, <2>2
        <3>2. i + 1 = 1 BY <1>3, <1>4, <1>8, <3>1 DEF NoRepeat
        <3> QED BY <1>3, <3>2
    <2>3. Head(s) \notin Range(t) BY <1>1, <2>2, Held
    <2> QED BY <2>1, <2>3 DEF NoRepeat
<1>9. Range(s) = Range(t) \cup {Head(s)} BY <1>5, <1>6, <1>7
<1> QED BY <1>1, <1>5, <1>8, <1>9 DEF t

\* LREM, and XACK: the first occurrence goes, everything else stays.
LEMMA RemoveFirstHolds ==
    ASSUME NEW S, NEW s \in Seq(S), NEW e
    PROVE  /\ RemoveFirst(s, e) \in Seq(S)
           /\ Range(RemoveFirst(s, e)) \subseteq Range(s)
           /\ Range(s) \ {e} \subseteq Range(RemoveFirst(s, e))
           /\ NoRepeat(s) => NoRepeat(RemoveFirst(s, e))
<1>1. CASE ~\E i \in 1..Len(s) : s[i] = e BY <1>1 DEF RemoveFirst
<1>2. CASE \E i \in 1..Len(s) : s[i] = e
    <2> DEFINE I == {i \in 1..Len(s) : s[i] = e}
               k == Min(I)
               t == SubSeq(s, 1, k - 1) \o SubSeq(s, k + 1, Len(s))
    <2>1. I # {} /\ I \subseteq Nat BY <1>2
    <2>2. k \in I
        <3> HIDE DEF I
        <3>1. \E x \in I : \A y \in I : x <= y BY <2>1, LeastNatural
        <3> QED BY <3>1 DEF Min
    <2>3. k \in 1..Len(s) /\ s[k] = e /\ Len(s) \in Nat
        <3> HIDE DEF k
        <3> QED BY <2>2
    <2>4. RemoveFirst(s, e) = t
        BY <1>2, <2>1 DEF RemoveFirst, RemoveAt, SelectInSeq
    <2> HIDE DEF k
    <2>5. /\ t \in Seq(S) /\ Len(t) = Len(s) - 1
          /\ \A i \in 1..Len(t) : t[i] = IF i < k THEN s[i] ELSE s[i + 1]
        <3> DEFINE a == SubSeq(s, 1, k - 1)
                   b == SubSeq(s, k + 1, Len(s))
        <3>1. /\ a \in Seq(S) /\ Len(a) = k - 1 /\ \A i \in 1..(k - 1) : a[i] = s[i]
            <4>1. \A i \in 1..(k - 1) : s[i] \in S BY <2>3
            <4>2. k - 1 \in Int /\ 1 \in Int BY <2>3
            <4>3. Len(a) = IF 1 <= k - 1 THEN (k - 1) - 1 + 1 ELSE 0 BY <4>1, <4>2, SubSeqProperties
            <4>4. a \in Seq(S) /\ \A i \in 1..((k - 1) - 1 + 1) : a[i] = s[1 + i - 1]
                BY <4>1, <4>2, SubSeqProperties
            <4> HIDE DEF a
            <4> QED BY <2>3, <4>3, <4>4
        <3>2. /\ b \in Seq(S) /\ Len(b) = Len(s) - k
              /\ \A i \in 1..(Len(s) - k) : b[i] = s[k + i]
            <4>1. \A i \in (k + 1)..Len(s) : s[i] \in S BY <2>3
            <4>2. k + 1 \in Int /\ Len(s) \in Int BY <2>3
            <4>3. Len(b) = IF k + 1 <= Len(s) THEN Len(s) - (k + 1) + 1 ELSE 0
                BY <4>1, <4>2, SubSeqProperties
            <4>4. b \in Seq(S) /\ \A i \in 1..(Len(s) - (k + 1) + 1) : b[i] = s[(k + 1) + i - 1]
                BY <4>1, <4>2, SubSeqProperties
            <4> HIDE DEF b
            <4> QED BY <2>3, <4>3, <4>4
        <3> HIDE DEF a, b
        <3>3. t = a \o b BY DEF a, b
        <3>4. /\ a \o b \in Seq(S) /\ Len(a \o b) = Len(a) + Len(b)
              /\ \A i \in 1..Len(a \o b) :
                    (a \o b)[i] = IF i <= Len(a) THEN a[i] ELSE b[i - Len(a)]
            BY <3>1, <3>2, ConcatProperties
        <3>5. Len(a \o b) = Len(s) - 1 BY <2>3, <3>1, <3>2, <3>4
        <3>6. ASSUME NEW i \in 1..(Len(s) - 1)
              PROVE  (a \o b)[i] = IF i < k THEN s[i] ELSE s[i + 1]
            <4>1. (a \o b)[i] = IF i <= k - 1 THEN a[i] ELSE b[i - (k - 1)]
                BY <3>1, <3>4, <3>5
            <4>2. CASE i < k
                <5>1. i <= k - 1 /\ i \in 1..(k - 1) BY <2>3, <4>2
                <5> QED BY <3>1, <4>1, <4>2, <5>1
            <4>3. CASE ~(i < k)
                <5>1. /\ ~(i <= k - 1) /\ i - (k - 1) \in 1..(Len(s) - k)
                      /\ k + (i - (k - 1)) = i + 1
                    BY <2>3, <4>3
                <5> QED BY <3>2, <4>1, <4>3, <5>1
            <4> QED BY <4>2, <4>3
        <3> HIDE DEF t
        <3> QED BY <3>3, <3>4, <3>5, <3>6
    <2> HIDE DEF t
    <2>6. ASSUME NEW y \in Range(t) PROVE y \in Range(s)
        <3>1. PICK i \in 1..Len(t) : t[i] = y BY <2>5, <2>6, Held
        <3>2. i \in 1..Len(s) /\ i + 1 \in 1..Len(s) BY <2>3, <2>5
        <3>3. y = s[i] \/ y = s[i + 1] BY <2>5, <3>1
        <3> QED BY <3>2, <3>3, Held
    <2>7. ASSUME NEW y \in Range(s) \ {e} PROVE y \in Range(t)
        <3>1. PICK i \in 1..Len(s) : s[i] = y BY <2>7, Held
        <3>2. i # k BY <2>3, <2>7, <3>1
        <3>3. CASE i < k
            <4>1. i \in 1..Len(t) /\ t[i] = y BY <2>3, <2>5, <3>1, <3>3
            <4> QED BY <2>5, <4>1, Held
        <3>4. CASE i > k
            <4>1. i - 1 \in 1..Len(t) /\ ~(i - 1 < k) BY <2>3, <2>5, <3>4
            <4>2. t[i - 1] = y BY <2>5, <3>1, <4>1
            <4> QED BY <2>5, <4>1, <4>2, Held
        <3> QED BY <2>3, <3>2, <3>3, <3>4
    <2>8. ASSUME NoRepeat(s) PROVE NoRepeat(t)
        <3> DEFINE p(i) == IF i < k THEN i ELSE i + 1
        <3>1. \A i \in 1..Len(t) : t[i] = s[p(i)] /\ p(i) \in 1..Len(s) BY <2>3, <2>5
        <3>2. \A i, j \in 1..Len(t) : p(i) = p(j) => i = j BY <2>3, <2>5
        <3> HIDE DEF p
        <3>3. \A i, j \in 1..Len(t) : t[i] = t[j] => p(i) = p(j)
            BY <2>8, <3>1 DEF NoRepeat
        <3> QED BY <3>2, <3>3 DEF NoRepeat
    <2> QED BY <2>4, <2>5, <2>6, <2>7, <2>8
<1> QED BY <1>1, <1>2

\* Two sequences together hold what each of them holds.
LEMMA ConcatHolds ==
    ASSUME NEW S, NEW s \in Seq(S), NEW t \in Seq(S)
    PROVE  s \o t \in Seq(S) /\ Range(s \o t) = Range(s) \cup Range(t)
<1> DEFINE u == s \o t
<1>1. /\ u \in Seq(S) /\ Len(u) = Len(s) + Len(t) /\ Len(s) \in Nat /\ Len(t) \in Nat
      /\ \A i \in 1..Len(u) : u[i] = IF i <= Len(s) THEN s[i] ELSE t[i - Len(s)]
    OBVIOUS
<1> HIDE DEF u
<1>2. ASSUME NEW y \in Range(u) PROVE y \in Range(s) \cup Range(t)
    <2>1. PICK i \in 1..Len(u) : u[i] = y BY <1>1, <1>2, Held
    <2>2. \/ i \in 1..Len(s) /\ s[i] = y
          \/ i - Len(s) \in 1..Len(t) /\ t[i - Len(s)] = y
        BY <1>1, <2>1
    <2> QED BY <2>2, Held
<1>3. ASSUME NEW y \in Range(s) PROVE y \in Range(u)
    <2>1. PICK i \in 1..Len(s) : s[i] = y BY <1>3, Held
    <2>2. i \in 1..Len(u) /\ u[i] = y BY <1>1, <2>1
    <2> QED BY <1>1, <2>2, Held
<1>4. ASSUME NEW y \in Range(t) PROVE y \in Range(u)
    <2>1. PICK i \in 1..Len(t) : t[i] = y BY <1>4, Held
    <2>2. i + Len(s) \in 1..Len(u) /\ ~(i + Len(s) <= Len(s)) /\ (i + Len(s)) - Len(s) = i
        BY <1>1, <2>1
    <2>3. u[i + Len(s)] = y BY <1>1, <2>1, <2>2
    <2> QED BY <1>1, <2>2, <2>3, Held
<1>5. Range(u) = Range(s) \cup Range(t) BY <1>2, <1>3, <1>4
<1> QED BY <1>1, <1>5 DEF u

-----------------------------------------------------------------------------
(* The list queue. *)

\* The workers that have j in hand and did not run it yet.
Unrun(j) == {w \in Consumer : runs[w] = j /\ ~ran[w]}
Queued(j) == IF j \in Range(queue) THEN 1 ELSE 0

\* A job is in one of the lists at most, and there once; every run of it was paid for by
\* the first time it was queued or by a Reclaim, and so will be those of the workers that
\* hold it and the one it is still queued for.  Who acknowledges a job has run it.
QueueInv ==
    /\ QueueTypeOK
    /\ NoRepeat(queue) /\ NoRepeat(processing) /\ Range(queue) \cap Range(processing) = {}
    /\ \A w \in Consumer : ran[w] => runs[w] \in Job /\ times[runs[w]] > 0
    /\ NeverLost
    /\ \A j \in Job : /\ IsFiniteSet(Unrun(j))
                      /\ times[j] + Cardinality(Unrun(j)) + Queued(j) <= 1 + reclaims[j]

\* Of the holders of a job a step moves the worker that takes it.
LEMMA UnrunMoves ==
    ASSUME NEW j, IsFiniteSet(Unrun(j)), NEW w \in Consumer,
           \A v \in Consumer \ {w} : runs'[v] = runs[v] /\ (ran'[v] <=> ran[v])
    PROVE  /\ IsFiniteSet(Unrun(j)')
           /\ Cardinality(Unrun(j)) \in Nat /\ Cardinality(Unrun(j)') \in Nat
           /\ Cardinality(Unrun(j)') = Cardinality(Unrun(j))
                 + (IF w \in Unrun(j)' THEN 1 ELSE 0) - (IF w \in Unrun(j) THEN 1 ELSE 0)
<1>1. Unrun(j) \ {w} = Unrun(j)' \ {w} BY DEF Unrun
<1> QED BY <1>1, OneDiffers

\* Every job is queued once and nobody holds one.
LEMMA QueueStarts == QueueInit => QueueInv
<1> SUFFICES ASSUME QueueInit PROVE QueueInv OBVIOUS
<1>1. /\ queue \in SetToSeqs(Job) /\ processing = <<>>
      /\ runs = [w \in Consumer |-> "none"] /\ ran = [w \in Consumer |-> FALSE]
      /\ times = [j \in Job |-> 0] /\ reclaims = [j \in Job |-> 0] /\ crashes = 0
    BY DEF QueueInit
<1> DEFINE n == Cardinality(Job)
<1>2. n \in Nat BY JobAssumption, FS_CardinalityType
<1>3. queue \in [1..n -> Job] /\ \A i, j \in 1..n : i # j => queue[i] # queue[j]
    BY <1>1 DEF SetToSeqs
<1>4. queue \in Seq(Job) /\ Len(queue) = n
    <2> HIDE DEF n
    <2> QED BY <1>2, <1>3
<1>5. NoRepeat(queue) BY <1>3, <1>4 DEF NoRepeat
<1>6. queue \in Surjection(1..n, Job)
    <2>1. queue \in Injection(1..n, Job) BY <1>3 DEF Injection, IsInjective
    <2>2. IsFiniteSet(1..n) /\ Cardinality(1..n) = n
        <3> HIDE DEF n
        <3>1. CASE n = 0
            <4>1. 1..n = {} BY <3>1
            <4> QED BY <3>1, <4>1, FS_EmptySet
        <3>2. CASE n > 0 BY <1>2, <3>2, FS_Interval
        <3> QED BY <1>2, <3>1, <3>2
    <2> QED BY <2>1, <2>2, JobAssumption, FS_Injection
<1>7. \A j \in Job : j \in Range(queue)
    <2>1. \A j \in Job : \E i \in 1..n : queue[i] = j BY <1>6 DEF Surjection
    <2> QED BY <1>4, <2>1, Held
<1>8. <<>> \in Seq(Job) /\ Len(<<>>) = 0 OBVIOUS
<1>9. Range(processing) = {} /\ NoRepeat(processing) BY <1>1, <1>8, Held DEF NoRepeat
<1>10. \A j \in Job : Unrun(j) = {} BY <1>1, JobAssumption DEF Unrun
<1>11. ASSUME NEW j \in Job
       PROVE  /\ IsFiniteSet(Unrun(j))
              /\ times[j] + Cardinality(Unrun(j)) + Queued(j) <= 1 + reclaims[j]
    <2>1. IsFiniteSet({}) /\ Cardinality({}) = 0 BY FS_EmptySet
    <2>2. times[j] = 0 /\ reclaims[j] = 0 /\ Queued(j) = 1 BY <1>1, <1>7 DEF Queued
    <2> QED BY <1>10, <2>1, <2>2
<1>12. QueueTypeOK BY <1>1, <1>4, <1>8, CrashesAssumption DEF QueueTypeOK
<1>13. NeverLost BY <1>7 DEF NeverLost, Waiting
<1>14. \A w \in Consumer : ~ran[w] BY <1>1
<1> QED BY <1>5, <1>9, <1>11, <1>12, <1>13, <1>14 DEF QueueInv

\* What a step may do: the lists keep the jobs apart, the account stays covered.
LEMMA QueueSteps == QueueInv /\ [QueueNext]_queueVars => QueueInv'
<1> SUFFICES ASSUME QueueInv, [QueueNext]_queueVars PROVE QueueInv' OBVIOUS
<1> USE CrashesAssumption
<1>1. /\ queue \in Seq(Job) /\ processing \in Seq(Job)
      /\ runs \in [Consumer -> Job \cup {"none"}] /\ ran \in [Consumer -> BOOLEAN]
      /\ times \in [Job -> Nat] /\ reclaims \in [Job -> Nat] /\ crashes \in 0..MaxCrashes
    BY DEF QueueInv, QueueTypeOK
<1>2. /\ NoRepeat(queue) /\ NoRepeat(processing) /\ Range(queue) \cap Range(processing) = {}
      /\ \A w \in Consumer : ran[w] => runs[w] \in Job /\ times[runs[w]] > 0
    BY DEF QueueInv
<1>3. \A j \in Job : times[j] = 0 => j \in Range(queue) \/ j \in Range(processing)
    BY DEF QueueInv, NeverLost, Waiting
<1>4. \A j \in Job : /\ IsFiniteSet(Unrun(j)) /\ Cardinality(Unrun(j)) \in Nat
                     /\ times[j] + Cardinality(Unrun(j)) + Queued(j) <= 1 + reclaims[j]
    BY FS_CardinalityType DEF QueueInv
<1>5. Crashing => crashes' \in 0..MaxCrashes BY <1>1 DEF Crashing
<1>6. \A j \in Job : Queued(j) \in Nat /\ Queued(j)' \in Nat BY DEF Queued
\* The account, once it is known by how much each of its terms changes.
<1>7. ASSUME NEW j \in Job, times' \in [Job -> Nat], reclaims' \in [Job -> Nat],
             IsFiniteSet(Unrun(j)'), Cardinality(Unrun(j)') \in Nat,
             (times'[j] - times[j]) + (Cardinality(Unrun(j)') - Cardinality(Unrun(j)))
                + (Queued(j)' - Queued(j)) <= reclaims'[j] - reclaims[j]
      PROVE  /\ IsFiniteSet(Unrun(j)')
             /\ times'[j] + Cardinality(Unrun(j)') + Queued(j)' <= 1 + reclaims'[j]
    <2> DEFINE t == times[j]  tt == times'[j]  u == Cardinality(Unrun(j))
               uu == Cardinality(Unrun(j)')  q == Queued(j)  qq == Queued(j)'
               r == reclaims[j]  rr == reclaims'[j]
    <2>1. /\ t \in Int /\ tt \in Int /\ u \in Int /\ uu \in Int /\ q \in Int /\ qq \in Int
          /\ r \in Int /\ rr \in Int /\ t + u + q <= 1 + r
          /\ (tt - t) + (uu - u) + (qq - q) <= rr - r
        BY <1>1, <1>4, <1>6, <1>7
    <2> HIDE DEF t, tt, u, uu, q, qq, r, rr
    <2>2. tt + uu + qq <= 1 + rr BY <2>1
    <2> QED BY <1>7, <2>2 DEF tt, uu, qq, rr
<1>8. ASSUME NEW w \in Consumer, Take(w) PROVE QueueInv'
    <2> DEFINE h == Head(queue)
    <2>1. /\ queue # <<>> /\ queue' = Tail(queue) /\ processing' = Append(processing, h)
          /\ runs[w] = "none" /\ UNCHANGED <<ran, times, reclaims>>
          /\ \/ runs' = [runs EXCEPT ![w] = h] /\ UNCHANGED crashes
             \/ Crashing /\ UNCHANGED runs
        BY <1>8 DEF Take, MoveFirst
    <2>2. /\ h \in Job /\ queue' \in Seq(Job) /\ h \in Range(queue)
          /\ Range(queue) = Range(queue') \cup {h} /\ NoRepeat(queue') /\ h \notin Range(queue')
        BY <1>1, <1>2, <2>1, TailHolds
    <2>3. h \notin Range(processing) BY <1>2, <2>2
    <2>4. /\ processing' \in Seq(Job) /\ Range(processing') = Range(processing) \cup {h}
          /\ NoRepeat(processing')
        BY <1>1, <1>2, <2>1, <2>2, <2>3, AppendHolds
    <2> HIDE DEF h
    <2>5. ~ran[w] /\ ~ran'[w] BY <1>2, <2>1, JobAssumption
    <2>6. /\ runs' \in [Consumer -> Job \cup {"none"}]
          /\ \A v \in Consumer \ {w} : runs'[v] = runs[v]
          /\ runs'[w] = h \/ runs'[w] = "none"
        BY <1>1, <2>1, <2>2
    <2>7. QueueTypeOK' BY <1>1, <1>5, <2>1, <2>2, <2>4, <2>6 DEF QueueTypeOK
    <2>8. NeverLost' BY <1>3, <2>1, <2>2, <2>4 DEF NeverLost, Waiting
    <2>9. \A v \in Consumer : ran'[v] => runs'[v] \in Job /\ times'[runs'[v]] > 0
        BY <1>2, <2>1, <2>5, <2>6
    <2>10. ASSUME NEW j \in Job
           PROVE  /\ IsFiniteSet(Unrun(j)')
                  /\ times'[j] + Cardinality(Unrun(j)') + Queued(j)' <= 1 + reclaims'[j]
        <3>1. /\ IsFiniteSet(Unrun(j)') /\ Cardinality(Unrun(j)') \in Nat
              /\ Cardinality(Unrun(j)') = Cardinality(Unrun(j))
                    + (IF w \in Unrun(j)' THEN 1 ELSE 0) - (IF w \in Unrun(j) THEN 1 ELSE 0)
            BY <1>4, <2>1, <2>6, UnrunMoves
        <3>2. w \notin Unrun(j) BY <2>1, JobAssumption DEF Unrun
        <3>3. w \in Unrun(j)' => j = h BY <2>6, JobAssumption DEF Unrun
        <3>4. Queued(j)' = Queued(j) - (IF j = h THEN 1 ELSE 0)
            BY <2>2 DEF Queued
        <3>5. (times'[j] - times[j]) + (Cardinality(Unrun(j)') - Cardinality(Unrun(j)))
                + (Queued(j)' - Queued(j)) <= reclaims'[j] - reclaims[j]
            <4>1. times'[j] - times[j] = 0 /\ reclaims'[j] - reclaims[j] = 0 BY <1>1, <2>1
            <4>2. Queued(j)' - Queued(j) = - (IF j = h THEN 1 ELSE 0) BY <1>6, <3>4
            <4>3. Cardinality(Unrun(j)') - Cardinality(Unrun(j)) = IF w \in Unrun(j)' THEN 1 ELSE 0
                BY <1>4, <3>1, <3>2
            <4> QED BY <3>3, <4>1, <4>2, <4>3
        <3>6. times' \in [Job -> Nat] /\ reclaims' \in [Job -> Nat] BY <1>1, <2>1
        <3> QED BY <1>7, <3>1, <3>5, <3>6
    <2> QED BY <1>2, <2>2, <2>3, <2>4, <2>7, <2>8, <2>9, <2>10 DEF QueueInv
<1>9. ASSUME NEW w \in Consumer, Run(w) PROVE QueueInv'
    <2> DEFINE h == runs[w]
    <2>1. /\ h \in Job /\ ~ran[w] /\ ran' = [ran EXCEPT ![w] = TRUE]
          /\ times' = [times EXCEPT ![h] = @ + 1]
          /\ UNCHANGED <<queue, processing, runs, reclaims, crashes>>
        BY <1>1, <1>9 DEF Run
    <2>2. /\ times' \in [Job -> Nat] /\ ran' \in [Consumer -> BOOLEAN] /\ ran'[w]
          /\ \A v \in Consumer \ {w} : ran'[v] = ran[v]
          /\ \A j \in Job : times'[j] = IF j = h THEN times[j] + 1 ELSE times[j]
        BY <1>1, <2>1
    <2> HIDE DEF h
    <2>3. QueueTypeOK' BY <1>1, <2>1, <2>2 DEF QueueTypeOK
    <2>4. NeverLost' BY <1>1, <1>3, <2>1, <2>2 DEF NeverLost, Waiting
    <2>5. ASSUME NEW v \in Consumer, ran'[v] PROVE runs'[v] \in Job /\ times'[runs'[v]] > 0
        <3>1. runs'[v] = runs[v] BY <2>1
        <3>2. CASE v = w BY <1>1, <2>1, <2>2, <3>1, <3>2 DEF h
        <3>3. CASE v # w
            <4>1. runs[v] \in Job /\ times[runs[v]] > 0 BY <1>2, <2>2, <2>5, <3>3
            <4>2. ASSUME NEW k \in Job, times[k] > 0 PROVE times'[k] > 0
                <5>1. times[k] \in Nat /\ times'[k] = IF k = h THEN times[k] + 1 ELSE times[k]
                    BY <1>1, <2>2
                <5> QED BY <4>2, <5>1
            <4>3. runs'[v] \in Job /\ times'[runs[v]] > 0 BY <3>1, <4>1, <4>2
            <4> QED BY <3>1, <4>3
        <3> QED BY <3>2, <3>3
    <2>6. ASSUME NEW j \in Job
           PROVE  /\ IsFiniteSet(Unrun(j)')
                  /\ times'[j] + Cardinality(Unrun(j)') + Queued(j)' <= 1 + reclaims'[j]
        <3>1. /\ IsFiniteSet(Unrun(j)') /\ Cardinality(Unrun(j)') \in Nat
              /\ Cardinality(Unrun(j)') = Cardinality(Unrun(j))
                    + (IF w \in Unrun(j)' THEN 1 ELSE 0) - (IF w \in Unrun(j) THEN 1 ELSE 0)
            BY <1>4, <2>1, <2>2, UnrunMoves
        <3>2. w \notin Unrun(j)' /\ (w \in Unrun(j) <=> j = h) BY <2>1, <2>2 DEF Unrun, h
        <3>3. Queued(j)' = Queued(j) /\ reclaims'[j] - reclaims[j] = 0 BY <1>1, <2>1 DEF Queued
        <3>4. (times'[j] - times[j]) + (Cardinality(Unrun(j)') - Cardinality(Unrun(j)))
                + (Queued(j)' - Queued(j)) <= reclaims'[j] - reclaims[j]
            <4>1. times'[j] - times[j] = IF j = h THEN 1 ELSE 0 BY <1>1, <2>2
            <4>2. Queued(j)' - Queued(j) = 0 BY <1>6, <3>3
            <4>3. Cardinality(Unrun(j)') - Cardinality(Unrun(j)) = - (IF j = h THEN 1 ELSE 0)
                BY <1>4, <3>1, <3>2
            <4> QED BY <3>3, <4>1, <4>2, <4>3
        <3>5. reclaims' \in [Job -> Nat] BY <1>1, <2>1
        <3> QED BY <1>7, <2>2, <3>1, <3>4, <3>5
    <2> QED BY <1>2, <2>1, <2>3, <2>4, <2>5, <2>6 DEF QueueInv
\* A worker that puts its job down, whatever becomes of the lists but for jobs that ran.
<1>10. ASSUME NEW w \in Consumer, Forget(w), UNCHANGED <<queue, times, reclaims>>,
              crashes' \in 0..MaxCrashes, processing' \in Seq(Job), NoRepeat(processing'),
              Range(processing') \subseteq Range(processing),
              \A j \in Job : times[j] = 0 /\ j \in Range(processing) => j \in Range(processing')
       PROVE  QueueInv'
    <2>1. /\ runs' \in [Consumer -> Job \cup {"none"}] /\ ran' \in [Consumer -> BOOLEAN]
          /\ \A v \in Consumer \ {w} : runs'[v] = runs[v] /\ (ran'[v] <=> ran[v])
          /\ runs'[w] = "none" /\ ~ran'[w]
        BY <1>1, <1>10 DEF Forget
    <2>2. QueueTypeOK' BY <1>1, <1>10, <2>1 DEF QueueTypeOK
    <2>3. NeverLost' BY <1>3, <1>10 DEF NeverLost, Waiting
    <2>4. \A v \in Consumer : ran'[v] => runs'[v] \in Job /\ times'[runs'[v]] > 0
        BY <1>2, <1>10, <2>1
    <2>5. ASSUME NEW j \in Job
           PROVE  /\ IsFiniteSet(Unrun(j)')
                  /\ times'[j] + Cardinality(Unrun(j)') + Queued(j)' <= 1 + reclaims'[j]
        <3>1. /\ IsFiniteSet(Unrun(j)') /\ Cardinality(Unrun(j)') \in Nat
              /\ Cardinality(Unrun(j)') = Cardinality(Unrun(j))
                    + (IF w \in Unrun(j)' THEN 1 ELSE 0) - (IF w \in Unrun(j) THEN 1 ELSE 0)
            BY <1>4, <2>1, UnrunMoves
        <3>2. w \notin Unrun(j)' BY <2>1, JobAssumption DEF Unrun
        <3>3. Queued(j)' = Queued(j) /\ times' = times /\ reclaims' = reclaims
            BY <1>10 DEF Queued
        <3>4. (times'[j] - times[j]) + (Cardinality(Unrun(j)') - Cardinality(Unrun(j)))
                + (Queued(j)' - Queued(j)) <= reclaims'[j] - reclaims[j]
            <4>1. times'[j] - times[j] = 0 /\ reclaims'[j] - reclaims[j] = 0 BY <1>1, <3>3
            <4>2. Queued(j)' - Queued(j) = 0 BY <1>6, <3>3
            <4>3. Cardinality(Unrun(j)') - Cardinality(Unrun(j)) <= 0 BY <1>4, <3>1, <3>2
            <4>4. Cardinality(Unrun(j)') - Cardinality(Unrun(j)) \in Int BY <1>4, <3>1
            <4> QED BY <4>1, <4>2, <4>3, <4>4
        <3> QED BY <1>1, <1>7, <3>1, <3>3, <3>4
    <2> QED BY <1>2, <1>10, <2>2, <2>3, <2>4, <2>5 DEF QueueInv
<1>11. ASSUME NEW w \in Consumer, AckJob(w) PROVE QueueInv'
    <2>1. /\ ran[w] /\ Forget(w) /\ UNCHANGED <<queue, times, reclaims>>
          /\ \/ processing' = RemoveFirst(processing, runs[w]) /\ UNCHANGED crashes
             \/ Crashing /\ UNCHANGED processing
        BY <1>11 DEF AckJob
    <2>2. runs[w] \in Job /\ times[runs[w]] > 0 BY <1>2, <2>1
    <2>3. /\ processing' \in Seq(Job) /\ NoRepeat(processing')
          /\ Range(processing') \subseteq Range(processing)
          /\ Range(processing) \ {runs[w]} \subseteq Range(processing')
        BY <1>1, <1>2, <2>1, RemoveFirstHolds
    <2>4. crashes' \in 0..MaxCrashes BY <1>1, <1>5, <2>1
    <2>5. \A j \in Job : times[j] = 0 /\ j \in Range(processing) => j \in Range(processing')
        BY <1>1, <2>2, <2>3
    <2> QED BY <1>10, <2>1, <2>3, <2>4, <2>5
<1>12. ASSUME NEW w \in Consumer, CrashJob(w) PROVE QueueInv'
    BY <1>1, <1>2, <1>5, <1>10, <1>12 DEF CrashJob
<1>13. ASSUME Reclaim PROVE QueueInv'
    <2> DEFINE h == Head(processing)
    <2>1. /\ processing # <<>> /\ queue' = Append(queue, h) /\ processing' = Tail(processing)
          /\ reclaims' = [reclaims EXCEPT ![h] = @ + 1]
          /\ UNCHANGED <<runs, ran, times, crashes>>
        BY <1>13 DEF Reclaim
    <2>2. /\ h \in Job /\ processing' \in Seq(Job) /\ h \in Range(processing)
          /\ Range(processing) = Range(processing') \cup {h}
          /\ NoRepeat(processing') /\ h \notin Range(processing')
        BY <1>1, <1>2, <2>1, TailHolds
    <2>3. h \notin Range(queue) BY <1>2, <2>2
    <2>4. /\ queue' \in Seq(Job) /\ Range(queue') = Range(queue) \cup {h} /\ NoRepeat(queue')
        BY <1>1, <1>2, <2>1, <2>2, <2>3, AppendHolds
    <2> HIDE DEF h
    <2>5. /\ reclaims' \in [Job -> Nat]
          /\ \A j \in Job : reclaims'[j] = IF j = h THEN reclaims[j] + 1 ELSE reclaims[j]
        BY <1>1, <2>1, <2>2
    <2>6. QueueTypeOK' BY <1>1, <2>1, <2>2, <2>4, <2>5 DEF QueueTypeOK
    <2>7. NeverLost' BY <1>3, <2>1, <2>2, <2>4 DEF NeverLost, Waiting
    <2>8. ASSUME NEW j \in Job
           PROVE  /\ IsFiniteSet(Unrun(j)')
                  /\ times'[j] + Cardinality(Unrun(j)') + Queued(j)' <= 1 + reclaims'[j]
        <3>1. Unrun(j)' = Unrun(j) BY <2>1 DEF Unrun
        <3>2. (times'[j] - times[j]) + (Cardinality(Unrun(j)') - Cardinality(Unrun(j)))
                + (Queued(j)' - Queued(j)) <= reclaims'[j] - reclaims[j]
            <4>1. times'[j] - times[j] = 0 BY <1>1, <2>1
            <4>2. Cardinality(Unrun(j)') - Cardinality(Unrun(j)) = 0 BY <1>4, <3>1
            <4>3. reclaims'[j] - reclaims[j] = IF j = h THEN 1 ELSE 0 BY <1>1, <2>5
            <4>4. Queued(j)' - Queued(j) = IF j = h THEN 1 ELSE 0 BY <2>3, <2>4 DEF Queued
            <4> QED BY <4>1, <4>2, <4>3, <4>4
        <3> QED BY <1>1, <1>4, <1>7, <2>1, <2>5, <3>1, <3>2
    <2> QED BY <1>2, <2>1, <2>2, <2>3, <2>4, <2>6, <2>7, <2>8 DEF QueueInv
<1>14. ASSUME UNCHANGED queueVars PROVE QueueInv'
    BY <1>14 DEF queueVars, QueueInv, QueueTypeOK, NeverLost, Waiting, Unrun, Queued
<1> QED BY <1>8, <1>9, <1>11, <1>12, <1>13, <1>14 DEF QueueNext, ConsumerStep

\* The inductive invariant of the list queue (BLMOVE, run, LREM, LMOVE).
THEOREM QueueInvariant == QueueSpec => []QueueInv
BY QueueStarts, QueueSteps, PTL DEF QueueSpec

\* What the account of the runs says of each job.
LEMMA QueueInvSafe == QueueInv => ListJobsSafe
<1> SUFFICES ASSUME QueueInv PROVE ListJobsSafe OBVIOUS
<1>1. NeverLost BY DEF QueueInv
<1>2. ASSUME NEW j \in Job PROVE times[j] <= 1 + reclaims[j]
    <2>1. /\ times[j] \in Nat /\ reclaims[j] \in Nat /\ Queued(j) \in Nat
          /\ Cardinality(Unrun(j)) \in Nat
          /\ times[j] + Cardinality(Unrun(j)) + Queued(j) <= 1 + reclaims[j]
        BY FS_CardinalityType DEF QueueInv, QueueTypeOK, Queued
    <2> QED BY <2>1
<1> QED BY <1>1, <1>2 DEF ListJobsSafe, AgainByReclaim

\* No job of the list queue is lost, and one is run again only after it was moved back.
THEOREM ListJobsSafeHolds == QueueSpec => []ListJobsSafe
BY QueueInvariant, QueueInvSafe, PTL
-----------------------------------------------------------------------------
(* The order stream. *)

Taken(w) == stream[Head(hand[w])]      \* the order a worker is at

\* The workers have entries in hand that were read before, the claiming one only such of
\* orders that were claimed; who bills or acknowledges has the reason for it.
HandsInv ==
    /\ \A w \in Biller : Range(hand[w]) \subseteq 1..seen["billing"]
    /\ Range(pel["billing"]) \subseteq 1..seen["billing"]
    /\ doing["worker2"] # "ask" /\ \A e \in Range(hand["worker2"]) : stream[e] \in again
    /\ doing["worker1"] = "bill" => Taken("worker1") \in dedup
    /\ doing["worker1"] = "ack" => Taken("worker1") \in dedup \cup unsure
    /\ doing["worker2"] = "ack" => billed[Taken("worker2")] > 0

\* An order nobody claimed is billed by the first worker alone, after the set answered 1.
BilledBefore(o) ==
    /\ billed[o] <= 1
    /\ o \notin dedup => billed[o] = 0
    /\ doing["worker1"] = "bill" /\ Taken("worker1") = o => billed[o] = 0

\* An entry that stays pending until it is billed: the first worker does not have it in
\* hand, or bills it now.
Kept(e) ==
    /\ e \in Range(pel["billing"])
    /\ e \in Range(hand["worker1"]) =>
          doing["worker1"] = "bill" /\ e = Head(hand["worker1"])

\* An order that is not billed is pending: all of its entries that were read, before the
\* set was asked; one that is kept, after.
Pending(o) ==
    /\ o \in dedup => \E e \in Entries(o) : Kept(e)
    /\ o \notin dedup => \A e \in Entries(o) : e <= seen["billing"] => e \in Range(pel["billing"])

StreamInv ==
    /\ StreamTypeOK
    /\ HandsInv
    /\ \A o \in Order \ again : BilledBefore(o)
    /\ \A o \in Order \ unsure : billed[o] = 0 => Pending(o)

\* What holds of the state the workers see, by the types alone.
LEMMA StreamFacts ==
    ASSUME StreamTypeOK
    PROVE  /\ Len(stream) \in Nat /\ DOMAIN stream = 1..Len(stream)
           /\ seen["billing"] \in 0..Len(stream) /\ seen["notify"] \in 0..Len(stream)
           /\ pel["billing"] \in Seq(1..Len(stream)) /\ pel["notify"] \in Seq(1..Len(stream))
           /\ \A e \in 1..Len(stream) : stream[e] \in Order
           /\ \A w \in Worker :
                 /\ hand[w] \in Seq(1..Len(stream)) /\ (doing[w] = "none" <=> hand[w] = <<>>)
                 /\ hand[w] # <<>> =>
                       /\ Head(hand[w]) \in 1..Len(stream) /\ Head(hand[w]) \in Range(hand[w])
                       /\ Taken(w) \in Order /\ Tail(hand[w]) \in Seq(1..Len(stream))
                       /\ Range(hand[w]) = Range(Tail(hand[w])) \cup {Head(hand[w])}
<1>1. /\ stream \in Seq(Order) /\ seen \in [Group -> 0..Len(stream)]
      /\ pel \in [Group -> Seq(DOMAIN stream)] /\ hand \in [Worker -> Seq(DOMAIN stream)]
      /\ \A w \in Worker : (doing[w] = "none") = (hand[w] = <<>>)
    BY DEF StreamTypeOK
<1>2. Len(stream) \in Nat /\ DOMAIN stream = 1..Len(stream) BY <1>1
<1>3. \A e \in 1..Len(stream) : stream[e] \in Order BY <1>1
<1>4. /\ seen["billing"] \in 0..Len(stream) /\ seen["notify"] \in 0..Len(stream)
      /\ pel["billing"] \in Seq(1..Len(stream)) /\ pel["notify"] \in Seq(1..Len(stream))
    BY <1>1, <1>2 DEF Group
<1>5. ASSUME NEW w \in Worker
      PROVE  /\ hand[w] \in Seq(1..Len(stream)) /\ (doing[w] = "none" <=> hand[w] = <<>>)
             /\ hand[w] # <<>> =>
                   /\ Head(hand[w]) \in 1..Len(stream) /\ Head(hand[w]) \in Range(hand[w])
                   /\ Taken(w) \in Order /\ Tail(hand[w]) \in Seq(1..Len(stream))
                   /\ Range(hand[w]) = Range(Tail(hand[w])) \cup {Head(hand[w])}
    <2>1. hand[w] \in Seq(1..Len(stream)) /\ (doing[w] = "none" <=> hand[w] = <<>>)
        BY <1>1, <1>2
    <2>2. CASE hand[w] # <<>>
        BY <1>3, <2>1, <2>2, TailHolds DEF Taken
    <2> QED BY <2>1, <2>2
<1> QED BY <1>2, <1>3, <1>4, <1>5

\* A worker takes up a list of entries of the stream.
LEMMA BeginTypes ==
    ASSUME StreamTypeOK, NEW w \in Worker, NEW s \in Seq(1..Len(stream)),
           Begin(w, s)
    PROVE  /\ hand' \in [Worker -> Seq(1..Len(stream))]
           /\ doing' \in [Worker -> {"none", "ask", "bill", "ack"}]
           /\ \A v \in Worker : (doing'[v] = "none") = (hand'[v] = <<>>)
           /\ hand'[w] = s /\ doing'[w] = (IF s = <<>> THEN "none" ELSE FirstTask(w))
           /\ \A v \in Worker \ {w} : hand'[v] = hand[v] /\ doing'[v] = doing[v]
<1>1. /\ hand \in [Worker -> Seq(1..Len(stream))]
      /\ doing \in [Worker -> {"none", "ask", "bill", "ack"}]
      /\ \A v \in Worker : (doing[v] = "none") = (hand[v] = <<>>)
    BY StreamFacts DEF StreamTypeOK
<1>2. /\ hand' = [hand EXCEPT ![w] = s]
      /\ doing' = [doing EXCEPT ![w] = IF s = <<>> THEN "none" ELSE FirstTask(w)]
    BY DEF Begin
<1> DEFINE q == IF s = <<>> THEN "none" ELSE FirstTask(w)
<1>3. q \in {"none", "ask", "bill", "ack"} /\ (q = "none" <=> s = <<>>)
    <2>1. FirstTask(w) \in {"ask", "bill", "ack"} BY DEF FirstTask, Worker, Biller
    <2> QED BY <2>1
<1>4. doing' = [doing EXCEPT ![w] = q] BY <1>2
<1> HIDE DEF q
<1>5. /\ hand' \in [Worker -> Seq(1..Len(stream))]
      /\ doing' \in [Worker -> {"none", "ask", "bill", "ack"}]
      /\ hand'[w] = s /\ doing'[w] = q
      /\ \A v \in Worker \ {w} : hand'[v] = hand[v] /\ doing'[v] = doing[v]
    BY <1>1, <1>2, <1>3, <1>4
<1>6. \A v \in Worker : (doing'[v] = "none") = (hand'[v] = <<>>) BY <1>1, <1>3, <1>5
<1> QED BY <1>5, <1>6 DEF q

\* The entries that are new to a group are the ones after the last it was given.
LEMMA NewHolds ==
    ASSUME StreamTypeOK, NEW g \in Group
    PROVE  /\ New(g) \in Seq(1..Len(stream))
           /\ Range(New(g)) = (seen[g] + 1)..Len(stream)
<1> DEFINE a == seen[g]  n == Len(stream)
<1>1. a \in Nat /\ n \in Nat /\ a <= n BY StreamFacts DEF Group
<1>2. New(g) = [i \in 1..(n - a) |-> a + i] BY DEF New
<1> HIDE DEF a, n
<1>3. n - a \in Nat /\ \A i \in 1..(n - a) : a + i \in 1..n BY <1>1
<1>4. New(g) \in Seq(1..n) /\ Len(New(g)) = n - a /\ \A i \in 1..(n - a) : New(g)[i] = a + i
    <2> DEFINE m == n - a
               s == New(g)
    <2>1. s \in [1..m -> 1..n] /\ \A i \in 1..m : s[i] = a + i BY <1>2, <1>3
    <2>2. m \in Nat BY <1>3
    <2> HIDE DEF m, s
    <2> DEFINE S == 1..n
    <2> HIDE DEF S
    <2>3. s \in Seq(S) /\ DOMAIN s = 1..m
        <3>1. s \in [1..m -> S] BY <2>1 DEF S
        <3> QED BY <2>2, <3>1
    <2>4. Len(s) = m BY <2>2, <2>3
    <2> QED BY <2>1, <2>3, <2>4 DEF m, s, S
<1>5. \A e : e \in Range(New(g)) <=> \E i \in 1..(n - a) : a + i = e BY <1>4, Held
<1>6. \A e \in (a + 1)..n : e - a \in 1..(n - a) /\ a + (e - a) = e BY <1>1
<1>7. \A i \in 1..(n - a) : a + i \in (a + 1)..n BY <1>1
<1>8. Range(New(g)) = (a + 1)..n BY <1>5, <1>6, <1>7
<1> QED BY <1>4, <1>8 DEF a, n

\* XREADGROUP keeps the types, and what it adds is pending.
LEMMA DeliverTypes ==
    ASSUME StreamTypeOK, NEW g \in Group, Deliver(g)
    PROVE  /\ seen' \in [Group -> 0..Len(stream)] /\ pel' \in [Group -> Seq(1..Len(stream))]
           /\ seen'[g] = Len(stream) /\ Range(pel'[g]) = Range(pel[g]) \cup Range(New(g))
           /\ \A h \in Group \ {g} : seen'[h] = seen[h] /\ pel'[h] = pel[h]
<1>1. /\ seen \in [Group -> 0..Len(stream)] /\ pel \in [Group -> Seq(1..Len(stream))]
      /\ Len(stream) \in Nat
    BY StreamFacts DEF StreamTypeOK
<1>2. seen' = [seen EXCEPT ![g] = Len(stream)] /\ pel' = [pel EXCEPT ![g] = @ \o New(g)]
    BY DEF Deliver
<1>3. /\ pel[g] \o New(g) \in Seq(1..Len(stream))
      /\ Range(pel[g] \o New(g)) = Range(pel[g]) \cup Range(New(g))
    BY <1>1, NewHolds, ConcatHolds
<1> HIDE DEF New
<1> QED BY <1>1, <1>2, <1>3

\* Every step of the stream keeps the types.
LEMMA StreamTypes == StreamTypeOK /\ [StreamNext]_streamVars => StreamTypeOK'
<1> SUFFICES ASSUME StreamTypeOK, [StreamNext]_streamVars PROVE StreamTypeOK' OBVIOUS
<1> USE FailsAssumption
<1>1. /\ stream \in Seq(Order) /\ seen \in [Group -> 0..Len(stream)]
      /\ pel \in [Group -> Seq(DOMAIN stream)] /\ hand \in [Worker -> Seq(DOMAIN stream)]
      /\ doing \in [Worker -> {"none", "ask", "bill", "ack"}]
      /\ \A w \in Worker : (doing[w] = "none") = (hand[w] = <<>>)
      /\ dedup \subseteq Order /\ unsure \subseteq Order /\ again \subseteq Order
      /\ billed \in [Order -> Nat] /\ claims \in 0..MaxClaims /\ fails \in 0..MaxFails
    BY DEF StreamTypeOK
<1>2. Len(stream) \in Nat /\ DOMAIN stream = 1..Len(stream) BY StreamFacts
<1>3. Failing => fails' \in 0..MaxFails BY <1>1 DEF Failing
<1>4. /\ "worker1" \in Worker /\ "worker2" \in Worker /\ "n1" \in Worker
      /\ "billing" \in Group /\ \A w \in Worker : GroupOf(w) \in Group
    BY DEF Worker, Biller, Group, GroupOf
<1>5. ASSUME NEW o \in Order, Place(o) PROVE StreamTypeOK'
    <2>1. /\ stream' = Append(stream, o) /\ fails' \in 0..MaxFails
          /\ UNCHANGED <<seen, pel, dedup, hand, doing, billed, claims, again, unsure>>
        BY <1>1, <1>3, <1>5 DEF Place
    <2>2. /\ stream' \in Seq(Order) /\ Len(stream') = Len(stream) + 1
          /\ DOMAIN stream' = 1..(Len(stream) + 1)
        BY <1>1, <1>2, <2>1
    <2>3. 1..Len(stream) \subseteq DOMAIN stream' /\ 0..Len(stream) \subseteq 0..Len(stream')
        BY <1>2, <2>2
    <2>4. \A s \in Seq(1..Len(stream)) : s \in Seq(DOMAIN stream')
        BY <2>3
    <2>5. /\ seen \in [Group -> 0..Len(stream')] /\ pel \in [Group -> Seq(DOMAIN stream')]
          /\ hand \in [Worker -> Seq(DOMAIN stream')]
        BY <1>1, <1>2, <2>3, <2>4
    <2> QED BY <1>1, <2>1, <2>2, <2>5 DEF StreamTypeOK
<1>6. ASSUME NEW w \in Worker, Read(w) PROVE StreamTypeOK'
    <2> DEFINE g == GroupOf(w)
    <2>1. /\ Deliver(g) /\ UNCHANGED <<stream, dedup, billed, claims, again, unsure>>
          /\ \/ Begin(w, New(g)) /\ UNCHANGED fails
             \/ Failing /\ UNCHANGED <<hand, doing>>
        BY <1>6 DEF Read
    <2>0. g \in Group BY <1>4
    <2> HIDE DEF g
    <2>2. seen' \in [Group -> 0..Len(stream)] /\ pel' \in [Group -> Seq(1..Len(stream))]
        BY <2>0, <2>1, DeliverTypes
    <2>3. /\ hand' \in [Worker -> Seq(1..Len(stream))]
          /\ doing' \in [Worker -> {"none", "ask", "bill", "ack"}]
          /\ \A v \in Worker : (doing'[v] = "none") = (hand'[v] = <<>>)
        <3>1. CASE Begin(w, New(g)) BY <2>0, <3>1, NewHolds, BeginTypes
        <3>2. CASE UNCHANGED <<hand, doing>> BY <1>1, <1>2, <3>2
        <3> QED BY <2>1, <3>1, <3>2
    <2>4. fails' \in 0..MaxFails BY <1>1, <1>3, <2>1
    <2> QED BY <1>1, <1>2, <2>1, <2>2, <2>3, <2>4 DEF StreamTypeOK
<1>7. ASSUME BillProcessed PROVE StreamTypeOK'
    <2> DEFINE o == Taken("worker1")
    <2>1. /\ doing["worker1"] = "ask"
          /\ doing' \in {[doing EXCEPT !["worker1"] = then] : then \in {"ack", "bill"}}
          /\ dedup' \in {dedup, dedup \cup {o}} /\ unsure' \in {unsure, unsure \cup {o}}
          /\ fails' \in 0..MaxFails
          /\ UNCHANGED <<stream, seen, pel, hand, billed, claims, again>>
        BY <1>1, <1>3, <1>7 DEF BillProcessed, Taken
    <2>2. o \in Order BY <1>4, <2>1, StreamFacts
    <2>3. /\ doing' \in [Worker -> {"none", "ask", "bill", "ack"}] /\ doing'["worker1"] # "none"
          /\ \A w \in Worker \ {"worker1"} : doing'[w] = doing[w]
        BY <1>1, <1>4, <2>1
    <2>4. \A w \in Worker : (doing'[w] = "none") = (hand'[w] = <<>>) BY <1>1, <2>1, <2>3
    <2>5. dedup' \subseteq Order /\ unsure' \subseteq Order BY <1>1, <2>1, <2>2
    <2> QED BY <1>1, <2>1, <2>3, <2>4, <2>5 DEF StreamTypeOK
<1>8. ASSUME NEW w \in Worker, Bill(w) PROVE StreamTypeOK'
    <2>1. /\ doing[w] = "bill" /\ doing' = [doing EXCEPT ![w] = "ack"]
          /\ billed' = [billed EXCEPT ![Taken(w)] = @ + 1]
          /\ UNCHANGED <<stream, seen, pel, dedup, hand, claims, again, unsure, fails>>
        BY <1>8 DEF Bill, Taken
    <2>2. Taken(w) \in Order BY <2>1, StreamFacts
    <2>3. /\ doing' \in [Worker -> {"none", "ask", "bill", "ack"}] /\ doing'[w] = "ack"
          /\ \A v \in Worker \ {w} : doing'[v] = doing[v]
        BY <1>1, <2>1
    <2>4. billed' \in [Order -> Nat] BY <1>1, <2>1, <2>2
    <2>5. \A v \in Worker : (doing'[v] = "none") = (hand'[v] = <<>>) BY <1>1, <2>1, <2>3
    <2> QED BY <1>1, <2>1, <2>3, <2>4, <2>5 DEF StreamTypeOK
<1>9. ASSUME NEW w \in Worker, XAck(w) PROVE StreamTypeOK'
    <2> DEFINE g == GroupOf(w)
    <2>1. /\ doing[w] = "ack" /\ Begin(w, Tail(hand[w]))
          /\ \/ /\ pel' = [pel EXCEPT ![g] = RemoveFirst(@, Head(hand[w]))]
                /\ UNCHANGED fails
             \/ Failing /\ UNCHANGED pel
          /\ UNCHANGED <<stream, seen, dedup, billed, claims, again, unsure>>
        BY <1>9 DEF XAck
    <2>2. Tail(hand[w]) \in Seq(1..Len(stream)) BY <2>1, StreamFacts
    <2>0. g \in Group BY <1>4
    <2> HIDE DEF g
    <2>3. /\ hand' \in [Worker -> Seq(1..Len(stream))]
          /\ doing' \in [Worker -> {"none", "ask", "bill", "ack"}]
          /\ \A v \in Worker : (doing'[v] = "none") = (hand'[v] = <<>>)
        BY <2>1, <2>2, BeginTypes
    <2>4. RemoveFirst(pel[g], Head(hand[w])) \in Seq(1..Len(stream))
        BY <2>0, StreamFacts, RemoveFirstHolds DEF Group
    <2>5. pel' \in [Group -> Seq(1..Len(stream))] BY <1>1, <1>2, <2>0, <2>1, <2>4
    <2>6. fails' \in 0..MaxFails BY <1>1, <1>3, <2>1
    <2> QED BY <1>1, <1>2, <2>1, <2>3, <2>5, <2>6 DEF StreamTypeOK
<1>10. ASSUME NEW w \in Worker, CrashAt(w) PROVE StreamTypeOK'
    <2>1. /\ hand' = [hand EXCEPT ![w] = <<>>] /\ doing' = [doing EXCEPT ![w] = "none"]
          /\ fails' \in 0..MaxFails
          /\ UNCHANGED <<stream, seen, pel, dedup, billed, claims, again, unsure>>
        BY <1>3, <1>10 DEF CrashAt, Begin
    <2>2. /\ hand' \in [Worker -> Seq(DOMAIN stream)]
          /\ doing' \in [Worker -> {"none", "ask", "bill", "ack"}]
          /\ \A v \in Worker : (doing'[v] = "none") = (hand'[v] = <<>>)
        BY <1>1, <2>1
    <2> QED BY <1>1, <2>1, <2>2 DEF StreamTypeOK
<1>11. ASSUME AutoClaim PROVE StreamTypeOK'
    <2>1. /\ Begin("worker2", pel["billing"]) /\ claims < MaxClaims /\ claims' = claims + 1
          /\ again' = again \cup {stream[e] : e \in Range(pel["billing"])}
          /\ UNCHANGED <<stream, seen, pel, dedup, billed, unsure, fails>>
        BY <1>11 DEF AutoClaim
    <2>2. pel["billing"] \in Seq(1..Len(stream)) BY StreamFacts
    <2>3. /\ hand' \in [Worker -> Seq(1..Len(stream))]
          /\ doing' \in [Worker -> {"none", "ask", "bill", "ack"}]
          /\ \A v \in Worker : (doing'[v] = "none") = (hand'[v] = <<>>)
        BY <1>4, <2>1, <2>2, BeginTypes
    <2>4. again' \subseteq Order
        <3>1. Range(pel["billing"]) \subseteq 1..Len(stream) BY <2>2, Held
        <3> QED BY <1>1, <2>1, <3>1, StreamFacts
    <2>5. claims' \in 0..MaxClaims BY <1>1, <2>1
    <2> QED BY <1>1, <1>2, <2>1, <2>3, <2>4, <2>5 DEF StreamTypeOK
<1>14. ASSUME UNCHANGED streamVars PROVE StreamTypeOK'
    BY <1>1, <1>14 DEF streamVars, StreamTypeOK
<1> QED BY <1>4, <1>5, <1>6, <1>7, <1>8, <1>9, <1>10, <1>11, <1>14
        DEF StreamNext, WorkOn, ReadBilling, ReadNotify

\* No order is in the stream yet.
LEMMA StreamStarts == StreamInit => StreamInv
<1> SUFFICES ASSUME StreamInit PROVE StreamInv OBVIOUS
<1>1. /\ stream = <<>> /\ seen = [g \in Group |-> 0] /\ pel = [g \in Group |-> <<>>]
      /\ hand = [w \in Worker |-> <<>>] /\ doing = [w \in Worker |-> "none"]
      /\ billed = [o \in Order |-> 0] /\ claims = 0 /\ again = {} /\ unsure = {} /\ fails = 0
      /\ dedup = {}
    BY DEF StreamInit
<1>2. /\ "worker1" \in Worker /\ "worker2" \in Worker /\ Biller \subseteq Worker
      /\ "billing" \in Group /\ "notify" \in Group
    BY DEF Worker, Biller, Group
<1>3. <<>> \in Seq(Order) /\ <<>> \in Seq(1..0) /\ Len(<<>>) = 0 /\ DOMAIN <<>> = 1..0 OBVIOUS
<1>4. StreamTypeOK
    <2>1. seen \in [Group -> 0..Len(stream)] BY <1>1, <1>3
    <2>2. pel \in [Group -> Seq(DOMAIN stream)] /\ hand \in [Worker -> Seq(DOMAIN stream)]
        BY <1>1, <1>3
    <2> QED BY <1>1, <1>3, <2>1, <2>2, FailsAssumption DEF StreamTypeOK
<1>5. /\ Range(pel["billing"]) = {} /\ \A w \in Worker : Range(hand[w]) = {} /\ doing[w] = "none"
    BY <1>1, <1>2, <1>3, Held
<1>6. HandsInv BY <1>2, <1>5 DEF HandsInv
<1>7. \A o \in Order : BilledBefore(o) BY <1>1, <1>2, <1>5 DEF BilledBefore
<1>8. \A o \in Order : Pending(o) BY <1>1, <1>3 DEF Pending, Entries
<1> QED BY <1>4, <1>6, <1>7, <1>8 DEF StreamInv

\* An order stays pending when no entry of it is acknowledged and the set is not asked for it.
LEMMA PendingStays ==
    ASSUME NEW o, Pending(o), stream' = stream, seen' = seen,
           o \in dedup' <=> o \in dedup,
           \A e \in Entries(o) : Kept(e) => Kept(e)',
           \A e \in Entries(o) : e \in Range(pel["billing"]) => e \in Range(pel'["billing"])
    PROVE  Pending(o)'
<1>1. Entries(o)' = Entries(o) BY DEF Entries
<1>2. o \in dedup' => \E e \in Entries(o) : Kept(e)' BY DEF Pending
<1>3. o \notin dedup' => \A e \in Entries(o) :
            e <= seen'["billing"] => e \in Range(pel'["billing"])
    BY DEF Pending
<1> QED BY <1>1, <1>2, <1>3 DEF Pending

\* Every step of the stream keeps the invariant.
LEMMA StreamSteps == StreamInv /\ [StreamNext]_streamVars => StreamInv'
<1> SUFFICES ASSUME StreamInv, [StreamNext]_streamVars PROVE StreamInv' OBVIOUS
<1> DEFINE w1 == "worker1"
           w2 == "worker2"
           p == Range(pel["billing"])
           pp == Range(pel'["billing"])
           n == seen["billing"]
<1>1. StreamTypeOK /\ StreamTypeOK' BY StreamTypes DEF StreamInv
<1>2. /\ Len(stream) \in Nat /\ n \in 0..Len(stream) /\ billed \in [Order -> Nat]
      /\ \A e \in 1..Len(stream) : stream[e] \in Order
      /\ pel["billing"] \in Seq(1..Len(stream)) /\ DOMAIN stream = 1..Len(stream)
    BY <1>1, StreamFacts DEF StreamTypeOK
<1>3. /\ w1 \in Biller /\ w2 \in Biller /\ w1 # w2 /\ \A w \in Biller : w = w1 \/ w = w2
      /\ \A w \in Biller : w \in Worker /\ GroupOf(w) = "billing"
      /\ "billing" \in Group /\ "notify" \in Group /\ "billing" # "notify"
      /\ FirstTask(w1) = "ask" /\ FirstTask(w2) = "bill"
      /\ "n1" \in Worker /\ w1 # "n1" /\ w2 # "n1" /\ GroupOf("n1") = "notify"
      /\ \A w \in Worker : w \in Biller \/ w = "n1"
    <2>1. w1 # w2 /\ w1 # "n1" /\ w2 # "n1" /\ "billing" # "notify" OBVIOUS
    <2>2. Biller = {w1, w2} /\ Worker = {w1, w2} \cup {"n1"} BY DEF Biller, Worker
    <2>3. FirstTask(w1) = "ask" BY DEF FirstTask
    <2>4. FirstTask(w2) = "bill" BY <2>1 DEF FirstTask
    <2>5. GroupOf("n1") = "notify" /\ \A w \in Biller : GroupOf(w) = "billing"
        BY <2>1, <2>2 DEF GroupOf
    <2>6. "billing" \in Group /\ "notify" \in Group BY DEF Group
    <2> HIDE DEF w1, w2
    <2> QED BY <2>1, <2>2, <2>3, <2>4, <2>5, <2>6
<1>4. /\ \A w \in Biller : Range(hand[w]) \subseteq 1..n
      /\ p \subseteq 1..n
      /\ doing[w2] # "ask" /\ \A e \in Range(hand[w2]) : stream[e] \in again
      /\ doing[w1] = "bill" => Taken(w1) \in dedup
      /\ doing[w1] = "ack" => Taken(w1) \in dedup \cup unsure
      /\ doing[w2] = "ack" => billed[Taken(w2)] > 0
    BY DEF StreamInv, HandsInv
<1>5. \A o \in Order \ again : BilledBefore(o) BY DEF StreamInv
<1>6. \A o \in Order \ unsure : billed[o] = 0 => Pending(o) BY DEF StreamInv
<1>7. \A w \in Biller : doing[w] # "none" =>
          /\ Head(hand[w]) \in Range(hand[w]) /\ Head(hand[w]) \in 1..n /\ Taken(w) \in Order
          /\ Head(hand[w]) \in 1..Len(stream) /\ hand[w] # <<>>
          /\ Range(hand[w]) = Range(Tail(hand[w])) \cup {Head(hand[w])}
          /\ Head(hand[w]) \in Entries(Taken(w))
    BY <1>1, <1>2, <1>3, <1>4, StreamFacts DEF Entries, Taken
<1>8. \A s : s = <<>> => Range(s) = {}
    BY Held, <<>> \in Seq({})
<1>9. \A o : \A e \in Entries(o) : e \in 1..Len(stream) /\ stream[e] = o BY <1>2 DEF Entries
<1> HIDE DEF w1, w2, p, pp, n
<1>a. /\ \A w \in Biller : Range(hand[w]) \subseteq 1..Len(stream)
      /\ p \subseteq 1..Len(stream)
    <2>1. 1..n \subseteq 1..Len(stream) BY <1>2
    <2> QED BY <1>4, <2>1
<1>10. ASSUME NEW o \in Order, Place(o) PROVE StreamInv'
    <2>1. /\ stream' = Append(stream, o)
          /\ UNCHANGED <<seen, pel, dedup, hand, doing, billed, claims, again, unsure>>
        BY <1>10 DEF Place
    <2>2. /\ Len(stream') = Len(stream) + 1 /\ DOMAIN stream' = 1..Len(stream')
          /\ \A e \in 1..Len(stream) : stream'[e] = stream[e]
        BY <1>1, <2>1 DEF StreamTypeOK
    <2>3. \A w \in Biller : doing[w] # "none" => Taken(w)' = Taken(w)
        BY <1>7, <2>1, <2>2 DEF Taken
    <2>4. \A w \in Biller : \A e \in Range(hand[w]) : stream'[e] = stream[e]
        BY <1>a, <2>2
    <2>5. HandsInv'
        BY <1>3, <1>4, <2>1, <2>3, <2>4 DEF HandsInv, w1, w2, p, n
    <2>6. ASSUME NEW q \in Order \ again' PROVE BilledBefore(q)'
        BY <1>3, <1>5, <2>1, <2>3, <2>6 DEF BilledBefore, w1
    <2>7. ASSUME NEW q \in Order \ unsure', billed'[q] = 0 PROVE Pending(q)'
        <3>1. Pending(q) BY <1>6, <2>1, <2>7
        <3>2. \A e : Kept(e) <=> Kept(e)' BY <2>1 DEF Kept
        <3>3. Entries(q) \subseteq Entries(q)' BY <1>2, <2>2 DEF Entries
        <3>4. \A e \in Entries(q)' : e <= n => e \in Entries(q)
            BY <1>2, <2>2 DEF Entries
        <3> QED BY <2>1, <3>1, <3>2, <3>3, <3>4 DEF Pending, n
    <2> QED BY <1>1, <2>5, <2>6, <2>7 DEF StreamInv
<1>11. ASSUME ReadBilling PROVE StreamInv'
    <2>1. /\ hand[w1] = <<>> /\ Deliver("billing")
          /\ UNCHANGED <<stream, dedup, billed, claims, again, unsure>>
          /\ \/ Begin(w1, New("billing"))
             \/ UNCHANGED <<hand, doing>>
        BY <1>3, <1>11 DEF ReadBilling, Read, w1
    <2>2. /\ seen'["billing"] = Len(stream) /\ pp = p \cup Range(New("billing"))
          /\ New("billing") \in Seq(1..Len(stream))
          /\ Range(New("billing")) = (n + 1)..Len(stream)
        BY <1>1, <1>3, <2>1, DeliverTypes, NewHolds DEF p, pp, n
    <2>3. /\ hand'[w2] = hand[w2] /\ doing'[w2] = doing[w2]
          /\ Range(hand'[w1]) \subseteq (n + 1)..Len(stream)
          /\ doing'[w1] \in {"none", "ask"}
        <3>1. CASE Begin(w1, New("billing"))
            BY <1>1, <1>3, <2>2, <3>1, BeginTypes
        <3>2. CASE UNCHANGED <<hand, doing>>
            BY <1>1, <1>3, <1>8, <2>1, <3>2, StreamFacts
        <3> QED BY <2>1, <3>1, <3>2
    <2> HIDE DEF New
    <2>4. \A w \in Biller : Range(hand'[w]) \subseteq 1..Len(stream)
        <3>1. (n + 1)..Len(stream) \subseteq 1..Len(stream) BY <1>2
        <3> QED BY <1>3, <1>a, <2>3, <3>1
    <2>5. pp \subseteq 1..Len(stream)
        <3>1. (n + 1)..Len(stream) \subseteq 1..Len(stream) BY <1>2
        <3> QED BY <1>a, <2>2, <3>1
    <2>6. Taken(w2)' = Taken(w2) BY <2>1, <2>3 DEF Taken
    <2>7. HandsInv' BY <1>3, <1>4, <2>1, <2>2, <2>3, <2>4, <2>5, <2>6 DEF HandsInv, w1, w2, pp
    <2>8. ASSUME NEW q \in Order \ again' PROVE BilledBefore(q)'
        BY <1>5, <2>1, <2>3, <2>8 DEF BilledBefore, w1
    <2>9. ASSUME NEW q \in Order \ unsure', billed'[q] = 0 PROVE Pending(q)'
        <3>1. Pending(q) BY <1>6, <2>1, <2>9
        <3>2. Entries(q)' = Entries(q) BY <2>1 DEF Entries
        <3>3. ASSUME NEW e, Kept(e) PROVE Kept(e)'
            <4>1. e \in p /\ e \in pp BY <2>2, <3>3 DEF Kept, p
            <4>2. e \in 1..n BY <1>4, <4>1
            <4>3. e \notin (n + 1)..Len(stream) BY <1>2, <4>2
            <4>4. e \notin Range(hand'[w1]) BY <2>3, <4>3
            <4> QED BY <4>1, <4>4 DEF Kept, pp, w1
        <3>4. ASSUME NEW e \in Entries(q), e \notin pp PROVE q \in dedup
            <4>1. e \in 1..Len(stream) BY <1>9
            <4>2. ~(e \in (n + 1)..Len(stream)) /\ e \notin p BY <2>2, <3>4
            <4>3. e <= n BY <1>2, <4>1, <4>2
            <4> QED BY <3>1, <4>2, <4>3 DEF Pending, p, n
        <3> QED BY <2>1, <3>1, <3>2, <3>3, <3>4 DEF Pending, pp
    <2> QED BY <1>1, <2>7, <2>8, <2>9 DEF StreamInv
<1>12. ASSUME BillProcessed PROVE StreamInv'
    <2> DEFINE o == Taken(w1)
    <2>1. /\ doing[w1] = "ask" /\ UNCHANGED <<stream, seen, pel, hand, billed, claims, again>>
          /\ \/ /\ doing' = [doing EXCEPT ![w1] = IF o \in dedup THEN "ack" ELSE "bill"]
                /\ dedup' = dedup \cup {o} /\ UNCHANGED unsure
             \/ /\ doing' = [doing EXCEPT ![w1] = "ack"]
                /\ dedup' \in {dedup, dedup \cup {o}} /\ unsure' = unsure \cup {o}
        BY <1>12 DEF BillProcessed, Taken, w1
    <2>2. /\ doing'[w2] = doing[w2] /\ doing'[w1] \in {"ack", "bill"}
          /\ doing'[w1] = "bill" => o \notin dedup /\ dedup' = dedup \cup {o} /\ UNCHANGED unsure
          /\ doing'[w1] = "ack" => o \in dedup' \cup unsure'
          /\ dedup \subseteq dedup' /\ dedup' \subseteq dedup \cup {o}
          /\ unsure \subseteq unsure'
          /\ o \in unsure' \/ (o \in dedup <=> doing'[w1] = "ack")
        BY <1>1, <1>3, <2>1 DEF StreamTypeOK
    <2>3. o \in Order /\ Taken(w1)' = o /\ Taken(w2)' = Taken(w2)
        BY <1>3, <1>7, <2>1 DEF Taken
    <2> HIDE DEF o
    <2>4. HandsInv'
        BY <1>3, <1>4, <2>1, <2>2, <2>3 DEF HandsInv, w1, w2, p, n
    <2>5. ASSUME NEW q \in Order \ again' PROVE BilledBefore(q)'
        <3>1. BilledBefore(q) /\ billed'[q] = billed[q] BY <1>5, <2>1, <2>5
        <3>2. doing'[w1] = "bill" /\ Taken(w1)' = q => billed'[q] = 0
            BY <2>2, <2>3, <3>1 DEF BilledBefore
        <3> QED BY <2>2, <3>1, <3>2 DEF BilledBefore, w1
    <2>6. ASSUME NEW q \in Order \ unsure', billed'[q] = 0 PROVE Pending(q)'
        <3>1. Pending(q) /\ q \notin unsure BY <1>6, <2>1, <2>2, <2>6
        <3>2. \A e : e \notin Range(hand[w1]) => (Kept(e) <=> Kept(e)') BY <2>1 DEF Kept, w1
        <3>3. \A e : Kept(e) => e \notin Range(hand[w1]) BY <2>1 DEF Kept, w1
        <3>4. CASE q \in dedup <=> q \in dedup'
            BY <2>1, <3>1, <3>2, <3>3, <3>4, PendingStays
        <3>5. CASE q \notin dedup /\ q \in dedup'
            <4>1. q = o /\ doing'[w1] = "bill" BY <2>2, <2>6, <3>5
            <4>0. PICK e : e = Head(hand[w1]) OBVIOUS
            <4>2. e \in Entries(q) /\ e \in 1..n BY <1>3, <1>7, <2>1, <4>0, <4>1 DEF o
            <4>3. e <= n BY <1>2, <4>2
            <4>4. e \in p BY <3>1, <3>5, <4>2, <4>3 DEF Pending, p, n
            <4>5. Kept(e)' /\ Entries(q)' = Entries(q)
                BY <2>1, <4>0, <4>1, <4>4 DEF Kept, Entries, p, w1
            <4> QED BY <3>5, <4>2, <4>5 DEF Pending
        <3> QED BY <2>2, <3>4, <3>5
    <2> QED BY <1>1, <2>4, <2>5, <2>6 DEF StreamInv
<1>13. ASSUME NEW w \in Biller, Bill(w) PROVE StreamInv'
    <2> DEFINE o == Taken(w)
    <2>1. /\ doing[w] = "bill" /\ doing' = [doing EXCEPT ![w] = "ack"]
          /\ billed' = [billed EXCEPT ![o] = @ + 1]
          /\ UNCHANGED <<stream, seen, pel, dedup, hand, claims, again, unsure>>
        BY <1>13 DEF Bill, Taken
    <2>2. o \in Order BY <1>7, <2>1
    <2>3. \A v : Taken(v)' = Taken(v) BY <2>1 DEF Taken
    <2>4. /\ doing'[w] = "ack" /\ \A v \in Biller \ {w} : doing'[v] = doing[v]
        BY <1>1, <2>1 DEF StreamTypeOK
    <2>5. Head(hand[w]) \in Range(hand[w]) /\ stream[Head(hand[w])] = o
        BY <1>7, <2>1 DEF Taken
    <2> HIDE DEF o
    <2>6. \A q \in Order : billed'[q] \in Nat /\ billed'[q] = IF q = o THEN billed[q] + 1 ELSE billed[q]
        BY <1>2, <2>1, <2>2
    <2>7. \A q \in Order : billed[q] > 0 => billed'[q] > 0
        <3> SUFFICES ASSUME NEW q \in Order, billed[q] > 0 PROVE billed'[q] > 0 OBVIOUS
        <3>1. billed[q] \in Nat /\ billed'[q] = IF q = o THEN billed[q] + 1 ELSE billed[q]
            BY <1>2, <2>6
        <3> QED BY <3>1
    <2>8. billed'[o] > 0
        <3>1. billed[o] \in Nat /\ billed'[o] = billed[o] + 1 BY <1>2, <2>2, <2>6
        <3> QED BY <3>1
    <2>9. HandsInv'
        <3>1. doing'[w2] = "ack" => billed'[Taken(w2)] > 0
            <4>1. CASE w = w2 BY <2>8, <4>1 DEF o
            <4>2. CASE w # w2
                <5> SUFFICES ASSUME doing'[w2] = "ack" PROVE billed'[Taken(w2)] > 0 OBVIOUS
                <5>1. doing[w2] = "ack" BY <1>3, <2>4, <4>2
                <5>2. Taken(w2) \in Order /\ billed[Taken(w2)] > 0 BY <1>3, <1>4, <1>7, <5>1
                <5> QED BY <2>7, <5>2
            <4> QED BY <4>1, <4>2
        <3>2. doing'[w1] = "ack" => Taken(w1) \in dedup \cup unsure
            BY <1>3, <1>4, <2>1, <2>4
        <3>3. doing'[w2] # "ask" BY <1>3, <1>4, <2>4
        <3>4. doing'[w1] = "bill" => Taken(w1) \in dedup BY <1>3, <1>4, <2>4
        <3> QED BY <1>3, <1>4, <2>1, <2>3, <3>1, <3>2, <3>3, <3>4 DEF HandsInv, w1, w2, p, n
    <2>10. ASSUME NEW q \in Order \ again' PROVE BilledBefore(q)'
        <3>1. BilledBefore(q) BY <1>5, <2>1, <2>10
        <3>2. CASE q # o
            <4>1. billed'[q] = billed[q] BY <2>6, <3>2
            <4>2. doing'[w1] = "bill" => doing[w1] = "bill" BY <1>3, <2>4
            <4> QED BY <2>1, <2>3, <3>1, <4>1, <4>2 DEF BilledBefore, w1
        <3>3. CASE q = o
            <4>1. w = w1 BY <1>3, <1>4, <2>1, <2>5, <2>10, <3>3
            <4>2. o \in dedup /\ billed[o] = 0
                BY <1>4, <2>1, <3>1, <3>3, <4>1 DEF BilledBefore, o, w1
            <4>3. billed'[q] = 1 BY <2>6, <3>3, <4>2
            <4>4. doing'[w1] = "ack" BY <2>4, <4>1
            <4> QED BY <2>1, <3>3, <4>2, <4>3, <4>4 DEF BilledBefore, w1
        <3> QED BY <3>2, <3>3
    <2>11. ASSUME NEW q \in Order \ unsure', billed'[q] = 0 PROVE Pending(q)'
        <3>1. billed[q] = 0 /\ q # o
            <4>1. q # o BY <2>8, <2>11
            <4> QED BY <2>6, <2>11, <4>1
        <3>2. Pending(q) BY <1>6, <2>1, <2>11, <3>1
        <3>3. ASSUME NEW e \in Entries(q), Kept(e) PROVE Kept(e)'
            <4>1. CASE w = w1
                <5>1. e # Head(hand[w1]) BY <1>9, <2>5, <3>1, <4>1
                <5>2. e \notin Range(hand[w1]) BY <3>3, <5>1 DEF Kept, w1
                <5> QED BY <2>1, <3>3, <5>2 DEF Kept, w1
            <4>2. CASE w # w1
                <5>1. doing'[w1] = doing[w1] BY <1>3, <2>4, <4>2
                <5> QED BY <2>1, <3>3, <5>1 DEF Kept, w1
            <4> QED BY <4>1, <4>2
        <3> QED BY <2>1, <3>2, <3>3, PendingStays
    <2> QED BY <1>1, <2>9, <2>10, <2>11 DEF StreamInv
<1>14. ASSUME NEW w \in Biller, XAck(w) PROVE StreamInv'
    <2> DEFINE h == Head(hand[w])
    <2>1. /\ doing[w] = "ack" /\ Begin(w, Tail(hand[w]))
          /\ \/ pel' = [pel EXCEPT !["billing"] = RemoveFirst(@, h)]
             \/ UNCHANGED pel
          /\ UNCHANGED <<stream, seen, dedup, billed, claims, again, unsure>>
        BY <1>3, <1>14 DEF XAck
    <2>2. /\ FirstTask(w) \in {"ask", "bill"} /\ (FirstTask(w) = "ask" <=> w = w1)
          /\ Tail(hand[w]) \in Seq(1..Len(stream))
        BY <1>1, <1>3, <1>7, <2>1, StreamFacts
    <2>3. /\ hand'[w] = Tail(hand[w]) /\ doing'[w] \in {"none", FirstTask(w)}
          /\ \A v \in Biller \ {w} : hand'[v] = hand[v] /\ doing'[v] = doing[v]
        BY <1>1, <1>3, <2>1, <2>2, BeginTypes
    <2>4. pp \subseteq p /\ p \ {h} \subseteq pp
        <3>1. CASE UNCHANGED pel BY <3>1 DEF p, pp
        <3>2. CASE pel' = [pel EXCEPT !["billing"] = RemoveFirst(@, h)]
            <4>1. pel'["billing"] = RemoveFirst(pel["billing"], h)
                BY <1>1, <1>3, <3>2 DEF StreamTypeOK
            <4> HIDE DEF h
            <4> QED BY <1>2, <4>1, RemoveFirstHolds DEF p, pp
        <3> QED BY <2>1, <3>1, <3>2
    <2>5. h \in Range(hand[w]) /\ stream[h] = Taken(w) BY <1>7, <2>1 DEF Taken
    <2>6. \A v \in Biller : Range(hand'[v]) \subseteq Range(hand[v])
        BY <1>3, <1>7, <2>1, <2>3
    <2>7. \A v \in Biller \ {w} : Taken(v)' = Taken(v) BY <2>1, <2>3 DEF Taken
    <2> HIDE DEF h
    <2>8. HandsInv'
        <3>1. /\ doing'[w1] = "bill" => Taken(w1)' \in dedup
              /\ doing'[w1] = "ack" => Taken(w1)' \in dedup \cup unsure
            BY <1>3, <1>4, <2>2, <2>3, <2>7
        <3>2. doing'[w2] # "ask" /\ (doing'[w2] = "ack" => billed[Taken(w2)'] > 0)
            BY <1>3, <1>4, <2>2, <2>3, <2>7
        <3>3. /\ \A v \in Biller : Range(hand'[v]) \subseteq 1..n
              /\ pp \subseteq 1..n /\ \A e \in Range(hand'[w2]) : stream[e] \in again
            BY <1>3, <1>4, <2>4, <2>6
        <3> QED BY <2>1, <3>1, <3>2, <3>3 DEF HandsInv, w1, w2, pp, n
    <2>9. ASSUME NEW q \in Order \ again' PROVE BilledBefore(q)'
        <3>1. BilledBefore(q) BY <1>5, <2>1, <2>9
        <3>2. doing'[w1] = "bill" => w # w1 /\ doing[w1] = "bill" /\ Taken(w1)' = Taken(w1)
            BY <1>3, <2>2, <2>3, <2>7
        <3> QED BY <2>1, <3>1, <3>2 DEF BilledBefore, w1
    <2>10. ASSUME NEW q \in Order \ unsure', billed'[q] = 0 PROVE Pending(q)'
        <3>1. Pending(q) /\ billed[q] = 0 BY <1>6, <2>1, <2>10
        <3>2. CASE w = w1
            <4>1. ASSUME NEW e \in Entries(q), Kept(e) PROVE Kept(e)'
                <5>1. e \notin Range(hand[w1]) BY <2>1, <3>2, <4>1 DEF Kept, w1
                <5>2. e # h /\ e \notin Range(hand'[w1]) BY <2>5, <2>6, <3>2, <5>1
                <5>3. e \in pp BY <2>4, <4>1, <5>2 DEF Kept, p
                <5> QED BY <5>2, <5>3 DEF Kept, pp, w1
            <4>2. q \notin dedup => \A e \in Entries(q) : e # h
                BY <1>4, <1>9, <2>1, <2>5, <2>10, <3>2
            <4>3. ASSUME NEW e \in Entries(q), e \in p, q \notin dedup PROVE e \in pp
                BY <2>4, <4>2, <4>3
            <4>4. Entries(q)' = Entries(q) BY <2>1 DEF Entries
            <4> QED BY <2>1, <3>1, <4>1, <4>3, <4>4 DEF Pending, p, pp
        <3>3. CASE w = w2
            <4>1. billed[Taken(w2)] > 0 BY <1>4, <2>1, <3>3
            <4>2. Taken(w2) # q BY <3>1, <4>1
            <4>3. \A e \in Entries(q) : e # h BY <1>9, <2>5, <3>3, <4>2
            <4>4. hand'[w1] = hand[w1] /\ doing'[w1] = doing[w1] BY <1>3, <2>3, <3>3
            <4>5. \A e \in Entries(q) : Kept(e) => Kept(e)'
                BY <2>4, <4>3, <4>4 DEF Kept, p, pp, w1
            <4>6. \A e \in Entries(q) : e \in p => e \in pp BY <2>4, <4>3
            <4> QED BY <2>1, <3>1, <4>5, <4>6, PendingStays DEF p, pp
        <3> QED BY <1>3, <3>2, <3>3
    <2> QED BY <1>1, <2>8, <2>9, <2>10 DEF StreamInv
<1>15. ASSUME NEW w \in Biller, CrashAt(w) PROVE StreamInv'
    <2>1. /\ hand'[w] = <<>> /\ doing'[w] = "none"
          /\ \A v \in Biller \ {w} : hand'[v] = hand[v] /\ doing'[v] = doing[v]
          /\ UNCHANGED <<stream, seen, pel, dedup, billed, claims, again, unsure>>
        BY <1>1, <1>15 DEF CrashAt, Begin, StreamTypeOK
    <2>2. Range(hand'[w]) = {} BY <1>8, <2>1
    <2>3. \A v \in Biller \ {w} : Taken(v)' = Taken(v) BY <2>1 DEF Taken
    <2>4. HandsInv'
        <3>1. \A v \in Biller : v # w => Range(hand'[v]) = Range(hand[v]) BY <2>1
        <3>2. /\ doing'[w1] = "bill" => Taken(w1)' \in dedup
              /\ doing'[w1] = "ack" => Taken(w1)' \in dedup \cup unsure
              /\ doing'[w2] # "ask" /\ (doing'[w2] = "ack" => billed[Taken(w2)'] > 0)
            BY <1>3, <1>4, <2>1, <2>3
        <3>3. /\ \A v \in Biller : Range(hand'[v]) \subseteq 1..n
              /\ \A e \in Range(hand'[w2]) : stream[e] \in again
            BY <1>3, <1>4, <2>2, <3>1
        <3> QED BY <1>4, <2>1, <3>2, <3>3 DEF HandsInv, w1, w2, p, n
    <2>5. ASSUME NEW q \in Order \ again' PROVE BilledBefore(q)'
        <3>1. BilledBefore(q) BY <1>5, <2>1, <2>5
        <3>2. doing'[w1] = "bill" => doing[w1] = "bill" /\ Taken(w1)' = Taken(w1)
            BY <1>3, <2>1, <2>3
        <3> QED BY <2>1, <3>1, <3>2 DEF BilledBefore, w1
    <2>6. ASSUME NEW q \in Order \ unsure', billed'[q] = 0 PROVE Pending(q)'
        <3>1. Pending(q) BY <1>6, <2>1, <2>6
        <3>2. \A e : Kept(e) => Kept(e)' BY <1>3, <2>1, <2>2 DEF Kept, w1
        <3> QED BY <2>1, <3>1, <3>2, PendingStays
    <2> QED BY <1>1, <2>4, <2>5, <2>6 DEF StreamInv
<1>16. ASSUME AutoClaim PROVE StreamInv'
    <2>1. /\ Begin(w2, pel["billing"])
          /\ again' = again \cup {stream[e] : e \in p}
          /\ UNCHANGED <<stream, seen, pel, dedup, billed, unsure>>
        BY <1>16 DEF AutoClaim, w2, p
    <2>2. /\ hand'[w2] = pel["billing"] /\ doing'[w2] \in {"none", "bill"}
          /\ hand'[w1] = hand[w1] /\ doing'[w1] = doing[w1]
        BY <1>1, <1>2, <1>3, <2>1, BeginTypes
    <2>3. Taken(w1)' = Taken(w1) BY <2>1, <2>2 DEF Taken
    <2>4. HandsInv'
        BY <1>3, <1>4, <2>1, <2>2, <2>3 DEF HandsInv, w1, w2, p, n
    <2>5. ASSUME NEW q \in Order \ again' PROVE BilledBefore(q)'
        BY <1>5, <2>1, <2>2, <2>3, <2>5 DEF BilledBefore, w1
    <2>6. ASSUME NEW q \in Order \ unsure', billed'[q] = 0 PROVE Pending(q)'
        <3>1. Pending(q) BY <1>6, <2>1, <2>6
        <3>2. \A e : Kept(e) => Kept(e)' BY <2>1, <2>2 DEF Kept, w1
        <3> QED BY <2>1, <3>1, <3>2, PendingStays
    <2> QED BY <1>1, <2>4, <2>5, <2>6 DEF StreamInv
\* The notify group, and the rest of the system.
<1>17. ASSUME seen'["billing"] = n, pel'["billing"] = pel["billing"],
              \A w \in Biller : hand'[w] = hand[w] /\ doing'[w] = doing[w],
              UNCHANGED <<stream, dedup, billed, again, unsure>>
       PROVE  StreamInv'
    <2>1. HandsInv' BY <1>3, <1>4, <1>17 DEF HandsInv, Taken, w1, w2, p, n
    <2>2. \A q \in Order \ again' : BilledBefore(q)'
        BY <1>3, <1>5, <1>17 DEF BilledBefore, Taken, w1
    <2>3. ASSUME NEW q \in Order \ unsure', billed'[q] = 0 PROVE Pending(q)'
        <3>1. Pending(q) BY <1>6, <1>17, <2>3
        <3> QED BY <1>3, <1>17, <3>1 DEF Pending, Kept, Entries, n, w1
    <2> QED BY <1>1, <2>1, <2>2, <2>3 DEF StreamInv
<1>b. \A w \in Biller : w \in Worker \ {"n1"} BY <1>3
<1>18. ASSUME ReadNotify PROVE StreamInv'
    <2>1. /\ Deliver("notify") /\ UNCHANGED <<stream, dedup, billed, again, unsure>>
          /\ Begin("n1", New("notify")) \/ UNCHANGED <<hand, doing>>
        BY <1>3, <1>18 DEF ReadNotify, Read
    <2>2. seen'["billing"] = n /\ pel'["billing"] = pel["billing"]
        BY <1>1, <1>3, <2>1, DeliverTypes DEF n
    <2>3. \A w \in Biller : hand'[w] = hand[w] /\ doing'[w] = doing[w]
        <3>1. CASE Begin("n1", New("notify"))
            BY <1>1, <1>3, <1>b, <3>1, NewHolds, BeginTypes
        <3> QED BY <2>1, <3>1
    <2> QED BY <1>17, <2>1, <2>2, <2>3
<1>19. ASSUME XAck("n1") \/ CrashAt("n1") PROVE StreamInv'
    <2>1. /\ hand["n1"] # <<>>
          /\ Begin("n1", Tail(hand["n1"])) \/ Begin("n1", <<>>)
          /\ \/ pel' = [pel EXCEPT !["notify"] = RemoveFirst(@, Head(hand["n1"]))]
             \/ UNCHANGED pel
          /\ UNCHANGED <<stream, seen, dedup, billed, again, unsure>>
        BY <1>1, <1>3, <1>19, StreamFacts DEF XAck, CrashAt
    <2>2. Tail(hand["n1"]) \in Seq(1..Len(stream)) /\ <<>> \in Seq(1..Len(stream))
        BY <1>1, <1>3, <2>1, StreamFacts
    <2>3. \A w \in Biller : hand'[w] = hand[w] /\ doing'[w] = doing[w]
        <3>1. ASSUME NEW t \in Seq(1..Len(stream)), Begin("n1", t)
              PROVE  \A w \in Worker \ {"n1"} : hand'[w] = hand[w] /\ doing'[w] = doing[w]
            BY <1>1, <1>3, <3>1, BeginTypes
        <3> QED BY <1>b, <2>1, <2>2, <3>1
    <2>4. pel'["billing"] = pel["billing"] BY <1>1, <1>3, <2>1 DEF StreamTypeOK
    <2> QED BY <1>17, <2>1, <2>3, <2>4 DEF n
<1>20. ASSUME UNCHANGED streamVars PROVE StreamInv' BY <1>17, <1>20 DEF streamVars, n
<1> QED BY <1>3, <1>10, <1>11, <1>12, <1>13, <1>14, <1>15, <1>16, <1>18, <1>19, <1>20
        DEF StreamNext, WorkOn

\* The inductive invariant of the order stream: what is pending, in hand, in the set and
\* billed (XREADGROUP, billProcessed, XACK, XAUTOCLAIM).
THEOREM StreamInvariant == StreamSpec => []StreamInv
BY StreamStarts, StreamSteps, PTL DEF StreamSpec

\* Who is acknowledged is not pending any more, so it was billed.
LEMMA StreamInvFaithful == StreamInv => BillingFaithful
<1> SUFFICES ASSUME StreamInv, NEW o \in Order
    PROVE  /\ Entries(o) # {} /\ Acknowledged("billing", o) /\ o \notin unsure => billed[o] > 0
           /\ o \notin again => billed[o] <= 1
    BY DEF BillingFaithful
<1>1. billed[o] \in Nat BY DEF StreamInv, StreamTypeOK
<1>2. ASSUME Entries(o) # {}, Acknowledged("billing", o), o \notin unsure PROVE billed[o] > 0
    <2>1. billed[o] # 0
        <3> SUFFICES ASSUME billed[o] = 0 PROVE FALSE OBVIOUS
        <3>1. Pending(o) BY <1>2 DEF StreamInv
        <3>2. \A e \in Entries(o) : e <= seen["billing"] /\ e \notin Range(pel["billing"])
            BY <1>2 DEF Acknowledged
        <3> QED BY <1>2, <3>1, <3>2 DEF Pending, Kept
    <2> QED BY <1>1, <2>1
<1>3. o \notin again => billed[o] <= 1 BY DEF StreamInv, BilledBefore
<1> QED BY <1>2, <1>3

\* Crashes, lost answers, a second entry and a claim lose no order that is acknowledged, and
\* only a claim bills one again.
THEOREM BillingFaithfulHolds == StreamSpec => []BillingFaithful
BY StreamInvariant, StreamInvFaithful, PTL

-----------------------------------------------------------------------------
(* The delay queue. *)

\* The pickers that have run j and did not remove it yet, and those about to run it.
Ran(j) == {p \in Picker : picked[p] = j /\ executed[p]}
ToRun(j) == {p \in Picker : picked[p] = j /\ ~executed[p]}

\* While a job is in the set every run of it but those that ended in a mishap belongs to a
\* picker that still holds it; once it is removed only those who hold it can run it again.
DelayInv ==
    /\ DelayTypeOK
    /\ \A p \in Picker : executed[p] => picked[p] \in DelayJob /\ count[picked[p]] > 0
    /\ \A j \in DelayJob :
        /\ score[j] = Gone =>
              count[j] > 0 /\ count[j] + Cardinality(ToRun(j)) <= Cardinality(Picker) + mishaps
        /\ score[j] # Gone => count[j] <= Cardinality(Ran(j)) + mishaps

\* The pickers that hold a job are finitely many, and none has run it and is about to.
LEMMA PickersCounted ==
    ASSUME NEW j
    PROVE  /\ IsFiniteSet(Ran(j)) /\ IsFiniteSet(ToRun(j))
           /\ Cardinality(Ran(j)) \in Nat /\ Cardinality(ToRun(j)) \in Nat
           /\ Cardinality(Picker) \in Nat
           /\ Cardinality(Ran(j)) + Cardinality(ToRun(j)) <= Cardinality(Picker)
<1>1. Ran(j) \in SUBSET Picker /\ ToRun(j) \in SUBSET Picker /\ Ran(j) \cap ToRun(j) = {}
    BY DEF Ran, ToRun
<1>2. IsFiniteSet(Ran(j)) /\ IsFiniteSet(ToRun(j))
    BY <1>1, PickerAssumption, FS_Subset
<1> QED BY <1>1, <1>2, PickerAssumption, CountParts

\* Every step keeps the types.
LEMMA DelayTypeStep == DelayTypeOK /\ [DelayNext]_delayVars => DelayTypeOK'
<1> SUFFICES ASSUME DelayTypeOK, [DelayNext]_delayVars PROVE DelayTypeOK'
    OBVIOUS
<1> USE MishapsAssumption DEF DelayTypeOK, Mishap, PutDown, Gone
<1>1. CASE DelayTick BY <1>1 DEF DelayTick
<1>2. ASSUME NEW p \in Picker, PickFirst(p) PROVE DelayTypeOK' BY <1>2 DEF PickFirst, Due
<1>3. ASSUME NEW p \in Picker, Perform(p) PROVE DelayTypeOK' BY <1>3 DEF Perform
<1>4. ASSUME NEW p \in Picker, RemoveJob(p) PROVE DelayTypeOK' BY <1>4 DEF RemoveJob
<1>5. ASSUME NEW p \in Picker, CrashPicker(p) PROVE DelayTypeOK' BY <1>5 DEF CrashPicker
<1>6. CASE UNCHANGED delayVars BY <1>6 DEF delayVars
<1> QED BY <1>1, <1>2, <1>3, <1>4, <1>5, <1>6 DEF DelayNext

\* A step of p changes the two sets in p at most.
LEMMA PickerMoves ==
    ASSUME NEW p \in Picker, NEW j,
           \A q \in Picker \ {p} : picked'[q] = picked[q] /\ executed'[q] = executed[q]
    PROVE  /\ Cardinality(Ran(j)') = Cardinality(Ran(j))
                 + (IF p \in Ran(j)' THEN 1 ELSE 0) - (IF p \in Ran(j) THEN 1 ELSE 0)
           /\ Cardinality(ToRun(j)') = Cardinality(ToRun(j))
                 + (IF p \in ToRun(j)' THEN 1 ELSE 0) - (IF p \in ToRun(j) THEN 1 ELSE 0)
<1>1. Ran(j) \ {p} = Ran(j)' \ {p} BY Zenon DEF Ran
<1>2. ToRun(j) \ {p} = ToRun(j)' \ {p} BY Zenon DEF ToRun
<1> QED BY <1>1, <1>2, PickersCounted, OneDiffers

\* The sums of DelayInv: n runs of a job that r pickers ran and t are about to run, of k
\* pickers, after m mishaps.
LEMMA DelaySums ==
    ASSUME NEW n \in Nat, NEW r \in Nat, NEW t \in Nat, NEW k \in Nat, NEW m \in Nat,
           r + t <= k
    PROVE  /\ n <= r + m => n + t <= k + m /\ n <= r + (m + 1) /\ n <= r - 1 + (m + 1)
                            /\ n + 1 <= r + 1 + m
           /\ n + t <= k + m => /\ n + t <= k + (m + 1) /\ n + (t - 1) <= k + (m + 1)
                                /\ n + 1 + (t - 1) <= k + m
OBVIOUS

\* A picker that has run a job holds it, and the job was run.
LEMMA RanStep ==
    ASSUME DelayInv, [DelayNext]_delayVars, NEW q \in Picker, executed'[q]
    PROVE  picked'[q] \in DelayJob /\ count'[picked'[q]] > 0
<1> USE PickerAssumption DEF DelayInv, DelayTypeOK, Mishap, PutDown
<1>1. CASE DelayTick BY <1>1 DEF DelayTick
<1>2. ASSUME NEW p \in Picker, PickFirst(p)
      PROVE  picked'[q] \in DelayJob /\ count'[picked'[q]] > 0
    BY <1>2 DEF PickFirst
<1>3. ASSUME NEW p \in Picker, Perform(p)
      PROVE  picked'[q] \in DelayJob /\ count'[picked'[q]] > 0
    BY <1>3 DEF Perform
<1>4. ASSUME NEW p \in Picker, RemoveJob(p)
      PROVE  picked'[q] \in DelayJob /\ count'[picked'[q]] > 0
    BY <1>4 DEF RemoveJob
<1>5. ASSUME NEW p \in Picker, CrashPicker(p)
      PROVE  picked'[q] \in DelayJob /\ count'[picked'[q]] > 0
    BY <1>5 DEF CrashPicker
<1>6. CASE UNCHANGED delayVars BY <1>6 DEF delayVars
<1> QED BY <1>1, <1>2, <1>3, <1>4, <1>5, <1>6 DEF DelayNext

\* Every step keeps what DelayInv counts for a job.
LEMMA CountedStep ==
    ASSUME DelayInv, [DelayNext]_delayVars, NEW j \in DelayJob
    PROVE  /\ score'[j] = Gone =>
                 /\ count'[j] > 0
                 /\ count'[j] + Cardinality(ToRun(j)') <= Cardinality(Picker) + mishaps'
           /\ score'[j] # Gone => count'[j] <= Cardinality(Ran(j)') + mishaps'
<1> DEFINE Removed ==
              score'[j] = Gone =>
                 /\ count'[j] > 0
                 /\ count'[j] + Cardinality(ToRun(j)') <= Cardinality(Picker) + mishaps'
           Present == score'[j] # Gone => count'[j] <= Cardinality(Ran(j)') + mishaps'
<1>a. DelayTypeOK /\ DelayTypeOK'
    BY DelayTypeStep DEF DelayInv
<1>b. /\ count[j] \in Nat /\ count'[j] \in Nat /\ mishaps \in Nat /\ mishaps' \in Nat
      /\ \A q \in Picker : (executed[q] \in BOOLEAN) /\ (executed[q] => picked[q] # "none")
    BY <1>a, PickerAssumption, MishapsAssumption DEF DelayTypeOK, DelayInv
<1>c. /\ Cardinality(Ran(j)) \in Nat /\ Cardinality(ToRun(j)) \in Nat
      /\ Cardinality(Picker) \in Nat
      /\ Cardinality(Ran(j)) + Cardinality(ToRun(j)) <= Cardinality(Picker)
    BY PickersCounted
<1>d. /\ score[j] = Gone => /\ count[j] > 0
                            /\ count[j] + Cardinality(ToRun(j)) <= Cardinality(Picker) + mishaps
      /\ score[j] # Gone => count[j] <= Cardinality(Ran(j)) + mishaps
    BY DEF DelayInv
<1>e. /\ score[j] = Gone =>
            /\ count[j] + Cardinality(ToRun(j)) <= Cardinality(Picker) + (mishaps + 1)
            /\ count[j] + (Cardinality(ToRun(j)) - 1) <= Cardinality(Picker) + (mishaps + 1)
            /\ count[j] + 1 + (Cardinality(ToRun(j)) - 1) <= Cardinality(Picker) + mishaps
      /\ score[j] # Gone =>
            /\ count[j] + Cardinality(ToRun(j)) <= Cardinality(Picker) + mishaps
            /\ count[j] <= Cardinality(Ran(j)) + (mishaps + 1)
            /\ count[j] <= Cardinality(Ran(j)) - 1 + (mishaps + 1)
            /\ count[j] + 1 <= Cardinality(Ran(j)) + 1 + mishaps
    BY <1>b, <1>c, <1>d, DelaySums
<1>1. CASE UNCHANGED <<score, picked, executed, count, mishaps>>
    <2>1. Ran(j)' = Ran(j) /\ ToRun(j)' = ToRun(j) BY <1>1 DEF Ran, ToRun
    <2> QED BY <1>1, <1>d, <2>1
<1>2. ASSUME NEW p \in Picker, PickFirst(p) PROVE Removed /\ Present
    <2>1. score'[j] = score[j] /\ count'[j] = count[j] /\ mishaps' = mishaps
        BY <1>2 DEF PickFirst
    <2>2. Ran(j)' = Ran(j)
        BY <1>2, <1>a, <1>b DEF PickFirst, Ran, DelayTypeOK
    <2>3. score[j] = Gone => ToRun(j)' = ToRun(j)
        BY <1>2, <1>a, MishapsAssumption, PickerAssumption
           DEF PickFirst, ToRun, DelayTypeOK, Due, Gone
    <2> QED BY <1>d, <2>1, <2>2, <2>3
<1>m. ASSUME NEW p \in Picker,
             \A q \in Picker \ {p} : picked'[q] = picked[q] /\ executed'[q] = executed[q]
      PROVE  /\ Cardinality(Ran(j)') = Cardinality(Ran(j))
                   + (IF p \in Ran(j)' THEN 1 ELSE 0) - (IF p \in Ran(j) THEN 1 ELSE 0)
             /\ Cardinality(ToRun(j)') = Cardinality(ToRun(j))
                   + (IF p \in ToRun(j)' THEN 1 ELSE 0) - (IF p \in ToRun(j) THEN 1 ELSE 0)
    BY <1>m, PickerMoves
<1>3. ASSUME NEW p \in Picker, Perform(p) PROVE Removed /\ Present
    <2>1. /\ \A q \in Picker \ {p} : picked'[q] = picked[q] /\ executed'[q] = executed[q]
          /\ picked'[p] = picked[p] /\ executed'[p] = TRUE /\ ~executed[p]
        BY <1>3, <1>a DEF Perform, DelayTypeOK
    <2>2. score'[j] = score[j] /\ mishaps' = mishaps BY <1>3 DEF Perform
    <2>3. CASE picked[p] = j
        <3>1. /\ p \in Ran(j)' /\ p \notin Ran(j) /\ p \notin ToRun(j)' /\ p \in ToRun(j)
            BY <2>1, <2>3 DEF Ran, ToRun
        <3>2. count'[j] = count[j] + 1
            BY <1>3, <1>a, <2>3 DEF Perform, DelayTypeOK
        <3>3. /\ Cardinality(Ran(j)') = Cardinality(Ran(j)) + 1
              /\ Cardinality(ToRun(j)') = Cardinality(ToRun(j)) - 1
            BY <1>c, <1>m, <2>1, <3>1
        <3> QED BY <1>b, <1>c, <1>e, <2>2, <3>2, <3>3
    <2>4. CASE picked[p] # j
        <3>1. /\ p \notin Ran(j)' /\ p \notin Ran(j) /\ p \notin ToRun(j)' /\ p \notin ToRun(j)
            BY <2>1, <2>4 DEF Ran, ToRun
        <3>2. count'[j] = count[j]
            BY <1>3, <1>a, <2>4 DEF Perform, DelayTypeOK
        <3>3. /\ Cardinality(Ran(j)') = Cardinality(Ran(j))
              /\ Cardinality(ToRun(j)') = Cardinality(ToRun(j))
            BY <1>c, <1>m, <2>1, <3>1
        <3> QED BY <1>d, <2>2, <3>2, <3>3
    <2> QED BY <2>3, <2>4
<1>p. ASSUME NEW p \in Picker, PutDown(p)
      PROVE  /\ Cardinality(Ran(j)') = Cardinality(Ran(j)) - (IF p \in Ran(j) THEN 1 ELSE 0)
             /\ Cardinality(ToRun(j)') = Cardinality(ToRun(j)) - (IF p \in ToRun(j) THEN 1 ELSE 0)
    <2>1. /\ \A q \in Picker \ {p} : picked'[q] = picked[q] /\ executed'[q] = executed[q]
          /\ picked'[p] = "none"
        BY <1>p, <1>a DEF PutDown, DelayTypeOK
    <2>2. p \notin Ran(j)' /\ p \notin ToRun(j)'
        BY <2>1, PickerAssumption DEF Ran, ToRun
    <2> QED BY <1>c, <1>m, <2>1, <2>2
<1>4. ASSUME NEW p \in Picker, RemoveJob(p) PROVE Removed /\ Present
    <2>1. PutDown(p) /\ count' = count /\ executed[p] BY <1>4 DEF RemoveJob
    <2>2. p \notin ToRun(j) BY <2>1 DEF ToRun
    <2>3. Cardinality(ToRun(j)') = Cardinality(ToRun(j)) BY <1>c, <1>p, <2>1, <2>2
    <2>4. Cardinality(Ran(j)') = Cardinality(Ran(j)) \/ Cardinality(Ran(j)') = Cardinality(Ran(j)) - 1
        BY <1>c, <1>p, <2>1
    <2>5. picked[p] # j => Cardinality(Ran(j)') = Cardinality(Ran(j))
        <3>1. picked[p] # j => p \notin Ran(j) BY DEF Ran
        <3> QED BY <1>c, <1>p, <2>1, <3>1
    <2>6. CASE score' = [score EXCEPT ![picked[p]] = Gone] /\ UNCHANGED mishaps
        <3>1. CASE picked[p] = j
            <4>1. score'[j] = Gone BY <1>a, <2>6, <3>1 DEF DelayTypeOK
            <4>2. count[j] > 0 BY <2>1, <3>1 DEF DelayInv
            <4> QED BY <1>d, <1>e, <2>1, <2>3, <2>6, <4>1, <4>2
        <3>2. CASE picked[p] # j
            <4>1. score'[j] = score[j] BY <1>a, <2>6, <3>2 DEF DelayTypeOK
            <4> QED BY <1>d, <2>1, <2>3, <2>5, <2>6, <3>2, <4>1
        <3> QED BY <3>1, <3>2
    <2>7. CASE UNCHANGED score /\ Mishap
        BY <1>b, <1>c, <1>d, <1>e, <2>1, <2>3, <2>4, <2>7 DEF Mishap
    <2> QED BY <1>4, <2>6, <2>7 DEF RemoveJob
<1>5. ASSUME NEW p \in Picker, CrashPicker(p) PROVE Removed /\ Present
    <2>1. PutDown(p) /\ count' = count /\ score' = score /\ mishaps' = mishaps + 1
        BY <1>5 DEF CrashPicker, Mishap
    <2>2. /\ \/ Cardinality(Ran(j)') = Cardinality(Ran(j))
             \/ Cardinality(Ran(j)') = Cardinality(Ran(j)) - 1
          /\ \/ Cardinality(ToRun(j)') = Cardinality(ToRun(j))
             \/ Cardinality(ToRun(j)') = Cardinality(ToRun(j)) - 1
        BY <1>c, <1>p, <2>1
    <2> QED BY <1>b, <1>c, <1>d, <1>e, <2>1, <2>2
<1>6. DelayTick \/ UNCHANGED delayVars => UNCHANGED <<score, picked, executed, count, mishaps>>
    BY DEF DelayTick, delayVars
<1> QED BY <1>1, <1>2, <1>3, <1>4, <1>5, <1>6 DEF DelayNext

\* Every job is in the set and nobody has run one.
LEMMA DelayStarts == DelayInit => DelayInv
<1> SUFFICES ASSUME DelayInit PROVE DelayInv
    OBVIOUS
<1>1. DelayTypeOK
    BY MishapsAssumption DEF DelayInit, DelayTypeOK, Gone
<1>2. ASSUME NEW j \in DelayJob
      PROVE  score[j] # Gone /\ count[j] <= Cardinality(Ran(j)) + mishaps
    <2>1. Cardinality(Ran(j)) \in Nat BY PickersCounted
    <2> QED BY <2>1, MishapsAssumption DEF DelayInit, Gone
<1> QED BY <1>1, <1>2 DEF DelayInit, DelayInv

\* Every step of the pickers keeps the invariant.
LEMMA DelaySteps == DelayInv /\ [DelayNext]_delayVars => DelayInv'
<1> SUFFICES ASSUME DelayInv, [DelayNext]_delayVars PROVE DelayInv'
    OBVIOUS
<1>1. DelayTypeOK' BY DelayTypeStep DEF DelayInv
<1> QED BY <1>1, RanStep, CountedStep DEF DelayInv, Gone

\* The inductive invariant of the delay queue (zrangebyscore, run, zrem).
THEOREM DelayInvariant == DelaySpec => []DelayInv
BY DelayStarts, DelaySteps, PTL DEF DelaySpec

\* What the invariant says of the runs of a job.
LEMMA DelayInvSafe == DelayInv => DelayedJobsSafe
<1> SUFFICES ASSUME DelayInv, NEW j \in DelayJob
             PROVE  /\ score[j] = Gone => count[j] > 0
                    /\ count[j] <= Cardinality(Picker) + mishaps
    BY DEF DelayedJobsSafe
<1>1. count[j] \in Nat /\ mishaps \in Nat
    BY MishapsAssumption DEF DelayInv, DelayTypeOK
<1>2. score[j] = Gone => count[j] + Cardinality(ToRun(j)) <= Cardinality(Picker) + mishaps
    BY DEF DelayInv
<1>3. score[j] # Gone => count[j] + Cardinality(ToRun(j)) <= Cardinality(Picker) + mishaps
    BY <1>1, PickersCounted, DelaySums DEF DelayInv
<1> QED BY <1>1, <1>2, <1>3, PickersCounted DEF DelayInv

\* A job that was removed was run, and it was run at most once by each picker and once
\* more per mishap.
THEOREM DelayedJobsSafeHolds == DelaySpec => []DelayedJobsSafe
BY DelayInvSafe, DelayInvariant, PTL

-----------------------------------------------------------------------------
(* The archive of the page views. *)

\* Every view is in the current key, in the hands of a job or in the total.
ArchiveInv == ArchiveTypeOK /\ ViewsConserved

\* One job's delta changes what the jobs have in hand by as much.
LEMMA HandsChange ==
    ASSUME ArchiveTypeOK, ArchiveTypeOK', NEW a \in Archiver,
           \A b \in Archiver \ {a} : taken'[b] = taken[b]
    PROVE  /\ SumFunctionOnSet(InHand, Archiver) \in Int
           /\ SumFunctionOnSet(InHand, Archiver)' =
                SumFunctionOnSet(InHand, Archiver) + InHand'[a] - InHand[a]
           /\ InHand[a] \in Int /\ InHand'[a] \in Int
<1>1. taken \in [Archiver -> Nat \cup {-1}] /\ taken' \in [Archiver -> Nat \cup {-1}]
    BY DEF ArchiveTypeOK
<1>2. \A b \in Archiver : InHand[b] \in Int /\ InHand'[b] \in Int BY <1>1 DEF InHand
<1>3. \A b \in Archiver \ {a} : InHand'[b] = InHand[b] BY DEF InHand
<1> DEFINE f == InHand
           k == InHand'
<1>4. SumFunctionOnSet(InHand, Archiver)' = SumFunctionOnSet(k, Archiver) OBVIOUS
<1> HIDE DEF k
<1>5. /\ SumFunctionOnSet(f, Archiver) \in Int
      /\ SumFunctionOnSet(k, Archiver) =
            SumFunctionOnSet(f, Archiver) + (IF a \in Archiver THEN k[a] - f[a] ELSE 0)
    <2>1. \A b \in Archiver : f[b] \in Int /\ k[b] \in Int BY <1>2 DEF k
    <2>2. \A b \in Archiver \ {a} : k[b] = f[b] BY <1>3 DEF k
    <2> HIDE DEF f
    <2> QED BY <2>1, <2>2, SumChanges, ViewsAssumption
<1> DEFINE F == SumFunctionOnSet(f, Archiver)
           K == SumFunctionOnSet(k, Archiver)
<1>6. F \in Int /\ K = F + (k[a] - f[a]) /\ k[a] \in Int /\ f[a] \in Int BY <1>2, <1>5 DEF k
<1>7. K = F + k[a] - f[a]
    <2> HIDE DEF F, K, f
    <2> QED BY <1>6
<1> QED BY <1>4, <1>6, <1>7 DEF k

\* No view is counted yet.
LEMMA ArchiveStarts == ArchiveInit => ArchiveInv
<1> SUFFICES ASSUME ArchiveInit PROVE ArchiveInv OBVIOUS
<1>1. /\ current = 0 /\ total = 0 /\ taken = [a \in Archiver |-> -1] /\ views = 0
      /\ (lost <=> FALSE) /\ (doubled <=> FALSE) /\ lost \in BOOLEAN /\ doubled \in BOOLEAN
    BY Zenon DEF ArchiveInit
<1>2. ArchiveTypeOK
    <2>1. taken \in [Archiver -> Nat \cup {-1}] BY <1>1
    <2> QED BY <1>1, <2>1, ViewsAssumption DEF ArchiveTypeOK
<1>3. \A a \in Archiver : InHand[a] = 0 /\ InHand[a] \in Nat BY <1>1 DEF InHand
<1>4. SumFunctionOnSet(InHand, Archiver) = 0
    <2> HIDE DEF InHand
    <2> QED BY <1>3, SumOfNaturals, ViewsAssumption
<1>5. ViewsConserved BY <1>1, <1>4 DEF ViewsConserved, Counted
<1> QED BY <1>2, <1>5 DEF ArchiveInv

\* Every step of the archive keeps the types.
LEMMA ArchiveTypes == ArchiveTypeOK /\ [ArchiveNext]_archiveVars => ArchiveTypeOK'
<1> SUFFICES ASSUME ArchiveTypeOK, [ArchiveNext]_archiveVars PROVE ArchiveTypeOK' OBVIOUS
<1> USE ViewsAssumption DEF ArchiveTypeOK
<1>1. CASE View BY <1>1 DEF View
<1>2. ASSUME NEW a \in Archiver, GetDel(a) PROVE ArchiveTypeOK'
    <2>1. taken' \in [Archiver -> Nat \cup {-1}] BY <1>2 DEF GetDel
    <2>2. lost' \in BOOLEAN BY <1>2, Zenon DEF GetDel
    <2> QED BY <1>2, <2>1, <2>2 DEF GetDel
<1>3. ASSUME NEW a \in Archiver, AddUp(a) PROVE ArchiveTypeOK'
    <2>1. taken[a] \in Nat BY <1>3 DEF AddUp
    <2>2. total' \in Nat BY <1>3, <2>1 DEF AddUp
    <2>3. taken' \in [Archiver -> Nat \cup {-1}] BY <1>3 DEF AddUp
    <2>4. doubled' \in BOOLEAN BY <1>3, Zenon DEF AddUp
    <2> QED BY <1>3, <2>2, <2>3, <2>4 DEF AddUp
<1>4. ASSUME NEW a \in Archiver, Drop(a) PROVE ArchiveTypeOK' BY <1>4 DEF Drop
<1>5. CASE UNCHANGED archiveVars BY <1>5 DEF archiveVars
<1> QED BY <1>1, <1>2, <1>3, <1>4, <1>5 DEF ArchiveNext

\* Where a view goes: none of the steps creates or loses one unseen.
LEMMA ArchiveSteps == ArchiveInv /\ [ArchiveNext]_archiveVars => ArchiveInv'
<1> SUFFICES ASSUME ArchiveInv, [ArchiveNext]_archiveVars PROVE ArchiveInv' OBVIOUS
<1>1. ArchiveTypeOK /\ ArchiveTypeOK' BY ArchiveTypes DEF ArchiveInv
<1> DEFINE H == SumFunctionOnSet(InHand, Archiver)
           HH == SumFunctionOnSet(InHand, Archiver)'
<1>2. /\ (lost \/ current + total + H >= views) /\ (doubled \/ current + total + H <= views)
      /\ ViewsConserved' <=>
            /\ lost' \/ current' + total' + HH >= views'
            /\ doubled' \/ current' + total' + HH <= views'
    BY DEF ArchiveInv, ViewsConserved, Counted
<1>3. /\ current \in Nat /\ total \in Nat /\ views \in Nat
      /\ current' \in Nat /\ total' \in Nat /\ views' \in Nat
      /\ \A a \in Archiver : taken[a] \in Nat \/ taken[a] = -1
    BY <1>1, ViewsAssumption DEF ArchiveTypeOK
<1>4. H \in Int
    <2>1. \A b \in Archiver : InHand[b] \in Nat BY <1>3 DEF InHand
    <2> HIDE DEF InHand
    <2> QED BY <2>1, SumOfNaturals, ViewsAssumption
<1>5. ASSUME NEW a \in Archiver, \A b \in Archiver \ {a} : taken'[b] = taken[b]
      PROVE  HH = H + InHand'[a] - InHand[a]
    BY <1>1, <1>5, HandsChange
<1>6. taken' = taken => HH = H BY DEF InHand
<1> HIDE DEF H, HH
<1>7. CASE View
    <2>1. current' = current + 1 /\ views' = views + 1 /\ HH = H
          /\ UNCHANGED <<total, lost, doubled>>
        BY <1>6, <1>7 DEF View
    <2> QED BY <1>1, <1>2, <1>3, <1>4, <2>1 DEF ArchiveInv
<1>8. ASSUME NEW a \in Archiver, GetDel(a) PROVE ArchiveInv'
    <2>1. /\ taken[a] = -1 /\ current' = 0 /\ UNCHANGED <<total, views, doubled>>
          /\ \/ taken'[a] = current /\ UNCHANGED lost
             \/ taken'[a] = 0 /\ lost'
          /\ \A b \in Archiver \ {a} : taken'[b] = taken[b]
        BY <1>1, <1>8 DEF GetDel, ArchiveTypeOK
    <2>2. InHand[a] = 0 /\ InHand'[a] = taken'[a] BY <1>3, <2>1 DEF InHand
    <2>3. HH = H + taken'[a] BY <1>3, <1>4, <1>5, <2>1, <2>2
    <2> QED BY <1>1, <1>2, <1>3, <1>4, <2>1, <2>3 DEF ArchiveInv
<1>9. ASSUME NEW a \in Archiver, AddUp(a) PROVE ArchiveInv'
    <2>1. /\ taken[a] \in Nat /\ taken'[a] = -1 /\ UNCHANGED <<current, views, lost>>
          /\ \/ total' = total + taken[a] /\ UNCHANGED doubled
             \/ total' = total + 2 * taken[a] /\ doubled'
          /\ \A b \in Archiver \ {a} : taken'[b] = taken[b]
        BY <1>1, <1>3, <1>9 DEF AddUp, ArchiveTypeOK
    <2>2. InHand[a] = taken[a] /\ InHand'[a] = 0 BY <2>1 DEF InHand
    <2>3. HH = H - taken[a] BY <1>4, <1>5, <2>1, <2>2
    <2> QED BY <1>1, <1>2, <1>3, <1>4, <2>1, <2>3 DEF ArchiveInv
<1>10. ASSUME NEW a \in Archiver, Drop(a) PROVE ArchiveInv'
    <2>1. /\ taken[a] \in Nat /\ taken'[a] = -1 /\ lost'
          /\ UNCHANGED <<current, total, views, doubled>>
          /\ \A b \in Archiver \ {a} : taken'[b] = taken[b]
        BY <1>1, <1>3, <1>10 DEF Drop, ArchiveTypeOK
    <2>2. InHand[a] = taken[a] /\ InHand'[a] = 0 BY <2>1 DEF InHand
    <2>3. HH = H - taken[a] BY <1>4, <1>5, <2>1, <2>2
    <2> QED BY <1>1, <1>2, <1>3, <1>4, <2>1, <2>3 DEF ArchiveInv
<1>11. CASE UNCHANGED archiveVars
    BY <1>1, <1>2, <1>6, <1>11 DEF archiveVars, ArchiveInv
<1> QED BY <1>7, <1>8, <1>9, <1>10, <1>11 DEF ArchiveNext

\* The types of the archive, and every view accounted for, by induction.
THEOREM ArchiveInvariant == ArchiveSpec => []ArchiveInv
BY ArchiveStarts, ArchiveSteps, PTL DEF ArchiveSpec

\* However views and jobs interleave, a view is counted once, but for deltas that were
\* lost or added twice.
THEOREM ViewsConservedHolds == ArchiveSpec => []ViewsConserved
BY ArchiveInvariant, PTL DEF ArchiveInv

-----------------------------------------------------------------------------
(* The map of errors, for every combination of causes. *)

Sentinels == {"nil", "unchanged", "ErrCacheMiss", "ErrTokenNotFound", "ErrCanceled",
              "ErrTimeout", "ErrClosed"}
ErrorsInv == ErrorsTypeOK /\ BlameIsRight

\* The case that the switch takes is a known cause that the error wraps; a missing key and
\* a cancelled context come first.
LEMMA FirstCaseFacts ==
    ASSUME NEW e, e \cap Known # {}
    PROVE  /\ FirstCase(e) \in e \cap Known
           /\ "Nil" \in e => FirstCase(e) = "Nil"
           /\ "Nil" \notin e /\ "Canceled" \in e => FirstCase(e) = "Canceled"
<1> DEFINE First(c) == \E i \in DOMAIN Cases :
                          Cases[i] = c /\ \A j \in 1..(i - 1) : Cases[j] \notin e
<1> USE DEF Cases, Known
<1>1. \E c \in e : First(c)
  OBVIOUS
<1>2. FirstCase(e) \in e /\ First(FirstCase(e))
  BY <1>1 DEF FirstCase
<1> QED
  BY <1>2

\* What MapNotFound answers, for an error that is a missing key alone or wraps no missing key.
LEMMA MapNotFoundFacts ==
    ASSUME NEW e, e = {"Nil"} \/ "Nil" \notin e,
           NEW n \in {"ErrCacheMiss", "ErrTokenNotFound"}, NEW s, s = MapNotFound(e, n)
    PROVE  /\ s \in {"ErrCacheMiss", "ErrTokenNotFound"} <=> "Nil" \in e
           /\ s = "ErrTimeout" =>
                 e \cap {"DeadlineExceeded", "netTimeout"} # {} /\ "Canceled" \notin e
           /\ s = "ErrCanceled" <=> "Canceled" \in e
           /\ s = "ErrClosed" => "ErrClosed" \in e
           /\ s = "unchanged" => e \cap Known = {}
           /\ s = "nil" <=> e = {}
           /\ s \in Sentinels
<1> USE DEF Sentinels
<1>k. Known = {"Nil", "Canceled", "DeadlineExceeded", "ErrClosed", "netTimeout"}
  BY DEF Known, Cases
<1>1. CASE e = {}
  BY <1>1 DEF MapNotFound
<1>2. CASE e # {} /\ e \cap Known = {}
  BY <1>2, <1>k DEF MapNotFound
<1>3. CASE e \cap Known # {}
  <2>1. /\ FirstCase(e) \in e \cap Known
        /\ "Nil" \in e => FirstCase(e) = "Nil"
        /\ "Nil" \notin e /\ "Canceled" \in e => FirstCase(e) = "Canceled"
    BY <1>3, FirstCaseFacts
  <2>2. s = SentinelOf(n)[FirstCase(e)]
    BY <1>3 DEF MapNotFound
  <2>3. /\ FirstCase(e) = "Nil" => s = n
        /\ FirstCase(e) = "Canceled" => s = "ErrCanceled"
        /\ FirstCase(e) \in {"DeadlineExceeded", "netTimeout"} => s = "ErrTimeout"
        /\ FirstCase(e) = "ErrClosed" => s = "ErrClosed"
    BY <2>2 DEF SentinelOf
  <2> QED
    BY <1>k, <1>3, <2>1, <2>3
<1> QED
  BY <1>1, <1>2, <1>3

\* No error, and nothing answered.
LEMMA ErrorsStart == ErrorsInit => ErrorsInv
BY DEF ErrorsInit, ErrorsInv, ErrorsTypeOK, BlameIsRight, Known, Cases

\* Every error is given the sentinel it deserves.
LEMMA ErrorsStep == ErrorsInv /\ [ErrorsNext]_errorVars => ErrorsInv'
<1> SUFFICES ASSUME ErrorsInv, [ErrorsNext]_errorVars PROVE ErrorsInv'
  OBVIOUS
<1>1. CASE ErrorsNext
  <2>k. Known = {"Nil", "Canceled", "DeadlineExceeded", "ErrClosed", "netTimeout"}
    BY DEF Known, Cases
  <2>1. (err' = {"Nil"} \/ "Nil" \notin err') /\ err' \subseteq Known \cup {"other"}
    BY <1>1, <2>k DEF ErrorsNext
  <2>2. PICK n \in {"ErrCacheMiss", "ErrTokenNotFound"} : sentinel' = MapNotFound(err', n)
    BY <1>1 DEF ErrorsNext
  <2>3. ErrorsTypeOK'
    BY <2>1, <2>2, MapNotFoundFacts DEF ErrorsTypeOK, Sentinels, Known
  <2>4. BlameIsRight'
    BY <2>1, <2>2, MapNotFoundFacts DEF BlameIsRight, Known
  <2> QED
    BY <2>3, <2>4 DEF ErrorsInv
<1>2. CASE UNCHANGED errorVars
  BY <1>2 DEF errorVars, ErrorsInv, ErrorsTypeOK, BlameIsRight
<1> QED
  BY <1>1, <1>2

\* Each sentinel blames what happened, whatever combination of causes an error wraps.
THEOREM BlameHolds == ErrorsSpec => []BlameIsRight
<1>1. ErrorsInv => BlameIsRight
  BY DEF ErrorsInv
<1> QED
  BY <1>1, ErrorsStart, ErrorsStep, PTL DEF ErrorsSpec

-----------------------------------------------------------------------------
(* The key builder.  An escaped part is read from its front, character by character. *)

\* What a set of numbers below n + 1 is that holds 0 and, with k < n, k + 1.
LEMMA UpToEnd ==
    ASSUME NEW n \in Nat, NEW Good, 0 \in Good,
           \A k \in 0..n : k \in Good /\ k < n => k + 1 \in Good
    PROVE  \A k \in 0..n : k \in Good
<1> DEFINE T == {k \in 0..n : k \notin Good}
<1> SUFFICES ASSUME T # {} PROVE FALSE
    OBVIOUS
<1>1. PICK m \in T : \A y \in T : m <= y
    <2>1. T \subseteq Nat OBVIOUS
    <2> HIDE DEF T
    <2> QED BY <2>1, LeastNatural
<1>2. m # 0 BY <1>1
<1>3. m - 1 \in 0..n /\ m - 1 < n /\ m - 1 \notin T BY <1>1, <1>2
<1>4. (m - 1) + 1 \in Good BY <1>3
<1> QED BY <1>1, <1>4

\* The sequences s joined up to the i-th: what FlattenSeq recurs over.
Joins(u, n, s) == \A i \in 1..n : u[i] = IF i = 1 THEN s[i] ELSE u[i - 1] \o s[i]

\* The joins of any sequences exist, one after the other.
LEMMA JoinsExist ==
    ASSUME NEW S, NEW n \in Nat, NEW s \in [1..n -> Seq(S)]
    PROVE  \E u \in [1..n -> Seq(S)] : Joins(u, n, s)
<1> DEFINE Good == {k \in 0..n : \E u \in [1..k -> Seq(S)] : Joins(u, k, s)}
<1>1. 0 \in Good
    <2> DEFINE u == [i \in 1..0 |-> <<>>]
    <2>1. u \in [1..0 -> Seq(S)] OBVIOUS
    <2> HIDE DEF u
    <2>2. Joins(u, 0, s) BY DEF Joins
    <2>3. \E w \in [1..0 -> Seq(S)] : Joins(w, 0, s) BY <2>1, <2>2, Zenon
    <2>4. 0 \in 0..n OBVIOUS
    <2> QED BY <2>3, <2>4, Zenon
<1>2. ASSUME NEW k \in 0..n, k \in Good, k < n PROVE k + 1 \in Good
    <2>1. PICK u \in [1..k -> Seq(S)] : Joins(u, k, s) BY <1>2
    <2> DEFINE e == IF k = 0 THEN s[k + 1] ELSE u[k] \o s[k + 1]
               v == [i \in 1..(k + 1) |-> IF i = k + 1 THEN e ELSE u[i]]
    <2>2. e \in Seq(S)
        <3>1. s[k + 1] \in Seq(S) BY <1>2
        <3>2. k # 0 => u[k] \in Seq(S) BY <1>2
        <3> QED BY <3>1, <3>2, ConcatProperties
    <2>3. v \in [1..(k + 1) -> Seq(S)]
        <3> HIDE DEF e
        <3>1. \A i \in 1..(k + 1) : i = k + 1 \/ i \in 1..k BY <1>2
        <3> QED BY <2>2, <3>1
    <2>4. ASSUME NEW i \in 1..(k + 1) PROVE v[i] = IF i = 1 THEN s[i] ELSE v[i - 1] \o s[i]
        <3>1. CASE i = k + 1
            <4>1. v[i] = e BY <3>1
            <4>2. i # 1 => i - 1 \in 1..(k + 1) /\ i - 1 # k + 1 /\ i - 1 = k BY <1>2, <3>1
            <4>3. i # 1 => v[i - 1] = u[k]
                <5> HIDE DEF e
                <5> QED BY <4>2
            <4> HIDE DEF v
            <4> QED BY <1>2, <3>1, <4>1, <4>2, <4>3
        <3>2. CASE i # k + 1
            <4>1. i \in 1..k BY <1>2, <3>2
            <4>2. i # 1 => i - 1 \in 1..(k + 1) /\ i - 1 # k + 1 BY <1>2, <3>2
            <4> HIDE DEF e
            <4>3. v[i] = u[i] /\ (i # 1 => v[i - 1] = u[i - 1]) BY <3>2, <4>2
            <4> HIDE DEF v
            <4> QED BY <2>1, <4>1, <4>3 DEF Joins
        <3> QED BY <3>1, <3>2
    <2>5. Joins(v, k + 1, s)
        <3> HIDE DEF v, e
        <3> QED BY <2>4 DEF Joins
    <2> HIDE DEF v
    <2> QED BY <1>2, <2>3, <2>5
<1>3. n \in Good
    <2> HIDE DEF Good
    <2>1. \A k \in 0..n : k \in Good BY <1>1, <1>2, UpToEnd
    <2> QED BY <2>1
<1> QED BY <1>3

FromFront(u, n, s) == u[0] = <<>> /\ \A i \in 1..n : u[i] = u[i - 1] \o s[i]

\* FlattenSeq joins all of them.
LEMMA FlattenIs ==
    ASSUME NEW S, NEW n \in Nat, NEW s \in [1..n -> Seq(S)]
    PROVE  \E u \in [0..n -> Seq(S)] : FlattenSeq(s) = u[n] /\ FromFront(u, n, s)
<1>1. Len(s) = n OBVIOUS
<1>2. CASE n = 0
    <2>1. s = <<>> BY <1>2
    <2>2. FlattenSeq(s) = <<>> BY <1>1, <1>2, <2>1 DEF FlattenSeq
    <2> DEFINE u == [i \in 0..n |-> <<>>]
    <2>3. u \in [0..n -> Seq(S)] OBVIOUS
    <2>4. u[0] = <<>> /\ FlattenSeq(s) = u[n] BY <1>2, <2>2
    <2> HIDE DEF u
    <2>5. \A i \in 1..n : u[i] = u[i - 1] \o s[i] BY <1>2
    <2> QED BY <2>3, <2>4, <2>5 DEF FromFront
<1>3. CASE n > 0
    <2> DEFINE P(f) == f = [i \in 1..n |-> IF i = 1 THEN s[i] ELSE f[i - 1] \o s[i]]
    <2>1. \E f : P(f)
        <3>1. PICK f \in [1..n -> Seq(S)] : Joins(f, n, s) BY JoinsExist
        <3>2. P(f) BY <3>1 DEF Joins
        <3> HIDE DEF P
        <3> QED BY <3>2
    <2> DEFINE f == CHOOSE f : P(f)
    <2>2. P(f)
        <3> HIDE DEF P
        <3> QED BY <2>1, Zenon
    <2>3. FlattenSeq(s) = f[n]
        <3>1. FlattenSeq(s) = (CHOOSE g : g = [i \in 1..Len(s) |-> IF i = 1 THEN s[i] ELSE g[i - 1] \o s[i]])[Len(s)]
            <4>1. Len(s) # 0 BY <1>1, <1>3
            <4> QED BY <4>1, Zenon DEF FlattenSeq
        <3> QED BY <1>1, <3>1, Zenon
    <2>4. PICK g : g = f OBVIOUS
    <2> HIDE DEF f
    <2>5. g = [i \in 1..n |-> IF i = 1 THEN s[i] ELSE g[i - 1] \o s[i]] BY <2>2, <2>4
    <2> HIDE DEF P
    <2>6. \A i \in 1..n : g[i] = IF i = 1 THEN s[i] ELSE g[i - 1] \o s[i] BY <2>5
    <2> DEFINE u == [i \in 0..n |-> IF i = 0 THEN <<>> ELSE g[i]]
               Good == {k \in 0..n : u[k] \in Seq(S)}
    <2>7. ASSUME NEW i \in 1..n PROVE u[i] = g[i] /\ (i = 1 => u[i - 1] = <<>>) /\ (i # 1 => u[i - 1] = g[i - 1])
        OBVIOUS
    <2>8. u[0] = <<>> OBVIOUS
    <2>9. u = [i \in 0..n |-> u[i]] OBVIOUS
    <2> HIDE DEF u
    <2>10. \A k \in 0..n : u[k] \in Seq(S)
        <3>1. 0 \in Good
            <4>1. <<>> \in Seq(S) /\ 0 \in 0..n OBVIOUS
            <4> QED BY <2>8, <4>1
        <3>2. ASSUME NEW k \in 0..n, k \in Good, k < n PROVE k + 1 \in Good
            <4>1. k + 1 \in 1..n /\ (k + 1) - 1 = k BY <3>2
            <4>2. s[k + 1] \in Seq(S) BY <4>1
            <4>3. u[k + 1] = IF k = 0 THEN s[k + 1] ELSE u[k] \o s[k + 1]
                BY <2>6, <2>7, <4>1
            <4>4. u[k + 1] \in Seq(S) BY <3>2, <4>2, <4>3, ConcatProperties
            <4> QED BY <4>1, <4>4
        <3> HIDE DEF Good
        <3>3. \A k \in 0..n : k \in Good BY <3>1, <3>2, UpToEnd
        <3> QED BY <3>3 DEF Good
    <2>11. ASSUME NEW i \in 1..n PROVE u[i] = u[i - 1] \o s[i]
        <3>1. CASE i = 1
            <4>1. s[i] \in Seq(S) BY <2>11
            <4>2. <<>> \o s[i] = s[i] BY <4>1, ConcatEmptySeq
            <4> QED BY <2>6, <2>7, <3>1, <4>2
        <3>2. CASE i # 1 BY <2>6, <2>7, <3>2
        <3> QED BY <3>1, <3>2
    <2>12. u \in [0..n -> Seq(S)] BY <2>9, <2>10
    <2>13. FlattenSeq(s) = u[n] BY <1>3, <2>3, <2>4, <2>7
    <2>14. FromFront(u, n, s) BY <2>8, <2>11 DEF FromFront
    <2> QED BY <2>12, <2>13, <2>14
<1>4. n = 0 \/ n > 0 OBVIOUS
<1> QED BY <1>2, <1>3, <1>4, Zenon

\* What one character becomes.
Code(c) == CASE c = ":" -> <<"%", "3", "A">>
             [] c = "%" -> <<"%", "2", "5">>
             [] OTHER -> <<c>>
Letters == Char \cup {":", "%", "2", "3", "5", "A", "x"}

\* The codes of writeEscaped: one character, or three that begin with a percent sign.
LEMMA CodeType ==
    ASSUME NEW c \in Char
    PROVE  /\ Code(c) \in Seq(Letters) /\ Len(Code(c)) \in {1, 3}
           /\ Len(Code(c)) = 3 <=> c \in {":", "%"}
           /\ Len(Code(c)) = 3 => Code(c)[1] = "%"
           /\ c = ":" => Code(c)[2] = "3"
           /\ c = "%" => Code(c)[2] = "2"
           /\ c \notin {":", "%"} => Code(c)[1] = c
           /\ \A x \in 1..Len(Code(c)) : Code(c)[x] # ":"
<1>1. CASE c = ":"
    <2>1. Code(c) = <<"%", "3", "A">> BY <1>1 DEF Code
    <2>2. PICK t : t = <<"%", "3", "A">> OBVIOUS
    <2>3. /\ t \in Seq(Letters) /\ Len(t) = 3 /\ t[1] = "%" /\ t[2] = "3"
          /\ \A x \in 1..3 : t[x] # ":"
        BY <2>2 DEF Letters
    <2> QED BY <1>1, <2>1, <2>2, <2>3
<1>2. CASE c = "%"
    <2>1. Code(c) = <<"%", "2", "5">> BY <1>2 DEF Code
    <2>2. PICK t : t = <<"%", "2", "5">> OBVIOUS
    <2>3. /\ t \in Seq(Letters) /\ Len(t) = 3 /\ t[1] = "%" /\ t[2] = "2"
          /\ \A x \in 1..3 : t[x] # ":"
        BY <2>2 DEF Letters
    <2> QED BY <1>2, <2>1, <2>2, <2>3
<1>3. CASE c \notin {":", "%"}
    <2>1. Code(c) = <<c>> BY <1>3 DEF Code
    <2>2. <<c>> \in Seq(Letters) BY DEF Letters
    <2> QED BY <1>3, <2>1, <2>2
<1> QED BY <1>1, <1>2, <1>3

\* Two characters whose codes agree as far as both go are one.
LEMMA CodesDiffer ==
    ASSUME NEW c \in Char, NEW d \in Char,
           \A x \in 1..3 : x <= Len(Code(c)) /\ x <= Len(Code(d)) => Code(c)[x] = Code(d)[x]
    PROVE  c = d
<1>1. Len(Code(c)) \in {1, 3} /\ Len(Code(d)) \in {1, 3} BY CodeType
<1>2. Code(c)[1] = Code(d)[1] BY <1>1
<1>3. Len(Code(c)) = 3 /\ Len(Code(d)) = 3 => Code(c)[2] = Code(d)[2] BY <1>1
<1> QED BY <1>1, <1>2, <1>3, CodeType

\* u reads part from its front: u[i] is what its first i characters become.
Reads(u, piece) ==
    /\ u \in [0..Len(piece) -> Seq(Letters)]
    /\ u[0] = <<>> /\ Escaped(piece) = u[Len(piece)]
    /\ \A i \in 1..Len(piece) : u[i] = u[i - 1] \o Code(piece[i])

\* Every text can be read.
LEMMA EscapedReads == ASSUME NEW piece \in Seq(Char) PROVE \E u : Reads(u, piece)
<1> DEFINE n == Len(piece)
           s == [i \in 1..n |-> Code(piece[i])]
<1>1. n \in Nat /\ DOMAIN piece = 1..n /\ \A i \in 1..n : piece[i] \in Char OBVIOUS
<1>2. \A i \in 1..n : Code(piece[i]) \in Seq(Letters) BY <1>1, CodeType
<1>3. s \in [1..n -> Seq(Letters)] BY <1>2
<1>4. Escaped(piece) = FlattenSeq(s)
    BY <1>1, Zenon DEF Escaped, Code
<1>5. \A i \in 1..n : s[i] = Code(piece[i]) OBVIOUS
<1> HIDE DEF s, n
<1>6. PICK u \in [0..n -> Seq(Letters)] : FlattenSeq(s) = u[n] /\ FromFront(u, n, s)
    <2>1. n \in Nat BY <1>1
    <2> QED BY <1>3, <2>1, FlattenIs
<1>7. u[0] = <<>> /\ \A i \in 1..n : u[i] = u[i - 1] \o Code(piece[i])
    BY <1>5, <1>6 DEF FromFront
<1>8. Reads(u, piece) BY <1>4, <1>6, <1>7, Zenon DEF Reads, n
<1> QED BY <1>8

\* u goes from k on to i by the code of part[i], and what stood stays.
CodeFollows(u, piece, k, i) ==
    /\ piece[i] \in Char /\ Len(u[k]) \in Nat
    /\ Len(u[i]) = Len(u[k]) + Len(Code(piece[i]))
    /\ \A x \in 1..Len(u[k]) : u[i][x] = u[k][x]
    /\ \A x \in 1..Len(Code(piece[i])) : u[i][Len(u[k]) + x] = Code(piece[i])[x]

\* One more character: where its code stands.
LEMMA ReadsOn ==
    ASSUME NEW piece \in Seq(Char), NEW u, Reads(u, piece), NEW i \in 1..Len(piece),
           NEW k, k = i - 1
    PROVE  CodeFollows(u, piece, k, i)
<1>1. k \in 0..Len(piece) /\ piece[i] \in Char OBVIOUS
<1>2. u[k] \in Seq(Letters) /\ u[i] = u[k] \o Code(piece[i]) BY <1>1 DEF Reads
<1>3. Code(piece[i]) \in Seq(Letters) BY <1>1, CodeType
<1>4. PICK c, v : c = Code(piece[i]) /\ v = u[k] OBVIOUS
<1>5. /\ Len(v \o c) = Len(v) + Len(c) /\ Len(v) \in Nat /\ Len(c) \in Nat
      /\ \A x \in 1..(Len(v) + Len(c)) : (v \o c)[x] = IF x <= Len(v) THEN v[x] ELSE c[x - Len(v)]
    <2>1. c \in Seq(Letters) /\ v \in Seq(Letters) BY <1>2, <1>3, <1>4, Zenon
    <2>2. Len(v) \in Nat /\ Len(c) \in Nat BY <2>1
    <2> QED BY <2>1, <2>2, ConcatProperties, Zenon
<1>6. \A x \in 1..Len(v) : (v \o c)[x] = v[x] BY <1>5
<1>7. \A x \in 1..Len(c) : (v \o c)[Len(v) + x] = c[x]
    <2> TAKE x \in 1..Len(c)
    <2>1. Len(v) + x \in 1..(Len(v) + Len(c)) /\ ~(Len(v) + x <= Len(v)) /\ (Len(v) + x) - Len(v) = x
        BY <1>5
    <2> QED BY <1>5, <2>1
<1> QED BY <1>1, <1>2, <1>4, <1>5, <1>6, <1>7 DEF CodeFollows

\* What was read stays.
LEMMA ReadsStay ==
    ASSUME NEW piece \in Seq(Char), NEW u, Reads(u, piece), NEW i \in 0..Len(piece)
    PROVE  /\ Len(u[i]) \in Nat /\ Len(Escaped(piece)) \in Nat
           /\ Len(u[i]) <= Len(Escaped(piece))
           /\ \A x \in 1..Len(u[i]) : Escaped(piece)[x] = u[i][x]
<1> DEFINE n == Len(piece)
           Good == {k \in 0..(n - i) :
                       /\ Len(u[i]) <= Len(u[i + k])
                       /\ \A x \in 1..Len(u[i]) : u[i + k][x] = u[i][x]}
<1>1. n \in Nat /\ i \in 0..n /\ n - i \in Nat OBVIOUS
<1>2. \A j \in 0..n : Len(u[j]) \in Nat BY DEF Reads
<1>3. 0 \in Good BY <1>1, <1>2
<1>4. ASSUME NEW k \in 0..(n - i), k \in Good, k < n - i PROVE k + 1 \in Good
    <2>1. i + (k + 1) \in 1..n /\ (i + (k + 1)) - 1 = i + k /\ i + k \in 0..n BY <1>1, <1>4
    <2>2. PICK j : j = i + (k + 1) OBVIOUS
    <2>3. /\ piece[j] \in Char /\ Len(u[j]) = Len(u[i + k]) + Len(Code(piece[j]))
          /\ \A x \in 1..Len(u[i + k]) : u[j][x] = u[i + k][x]
        <3>1. PICK q : q = i + k OBVIOUS
        <3>2. j \in 1..Len(piece) /\ q = j - 1 BY <2>1, <2>2, <3>1
        <3>3. /\ piece[j] \in Char /\ Len(u[j]) = Len(u[q]) + Len(Code(piece[j]))
              /\ \A x \in 1..Len(u[q]) : u[j][x] = u[q][x]
            <4>1. CodeFollows(u, piece, q, j) BY <3>2, ReadsOn
            <4> QED BY <4>1 DEF CodeFollows
        <3> QED BY <3>1, <3>3
    <2>4. Len(Code(piece[j])) \in {1, 3} BY <2>3, CodeType
    <2>5. Len(u[i]) <= Len(u[i + k]) /\ \A x \in 1..Len(u[i]) : u[i + k][x] = u[i][x]
        BY <1>4
    <2>6. Len(u[i]) \in Nat /\ Len(u[i + k]) \in Nat BY <1>1, <1>2, <2>1
    <2>7. Len(u[i]) <= Len(u[j])
        <3>1. PICK a, b, d : a = Len(u[i]) /\ b = Len(u[i + k]) /\ d = Len(Code(piece[j])) OBVIOUS
        <3>2. a \in Nat /\ b \in Nat /\ d \in {1, 3} /\ a <= b BY <2>4, <2>5, <2>6, <3>1
        <3>3. a <= b + d BY <3>2
        <3> QED BY <2>3, <3>1, <3>3
    <2>8. \A x \in 1..Len(u[i]) : u[j][x] = u[i][x] BY <2>3, <2>5, <2>6
    <2> QED BY <1>1, <1>4, <2>2, <2>7, <2>8
<1>5. n - i \in Good
    <2> HIDE DEF Good
    <2>1. \A k \in 0..(n - i) : k \in Good BY <1>1, <1>3, <1>4, UpToEnd
    <2> QED BY <1>1, <2>1
<1>6. i + (n - i) = n BY <1>1
<1>7. Escaped(piece) = u[n] BY DEF Reads
<1> QED BY <1>1, <1>2, <1>5, <1>6, <1>7

\* No separator in an escaped part.
LEMMA NoSeparator ==
    ASSUME NEW piece \in Seq(Char)
    PROVE  /\ Escaped(piece) \in Seq(Letters)
           /\ \A x \in 1..Len(Escaped(piece)) : Escaped(piece)[x] # ":"
<1>1. PICK u : Reads(u, piece) BY EscapedReads
<1> DEFINE n == Len(piece)
           Good == {k \in 0..n : \A x \in 1..Len(u[k]) : u[k][x] # ":"}
<1>2. n \in Nat OBVIOUS
<1>3. 0 \in Good BY <1>1, <1>2 DEF Reads
<1>4. ASSUME NEW k \in 0..n, k \in Good, k < n PROVE k + 1 \in Good
    <2>1. PICK j : j = k + 1 OBVIOUS
    <2>2. j \in 1..n /\ k = j - 1 BY <1>2, <1>4, <2>1
    <2>3. CodeFollows(u, piece, k, j) BY <1>1, <2>2, ReadsOn
    <2>4. PICK a, d : a = Len(u[k]) /\ d = Code(piece[j]) OBVIOUS
    <2>5. a \in Nat /\ Len(d) \in {1, 3} /\ \A x \in 1..Len(d) : d[x] # ":"
        BY <2>3, <2>4, CodeType DEF CodeFollows
    <2>6. /\ Len(u[j]) = a + Len(d)
          /\ \A x \in 1..a : u[j][x] = u[k][x]
          /\ \A x \in 1..Len(d) : u[j][a + x] = d[x]
        BY <2>3, <2>4 DEF CodeFollows
    <2>7. \A x \in 1..a : u[k][x] # ":" BY <1>4, <2>4
    <2>8. ASSUME NEW x \in 1..(a + Len(d)) PROVE u[j][x] # ":"
        <3>1. CASE x \in 1..a BY <2>6, <2>7, <3>1
        <3>2. CASE x \notin 1..a
            <4>1. PICK y : y = x - a OBVIOUS
            <4>2. y \in 1..Len(d) /\ x = a + y BY <2>5, <3>2, <4>1
            <4> QED BY <2>5, <2>6, <4>2
        <3> QED BY <3>1, <3>2
    <2>9. j \in 0..n BY <2>2
    <2> QED BY <2>1, <2>6, <2>8, <2>9
<1>5. n \in Good
    <2> HIDE DEF Good
    <2>1. \A k \in 0..n : k \in Good BY <1>2, <1>3, <1>4, UpToEnd
    <2> QED BY <1>2, <2>1
<1> QED BY <1>1, <1>2, <1>5 DEF Reads

\* Where two readings of one string stand alike, their next characters are one.
LEMMA SameNext ==
    ASSUME NEW p \in Seq(Char), NEW q \in Seq(Char), Escaped(p) = Escaped(q),
           NEW u, NEW v, Reads(u, p), Reads(v, q),
           NEW j \in 1..Len(p), j \in 1..Len(q), NEW k, k = j - 1, Len(u[k]) = Len(v[k])
    PROVE  p[j] = q[j] /\ Len(u[j]) = Len(v[j])
<1>1. PICK a, c, d, e : a = Len(u[k]) /\ c = Code(p[j]) /\ d = Code(q[j]) /\ e = Escaped(p) OBVIOUS
<1>2. CodeFollows(u, p, k, j) /\ CodeFollows(v, q, k, j) BY ReadsOn
<1>3. /\ a \in Nat /\ Len(u[j]) = a + Len(c) /\ Len(v[j]) = a + Len(d)
      /\ \A x \in 1..Len(c) : u[j][a + x] = c[x]
      /\ \A x \in 1..Len(d) : v[j][a + x] = d[x]
    BY <1>1, <1>2 DEF CodeFollows
<1>4. p[j] \in Char /\ q[j] \in Char BY <1>2 DEF CodeFollows
<1>5. Len(c) \in {1, 3} /\ Len(d) \in {1, 3} BY <1>1, <1>4, CodeType
<1>6. /\ \A x \in 1..Len(u[j]) : e[x] = u[j][x]
      /\ \A x \in 1..Len(v[j]) : e[x] = v[j][x]
    <2>1. j \in 0..Len(p) /\ j \in 0..Len(q) OBVIOUS
    <2> QED BY <1>1, <2>1, ReadsStay
<1>7. ASSUME NEW x \in 1..3, x <= Len(c), x <= Len(d) PROVE c[x] = d[x]
    <2>1. x \in 1..Len(c) /\ x \in 1..Len(d) BY <1>5, <1>7
    <2>2. a + x \in 1..(a + Len(c)) /\ a + x \in 1..(a + Len(d)) BY <1>3, <1>5, <1>7
    <2> QED BY <1>3, <1>6, <2>1, <2>2
<1>8. p[j] = q[j] BY <1>1, <1>4, <1>7, CodesDiffer
<1> QED BY <1>1, <1>3, <1>8

\* An escaped part is the escape of one part only: where two readings stand alike, their
\* next characters are one, and then neither can end before the other.
THEOREM EscapedInjective ==
    ASSUME NEW p \in Seq(Char), NEW q \in Seq(Char), Escaped(p) = Escaped(q)
    PROVE  p = q
<1>1. PICK u : Reads(u, p) BY EscapedReads
<1>2. PICK v : Reads(v, q) BY EscapedReads
<1> DEFINE m == Len(p)
           n == Len(q)
           Good == {k \in 0..m : k <= n => Len(u[k]) = Len(v[k]) /\ \A i \in 1..k : p[i] = q[i]}
<1>3. m \in Nat /\ n \in Nat OBVIOUS
<1>4. 0 \in Good BY <1>1, <1>2, <1>3 DEF Reads
<1>5. ASSUME NEW k \in 0..m, k \in Good, k < m PROVE k + 1 \in Good
    <2>1. PICK j : j = k + 1 OBVIOUS
    <2>2. j \in 0..m /\ j \in 1..m /\ k = j - 1 BY <1>3, <1>5, <2>1
    <2>3. CASE j <= n
        <3>1. k <= n /\ j \in 1..n BY <1>3, <2>2, <2>3
        <3>2. Len(u[k]) = Len(v[k]) /\ \A i \in 1..k : p[i] = q[i] BY <1>5, <3>1
        <3>3. p[j] = q[j] /\ Len(u[j]) = Len(v[j])
            <4> HIDE DEF Good
            <4> QED BY <1>1, <1>2, <2>2, <3>1, <3>2, SameNext
        <3>4. \A i \in 1..j : i = j \/ i \in 1..k BY <1>3, <2>2
        <3>5. \A i \in 1..j : p[i] = q[i] BY <3>2, <3>3, <3>4
        <3> QED BY <2>1, <2>2, <3>3, <3>5
    <2>4. CASE ~(j <= n) BY <2>1, <2>2, <2>4
    <2> QED BY <2>3, <2>4
<1>6. \A k \in 0..m : k \in Good
    <2> HIDE DEF Good
    <2> QED BY <1>3, <1>4, <1>5, UpToEnd
<1>7. \A k \in 0..m : k <= n => Len(u[k]) = Len(v[k]) /\ \A i \in 1..k : p[i] = q[i] BY <1>6
<1>8. ~(m < n)
    <2> SUFFICES ASSUME m < n PROVE FALSE OBVIOUS
    <2>1. PICK j : j = m + 1 OBVIOUS
    <2>2. j \in 1..n /\ j \in 0..n /\ m = j - 1 BY <1>3, <2>1
    <2>3. CodeFollows(v, q, m, j) BY <1>2, <2>2, ReadsOn
    <2>4. Len(v[j]) = Len(v[m]) + Len(Code(q[j])) /\ Len(v[m]) \in Nat /\ q[j] \in Char BY <2>3 DEF CodeFollows
    <2>5. Len(Code(q[j])) \in {1, 3} BY <2>4, CodeType
    <2>6. Len(v[j]) <= Len(Escaped(q)) BY <1>2, <2>2, ReadsStay
    <2>7. Escaped(p) = u[m] BY <1>1 DEF Reads
    <2>8. Len(u[m]) = Len(v[m]) BY <1>3, <1>7
    <2>9. PICK a, b : a = Len(v[m]) /\ b = Len(Code(q[j])) OBVIOUS
    <2>10. a \in Nat /\ b \in {1, 3} BY <2>4, <2>5, <2>9
    <2>11. Len(v[j]) = a + b BY <2>4, <2>9
    <2>12. Len(v[j]) <= a BY <2>6, <2>7, <2>8, <2>9
    <2> QED BY <2>10, <2>11, <2>12
<1>9. ~(n < m)
    <2> SUFFICES ASSUME n < m PROVE FALSE OBVIOUS
    <2>1. PICK j : j = n + 1 OBVIOUS
    <2>2. j \in 1..m /\ j \in 0..m /\ n = j - 1 /\ n \in 0..m BY <1>3, <2>1
    <2>3. CodeFollows(u, p, n, j) BY <1>1, <2>2, ReadsOn
    <2>4. Len(u[j]) = Len(u[n]) + Len(Code(p[j])) /\ Len(u[n]) \in Nat /\ p[j] \in Char BY <2>3 DEF CodeFollows
    <2>5. Len(Code(p[j])) \in {1, 3} BY <2>4, CodeType
    <2>6. Len(u[j]) <= Len(Escaped(p)) BY <1>1, <2>2, ReadsStay
    <2>7. Escaped(q) = v[n] BY <1>2 DEF Reads
    <2>8. Len(u[n]) = Len(v[n]) BY <1>3, <1>7, <2>2
    <2>9. PICK a, b : a = Len(u[n]) /\ b = Len(Code(p[j])) OBVIOUS
    <2>10. a \in Nat /\ b \in {1, 3} BY <2>4, <2>5, <2>9
    <2>11. Len(u[j]) = a + b BY <2>4, <2>9
    <2>12. Len(u[j]) <= a BY <2>6, <2>7, <2>8, <2>9
    <2> QED BY <2>10, <2>11, <2>12
<1>10. m = n BY <1>3, <1>8, <1>9
<1>11. \A i \in 1..m : p[i] = q[i] BY <1>3, <1>7, <1>10
<1> HIDE DEF Good
<1> QED BY <1>10, <1>11

\* What FoldLeft takes next.
Greatest(s) == CHOOSE x \in s : \A y \in s : x >= y

\* The greatest of the two indices.
LEMMA GreatestIs ==
    ASSUME NEW s \in SUBSET {1, 2}, s # {}
    PROVE  Greatest(s) = (IF 2 \in s THEN 2 ELSE 1)
<1>1. CASE 2 \in s
    <2>1. \A x \in s : (\A y \in s : x >= y) <=> x = 2 BY <1>1
    <2> QED BY <1>1, <2>1 DEF Greatest
<1>2. CASE 2 \notin s
    <2>1. s = {1} BY <1>2
    <2> QED BY <2>1 DEF Greatest
<1> QED BY <1>1, <1>2

\* Build, part by part.
LEMMA BuildIs ==
    ASSUME NEW list, NEW D \in SUBSET {1, 2}, DOMAIN list = D
    PROVE  Build(<<"x">>, list) =
              LET first == IF 1 \in D THEN Joined(<<"x">>, list[1]) ELSE <<"x">>
              IN  IF 2 \in D THEN Joined(first, list[2]) ELSE first
<1> DEFINE Body(g, s) == IF s = {} THEN <<"x">>
                         ELSE Joined(g[s \ {Greatest(s)}], list[Greatest(s)])
           P(g) == g = [s \in SUBSET D |-> Body(g, s)]
           One(s) == IF 1 \in s THEN Joined(<<"x">>, list[1]) ELSE <<"x">>
           Both(s) == IF 2 \in s THEN Joined(One(s), list[2]) ELSE One(s)
<1>1. \E g : P(g)
    <2> DEFINE g == [s \in SUBSET D |-> Both(s)]
    <2>1. ASSUME NEW s \in SUBSET D PROVE Both(s) = Body(g, s)
        <3>1. CASE s = {} BY <3>1
        <3>2. CASE 2 \in s
            <4>1. Greatest(s) = 2 BY <3>2, GreatestIs
            <4>2. s \ {2} \in SUBSET D /\ 2 \notin s \ {2} /\ (1 \in s \ {2} <=> 1 \in s) OBVIOUS
            <4>3. g[s \ {2}] = One(s)
                <5>1. g[s \ {2}] = Both(s \ {2}) BY <4>2
                <5>2. Both(s \ {2}) = One(s) BY <4>2, Zenon
                <5> QED BY <5>1, <5>2
            <4> HIDE DEF g, One
            <4> QED BY <3>2, <4>1, <4>3
        <3>3. CASE s # {} /\ 2 \notin s
            <4>1. Greatest(s) = 1 /\ 1 \in s BY <3>3, GreatestIs
            <4>2. s \ {1} = {} BY <3>3
            <4>3. g[{}] = <<"x">>
                <5>1. {} \in SUBSET D OBVIOUS
                <5>2. g[{}] = Both({}) BY <5>1
                <5>3. Both({}) = <<"x">> BY Zenon
                <5> QED BY <5>2, <5>3
            <4> HIDE DEF g
            <4> QED BY <3>3, <4>1, <4>2, <4>3
        <3> QED BY <3>1, <3>2, <3>3
    <2>2. P(g)
        <3> HIDE DEF Both, Body
        <3> QED BY <2>1
    <2> HIDE DEF P
    <2> QED BY <2>2
<1>2. P(CHOOSE g : P(g))
    <2> HIDE DEF P
    <2> QED BY <1>1, Zenon
<1>3. PICK g : P(g) /\ Build(<<"x">>, list) = g[D]
    <2>1. Build(<<"x">>, list) = (CHOOSE g : P(g))[D] BY Zenon DEF Build, FoldLeft, MapThenFoldSet, Max, Greatest
    <2> HIDE DEF P
    <2> QED BY <1>2, <2>1
<1>4. ASSUME NEW s \in SUBSET D PROVE g[s] = Body(g, s)
    <2> HIDE DEF Body
    <2> QED BY <1>3
<1>5. g[{}] = <<"x">>
    <2>1. {} \in SUBSET D OBVIOUS
    <2> QED BY <1>4, <2>1
<1>6. 1 \in D => g[{1}] = Joined(<<"x">>, list[1])
    <2> SUFFICES ASSUME 1 \in D PROVE g[{1}] = Joined(<<"x">>, list[1]) OBVIOUS
    <2>1. {1} \in SUBSET D /\ Greatest({1}) = 1 /\ {1} \ {1} = {} BY GreatestIs
    <2> QED BY <1>4, <1>5, <2>1
<1>7. 2 \in D => Greatest(D) = 2 /\ D \ {2} \in SUBSET D /\ g[D] = Joined(g[D \ {2}], list[2])
    <2> SUFFICES ASSUME 2 \in D PROVE Greatest(D) = 2 /\ g[D] = Joined(g[D \ {2}], list[2]) OBVIOUS
    <2>1. Greatest(D) = 2 BY GreatestIs
    <2> QED BY <1>4, <2>1
<1>8. D = {} \/ D = {1} \/ D = {2} \/ D = {1, 2} OBVIOUS
<1>9. CASE D = {} BY <1>3, <1>5, <1>9
<1>10. CASE D = {1} BY <1>3, <1>6, <1>10
<1>11. CASE D = {2}
    <2>1. D \ {2} = {} BY <1>11
    <2> QED BY <1>3, <1>5, <1>7, <1>11, <2>1
<1>12. CASE D = {1, 2}
    <2>1. D \ {2} = {1} BY <1>12
    <2> QED BY <1>3, <1>6, <1>7, <1>12, <2>1
<1> QED BY <1>8, <1>9, <1>10, <1>11, <1>12

\* NotEmpty, part by part.
LEMMA NotEmptyIs ==
    ASSUME NEW list, NEW D \in SUBSET {1, 2}, DOMAIN list = D
    PROVE  NotEmpty(list) =
              LET first == IF 1 \in D THEN WithPart(<<>>, list[1]) ELSE <<>>
              IN  IF 2 \in D THEN WithPart(first, list[2]) ELSE first
<1> DEFINE Body(g, s) == IF s = {} THEN <<>>
                         ELSE WithPart(g[s \ {Greatest(s)}], list[Greatest(s)])
           P(g) == g = [s \in SUBSET D |-> Body(g, s)]
           One(s) == IF 1 \in s THEN WithPart(<<>>, list[1]) ELSE <<>>
           Both(s) == IF 2 \in s THEN WithPart(One(s), list[2]) ELSE One(s)
<1>1. \E g : P(g)
    <2> DEFINE g == [s \in SUBSET D |-> Both(s)]
    <2>1. ASSUME NEW s \in SUBSET D PROVE Both(s) = Body(g, s)
        <3>1. CASE s = {} BY <3>1
        <3>2. CASE 2 \in s
            <4>1. Greatest(s) = 2 BY <3>2, GreatestIs
            <4>2. s \ {2} \in SUBSET D /\ 2 \notin s \ {2} /\ (1 \in s \ {2} <=> 1 \in s) OBVIOUS
            <4>3. g[s \ {2}] = One(s)
                <5>1. g[s \ {2}] = Both(s \ {2}) BY <4>2
                <5>2. Both(s \ {2}) = One(s) BY <4>2, Zenon
                <5> QED BY <5>1, <5>2
            <4> HIDE DEF g, One
            <4> QED BY <3>2, <4>1, <4>3
        <3>3. CASE s # {} /\ 2 \notin s
            <4>1. Greatest(s) = 1 /\ 1 \in s BY <3>3, GreatestIs
            <4>2. s \ {1} = {} BY <3>3
            <4>3. g[{}] = <<>>
                <5>1. {} \in SUBSET D OBVIOUS
                <5>2. g[{}] = Both({}) BY <5>1
                <5>3. Both({}) = <<>> BY Zenon
                <5> QED BY <5>2, <5>3
            <4> HIDE DEF g
            <4> QED BY <3>3, <4>1, <4>2, <4>3
        <3> QED BY <3>1, <3>2, <3>3
    <2>2. P(g)
        <3> HIDE DEF Both, Body
        <3> QED BY <2>1
    <2> HIDE DEF P
    <2> QED BY <2>2
<1>2. P(CHOOSE g : P(g))
    <2> HIDE DEF P
    <2> QED BY <1>1, Zenon
<1>3. PICK g : P(g) /\ NotEmpty(list) = g[D]
    <2>1. NotEmpty(list) = (CHOOSE g : P(g))[D] BY Zenon DEF NotEmpty, FoldLeft, MapThenFoldSet, Max, Greatest
    <2> HIDE DEF P
    <2> QED BY <1>2, <2>1
<1>4. ASSUME NEW s \in SUBSET D PROVE g[s] = Body(g, s)
    <2> HIDE DEF Body
    <2> QED BY <1>3
<1>5. g[{}] = <<>>
    <2>1. {} \in SUBSET D OBVIOUS
    <2> QED BY <1>4, <2>1
<1>6. 1 \in D => g[{1}] = WithPart(<<>>, list[1])
    <2> SUFFICES ASSUME 1 \in D PROVE g[{1}] = WithPart(<<>>, list[1]) OBVIOUS
    <2>1. {1} \in SUBSET D /\ Greatest({1}) = 1 /\ {1} \ {1} = {} BY GreatestIs
    <2> QED BY <1>4, <1>5, <2>1
<1>7. 2 \in D => Greatest(D) = 2 /\ D \ {2} \in SUBSET D /\ g[D] = WithPart(g[D \ {2}], list[2])
    <2> SUFFICES ASSUME 2 \in D PROVE Greatest(D) = 2 /\ g[D] = WithPart(g[D \ {2}], list[2]) OBVIOUS
    <2>1. Greatest(D) = 2 BY GreatestIs
    <2> QED BY <1>4, <2>1
<1>8. D = {} \/ D = {1} \/ D = {2} \/ D = {1, 2} OBVIOUS
<1>9. CASE D = {} BY <1>3, <1>5, <1>9
<1>10. CASE D = {1} BY <1>3, <1>6, <1>10
<1>11. CASE D = {2}
    <2>1. D \ {2} = {} BY <1>11
    <2> QED BY <1>3, <1>5, <1>7, <1>11, <2>1
<1>12. CASE D = {1, 2}
    <2>1. D \ {2} = {1} BY <1>12
    <2> QED BY <1>3, <1>6, <1>7, <1>12, <2>1
<1> QED BY <1>8, <1>9, <1>10, <1>11, <1>12

\* What stands where in a key that goes on with a part whose escape is e.
GoesOn(key, e, whole) ==
    /\ Len(whole) = Len(key) + 1 + Len(e)
    /\ \A x \in 1..Len(key) : whole[x] = key[x]
    /\ whole[Len(key) + 1] = ":"
    /\ \A x \in 1..Len(e) : whole[Len(key) + 1 + x] = e[x]

\* What stands where in v \o e.
LEMMA ConcatIs ==
    ASSUME NEW v \in Seq(Letters), NEW e \in Seq(Letters), NEW w, w = v \o e,
           NEW n, n = Len(v), NEW m, m = Len(e)
    PROVE  /\ w \in Seq(Letters) /\ n \in Nat /\ m \in Nat /\ Len(w) = n + m
           /\ \A x \in 1..n : w[x] = v[x]
           /\ \A x \in 1..m : w[n + x] = e[x]
<1>1. w \in Seq(Letters) /\ n \in Nat /\ m \in Nat /\ Len(w) = n + m OBVIOUS
<1>2. \A x \in 1..(n + m) : w[x] = IF x <= n THEN v[x] ELSE e[x - n] BY ConcatProperties, Zenon
<1>3. \A x \in 1..n : w[x] = v[x] BY <1>1, <1>2
<1>4. ASSUME NEW x \in 1..m PROVE w[n + x] = e[x]
    <2>1. n + x \in 1..(n + m) /\ ~(n + x <= n) /\ (n + x) - n = x BY <1>1
    <2> QED BY <1>2, <2>1
<1> QED BY <1>1, <1>3, <1>4

\* A part that is not empty, after a key that is not: what Joined appends.
LEMMA JoinedIs ==
    ASSUME NEW key \in Seq(Letters), key # <<>>, NEW piece \in Seq(Char), piece # <<>>
    PROVE  /\ Joined(key, piece) \in Seq(Letters) /\ Joined(key, piece) # <<>>
           /\ GoesOn(key, Escaped(piece), Joined(key, piece))
<1>1. PICK e, s, v, w : e = Escaped(piece) /\ s = <<":">> /\ v = key \o s /\ w = v \o e OBVIOUS
<1>2. e \in Seq(Letters) BY <1>1, NoSeparator
<1>3. s \in Seq(Letters) /\ Len(s) = 1 /\ s[1] = ":" BY <1>1 DEF Letters
<1>4. Joined(key, piece) = w BY <1>1 DEF Joined
<1>5. PICK n, m : n = Len(key) /\ m = Len(e) OBVIOUS
<1>6. /\ v \in Seq(Letters) /\ n \in Nat /\ Len(v) = n + 1
      /\ \A x \in 1..n : v[x] = key[x]
      /\ \A x \in 1..1 : v[n + x] = s[x]
    BY <1>1, <1>3, <1>5, ConcatIs
<1>7. v[n + 1] = ":"
    <2>1. 1 \in 1..1 OBVIOUS
    <2> QED BY <1>3, <1>6, <2>1
<1>8. PICK p : p = n + 1 OBVIOUS
<1>9. /\ w \in Seq(Letters) /\ m \in Nat /\ Len(w) = p + m
      /\ \A x \in 1..p : w[x] = v[x]
      /\ \A x \in 1..m : w[p + x] = e[x]
    <2>1. p = Len(v) BY <1>6, <1>8
    <2> QED BY <1>1, <1>2, <1>5, <1>6, <2>1, ConcatIs
<1>10. GoesOn(key, e, w)
    <2>1. p \in 1..p /\ \A x \in 1..n : x \in 1..p BY <1>6, <1>8
    <2>2. \A x \in 1..n : w[x] = key[x] BY <1>6, <1>9, <2>1
    <2>3. w[p] = ":" BY <1>7, <1>8, <1>9, <2>1
    <2> QED BY <1>5, <1>8, <1>9, <2>2, <2>3 DEF GoesOn
<1>11. w # <<>>
    <2>1. Len(w) # 0 BY <1>6, <1>8, <1>9
    <2> QED BY <2>1
<1> QED BY <1>1, <1>4, <1>9, <1>10, <1>11

\* The keys of one part and of two.
Key1(a) == Joined(<<"x">>, a)
Key2(a, b) == Joined(Key1(a), b)
Filled == Seq(Char) \ {<<>>}

\* Where the escape stands in the key of one part.
LEMMA Key1Is ==
    ASSUME NEW a \in Filled
    PROVE  /\ Key1(a) \in Seq(Letters) /\ Key1(a) # <<>>
           /\ Len(Key1(a)) = 2 + Len(Escaped(a))
           /\ \A x \in 1..Len(Escaped(a)) : Key1(a)[2 + x] = Escaped(a)[x]
<1>1. PICK key : key = <<"x">> OBVIOUS
<1>2. key \in Seq(Letters) /\ key # <<>> /\ Len(key) = 1 BY <1>1 DEF Letters
<1>3. /\ Joined(key, a) \in Seq(Letters) /\ Joined(key, a) # <<>>
      /\ GoesOn(key, Escaped(a), Joined(key, a))
    BY <1>2, JoinedIs DEF Filled
<1>4. PICK e, w, m : e = Escaped(a) /\ w = Joined(key, a) /\ m = Len(e) OBVIOUS
<1>5. m \in Nat BY <1>4, NoSeparator DEF Filled
<1>6. Len(w) = 2 + m /\ \A x \in 1..m : w[2 + x] = e[x]
    <2>1. Len(w) = 1 + 1 + m /\ \A x \in 1..m : w[1 + 1 + x] = e[x] BY <1>2, <1>3, <1>4 DEF GoesOn
    <2> QED BY <1>5, <2>1
<1> QED BY <1>1, <1>3, <1>4, <1>6 DEF Key1

\* w spells two parts with the escapes e and f.
Spells(w, e, f) ==
    /\ Len(e) \in Nat /\ Len(f) \in Nat
    /\ \A x \in 1..Len(e) : e[x] # ":"
    /\ Len(w) = 3 + Len(e) + Len(f)
    /\ \A x \in 1..Len(e) : w[2 + x] = e[x]
    /\ w[3 + Len(e)] = ":"
    /\ \A x \in 1..Len(f) : w[3 + Len(e) + x] = f[x]

\* Where the second separator stands in the key of two parts.
LEMMA Key2Is ==
    ASSUME NEW a \in Filled, NEW b \in Filled, NEW e, NEW f, NEW w,
           e = Escaped(a), f = Escaped(b), w = Key2(a, b)
    PROVE  Spells(w, e, f)
<1>1. PICK v : v = Key1(a) OBVIOUS
<1>2. v \in Seq(Letters) /\ v # <<>> /\ Len(v) = 2 + Len(e) /\ \A x \in 1..Len(e) : v[2 + x] = e[x]
    BY <1>1, Key1Is
<1>3. GoesOn(v, f, w) BY <1>1, <1>2, JoinedIs DEF Key2, Filled
<1>4. e \in Seq(Letters) /\ f \in Seq(Letters) /\ \A x \in 1..Len(e) : e[x] # ":"
    BY NoSeparator DEF Filled
<1>5. PICK n, m : n = Len(e) /\ m = Len(f) OBVIOUS
<1>6. n \in Nat /\ m \in Nat BY <1>4, <1>5
<1>7. /\ Len(w) = 2 + n + 1 + m
      /\ \A x \in 1..(2 + n) : w[x] = v[x]
      /\ w[2 + n + 1] = ":"
      /\ \A x \in 1..m : w[2 + n + 1 + x] = f[x]
    BY <1>2, <1>3, <1>5 DEF GoesOn
<1>8. 2 + n + 1 = 3 + n /\ \A x \in 1..n : 2 + x \in 1..(2 + n) BY <1>6
<1>9. \A x \in 1..n : w[2 + x] = e[x] BY <1>2, <1>5, <1>7, <1>8
<1>10. w[3 + n] = ":" /\ Len(w) = 3 + n + m BY <1>6, <1>7, <1>8
<1>11. \A x \in 1..m : w[3 + n + x] = f[x] BY <1>7, <1>8
<1> QED BY <1>4, <1>5, <1>6, <1>9, <1>10, <1>11 DEF Spells

\* Sequences of one length with the same elements are one.
LEMMA SameSequence ==
    ASSUME NEW S, NEW e \in Seq(S), NEW f \in Seq(S), Len(e) = Len(f),
           \A x \in 1..Len(e) : e[x] = f[x]
    PROVE  e = f
OBVIOUS

\* Two keys of one part.
LEMMA Key1Injective ==
    ASSUME NEW a \in Filled, NEW c \in Filled, Key1(a) = Key1(c)
    PROVE  a = c
<1>1. PICK e, f, w : e = Escaped(a) /\ f = Escaped(c) /\ w = Key1(a) OBVIOUS
<1>2. e \in Seq(Letters) /\ f \in Seq(Letters) BY <1>1, NoSeparator DEF Filled
<1>3. /\ Len(w) = 2 + Len(e) /\ \A x \in 1..Len(e) : w[2 + x] = e[x]
      /\ Len(w) = 2 + Len(f) /\ \A x \in 1..Len(f) : w[2 + x] = f[x]
    BY <1>1, Key1Is
<1>4. Len(e) = Len(f) BY <1>2, <1>3
<1>5. e = f BY <1>2, <1>3, <1>4, SameSequence
<1> QED BY <1>1, <1>5, EscapedInjective DEF Filled

\* A key of one part has no separator where a key of two has its second.
LEMMA KeysApart ==
    ASSUME NEW a \in Filled, NEW c \in Filled, NEW d \in Filled
    PROVE  Key1(a) # Key2(c, d)
<1> SUFFICES ASSUME Key1(a) = Key2(c, d) PROVE FALSE OBVIOUS
<1>1. PICK e, g, h, w : e = Escaped(a) /\ g = Escaped(c) /\ h = Escaped(d) /\ w = Key1(a) OBVIOUS
<1>2. e \in Seq(Letters) /\ \A x \in 1..Len(e) : e[x] # ":" BY <1>1, NoSeparator DEF Filled
<1>3. Len(w) = 2 + Len(e) /\ \A x \in 1..Len(e) : w[2 + x] = e[x] BY <1>1, Key1Is
<1>4. w = Key2(c, d) BY <1>1
<1>5. Len(g) \in Nat /\ Len(h) \in Nat /\ Len(w) = 3 + Len(g) + Len(h) /\ w[3 + Len(g)] = ":"
    BY <1>1, <1>4, Key2Is DEF Spells
<1>6. PICK y : y = 1 + Len(g) OBVIOUS
<1>7. y \in 1..Len(e) /\ 2 + y = 3 + Len(g) BY <1>2, <1>3, <1>5, <1>6
<1> QED BY <1>2, <1>3, <1>5, <1>7

\* Two keys of two parts: the second separator stands at the same place in both.
LEMMA Key2Injective ==
    ASSUME NEW a \in Filled, NEW b \in Filled, NEW c \in Filled, NEW d \in Filled,
           Key2(a, b) = Key2(c, d)
    PROVE  a = c /\ b = d
<1>1. PICK e, f, w : e = Escaped(a) /\ f = Escaped(b) /\ w = Key2(a, b) OBVIOUS
<1>2. PICK g, h : g = Escaped(c) /\ h = Escaped(d) /\ w = Key2(c, d) BY <1>1
<1>3. e \in Seq(Letters) /\ f \in Seq(Letters) /\ g \in Seq(Letters) /\ h \in Seq(Letters)
    BY <1>1, <1>2, NoSeparator DEF Filled
<1>4. /\ \A x \in 1..Len(e) : e[x] # ":"
      /\ Len(w) = 3 + Len(e) + Len(f)
      /\ \A x \in 1..Len(e) : w[2 + x] = e[x]
      /\ w[3 + Len(e)] = ":"
      /\ \A x \in 1..Len(f) : w[3 + Len(e) + x] = f[x]
    <2>1. Spells(w, e, f) BY <1>1, Key2Is
    <2> QED BY <2>1 DEF Spells
<1>5. /\ \A x \in 1..Len(g) : g[x] # ":"
      /\ Len(w) = 3 + Len(g) + Len(h)
      /\ \A x \in 1..Len(g) : w[2 + x] = g[x]
      /\ w[3 + Len(g)] = ":"
      /\ \A x \in 1..Len(h) : w[3 + Len(g) + x] = h[x]
    <2>1. Spells(w, g, h) BY <1>2, Key2Is
    <2> QED BY <2>1 DEF Spells
<1>6. Len(e) \in Nat /\ Len(g) \in Nat /\ Len(f) \in Nat /\ Len(h) \in Nat BY <1>3
<1>7. ~(Len(e) < Len(g))
    <2> SUFFICES ASSUME Len(e) < Len(g) PROVE FALSE OBVIOUS
    <2>1. PICK y : y = 1 + Len(e) OBVIOUS
    <2>2. y \in 1..Len(g) /\ 2 + y = 3 + Len(e) BY <1>6, <2>1
    <2> QED BY <1>4, <1>5, <2>2
<1>8. ~(Len(g) < Len(e))
    <2> SUFFICES ASSUME Len(g) < Len(e) PROVE FALSE OBVIOUS
    <2>1. PICK y : y = 1 + Len(g) OBVIOUS
    <2>2. y \in 1..Len(e) /\ 2 + y = 3 + Len(g) BY <1>6, <2>1
    <2> QED BY <1>4, <1>5, <2>2
<1>9. Len(e) = Len(g) BY <1>6, <1>7, <1>8
<1>10. Len(f) = Len(h) BY <1>4, <1>5, <1>6, <1>9
<1>11. e = g BY <1>3, <1>4, <1>5, <1>9, SameSequence
<1>12. f = h BY <1>3, <1>4, <1>5, <1>9, <1>10, SameSequence
<1>13. a = c BY <1>1, <1>2, <1>11, EscapedInjective DEF Filled
<1>14. b = d BY <1>1, <1>2, <1>12, EscapedInjective DEF Filled
<1> QED BY <1>13, <1>14

\* A part is a text, whatever the bound on its length.
LEMMA PartIsText == Part \subseteq Seq(Char)
<1> SUFFICES ASSUME NEW p \in Part PROVE p \in Seq(Char) OBVIOUS
<1>1. PICK n \in 0..MaxLength : p \in [1..n -> Char] BY DEF Part
<1>2. n \in Nat BY CharAssumption
<1> QED BY <1>1, <1>2

\* The three forms of a list of parts, its empty parts skipped, and of its key.
Form0(list) == NotEmpty(list) = <<>> /\ Build(<<"x">>, list) = <<"x">>
Form1(list, a) == NotEmpty(list) = <<a>> /\ Build(<<"x">>, list) = Key1(a)
Form2(list, a, b) == NotEmpty(list) = <<a, b>> /\ Build(<<"x">>, list) = Key2(a, b)
Formed(list) ==
    \/ Form0(list)
    \/ \E a \in Filled : Form1(list, a)
    \/ \E a, b \in Filled : Form2(list, a, b)

\* Every list of parts has one of the three forms.
LEMMA Forms == ASSUME NEW list \in PartLists PROVE Formed(list)
<1>1. \A key : Joined(key, <<>>) = key BY Zenon DEF Joined
<1>2. \A l : WithPart(l, <<>>) = l BY Zenon DEF WithPart
<1>3. \A p : p # <<>> => WithPart(<<>>, p) = <<p>>
    <2>1. \A p : Append(<<>>, p) = <<p>> OBVIOUS
    <2> QED BY <2>1, Zenon DEF WithPart
<1>4. \A p, q : p # <<>> => WithPart(<<q>>, p) = <<q, p>>
    <2>1. ASSUME NEW p, NEW q PROVE Append(<<q>>, p) = <<q, p>>
        <3> DEFINE S == {p, q}
        <3>1. p \in S /\ <<q>> \in Seq(S) /\ Len(<<q>>) = 1 OBVIOUS
        <3>2. Append(<<q>>, p) \in Seq(S) /\ Len(Append(<<q>>, p)) = 2 BY <3>1
        <3>3. Append(<<q>>, p)[1] = q /\ Append(<<q>>, p)[2] = p BY <3>1
        <3>4. PICK s, t : s = Append(<<q>>, p) /\ t = <<q, p>> OBVIOUS
        <3>5. t \in Seq(S) /\ Len(t) = 2 /\ t[1] = q /\ t[2] = p BY <3>4
        <3>6. s \in Seq(S) /\ Len(s) = 2 /\ s[1] = q /\ s[2] = p BY <3>2, <3>3, <3>4
        <3> HIDE DEF S
        <3>7. s = t BY <3>5, <3>6, SameSequence
        <3> QED BY <3>4, <3>7
    <2> QED BY <2>1, Zenon DEF WithPart
<1>5. CASE list = <<>>
    <2>1. DOMAIN list = {} BY <1>5
    <2>2. Build(<<"x">>, list) = <<"x">> BY <2>1, BuildIs
    <2>3. NotEmpty(list) = <<>> BY <2>1, NotEmptyIs
    <2> QED BY <2>2, <2>3 DEF Formed, Form0
<1>6. ASSUME NEW p \in Part, list = <<p>> PROVE Formed(list)
    <2>1. DOMAIN list = {1} /\ list[1] = p BY <1>6
    <2>2. Build(<<"x">>, list) = Joined(<<"x">>, p) BY <2>1, BuildIs
    <2>3. NotEmpty(list) = WithPart(<<>>, p) BY <2>1, NotEmptyIs
    <2>4. CASE p = <<>>
        <3>1. Form0(list) BY <1>1, <1>2, <2>2, <2>3, <2>4, Zenon DEF Form0
        <3> QED BY <3>1 DEF Formed
    <2>5. CASE p # <<>>
        <3>1. p \in Filled BY <2>5, PartIsText DEF Filled
        <3>2. Form1(list, p) BY <1>3, <2>2, <2>3, <2>5, Zenon DEF Form1, Key1
        <3> QED BY <3>1, <3>2 DEF Formed
    <2> QED BY <2>4, <2>5
<1>7. ASSUME list \in Part \X Part PROVE Formed(list)
    <2>1. PICK p, q \in Part : list = <<p, q>> BY <1>7
    <2>2. DOMAIN list = {1, 2} /\ list[1] = p /\ list[2] = q BY <2>1
    <2>3. Build(<<"x">>, list) = Joined(Joined(<<"x">>, p), q) BY <2>2, BuildIs
    <2>4. NotEmpty(list) = WithPart(WithPart(<<>>, p), q) BY <2>2, NotEmptyIs
    <2>5. (p # <<>> => p \in Filled) /\ (q # <<>> => q \in Filled) BY PartIsText DEF Filled
    <2>6. CASE p = <<>> /\ q = <<>>
        <3>1. Form0(list) BY <1>1, <1>2, <2>3, <2>4, <2>6, Zenon DEF Form0
        <3> QED BY <3>1 DEF Formed
    <2>7. CASE p # <<>> /\ q = <<>>
        <3>1. Form1(list, p) BY <1>1, <1>2, <1>3, <2>3, <2>4, <2>7, Zenon DEF Form1, Key1
        <3> QED BY <2>5, <2>7, <3>1 DEF Formed
    <2>8. CASE p = <<>> /\ q # <<>>
        <3>1. Form1(list, q) BY <1>1, <1>2, <1>3, <2>3, <2>4, <2>8, Zenon DEF Form1, Key1
        <3> QED BY <2>5, <2>8, <3>1 DEF Formed
    <2>9. CASE p # <<>> /\ q # <<>>
        <3>1. Form2(list, p, q) BY <1>3, <1>4, <2>3, <2>4, <2>9, Zenon DEF Form2, Key1, Key2
        <3> QED BY <2>5, <2>9, <3>1 DEF Formed
    <2> QED BY <2>6, <2>7, <2>8, <2>9
<1> QED BY <1>5, <1>6, <1>7 DEF PartLists

\* Two lists of parts with one key have the same nonempty parts: no two keys of different
\* forms are one, and within a form the escapes tell the parts apart.
LEMMA KeysTell ==
    ASSUME NEW list \in PartLists, NEW other \in PartLists,
           Build(<<"x">>, list) = Build(<<"x">>, other)
    PROVE  NotEmpty(list) = NotEmpty(other)
<1>1. \A a \in Filled : Key1(a) # <<"x">>
    <2> SUFFICES ASSUME NEW a \in Filled, Key1(a) = <<"x">> PROVE FALSE OBVIOUS
    <2>1. Len(Key1(a)) = 2 + Len(Escaped(a)) BY Key1Is
    <2>2. Len(Escaped(a)) \in Nat BY NoSeparator DEF Filled
    <2>3. Len(Key1(a)) = 1
        <3>1. Len(<<"x">>) = 1 OBVIOUS
        <3> QED BY <3>1
    <2> QED BY <2>1, <2>2, <2>3
<1>2. \A a, b \in Filled : Key2(a, b) # <<"x">>
    <2> SUFFICES ASSUME NEW a \in Filled, NEW b \in Filled, Key2(a, b) = <<"x">> PROVE FALSE OBVIOUS
    <2>1. PICK e, f, w : e = Escaped(a) /\ f = Escaped(b) /\ w = Key2(a, b) OBVIOUS
    <2>2. Spells(w, e, f) BY <2>1, Key2Is
    <2>3. Len(w) = 3 + Len(e) + Len(f) /\ Len(e) \in Nat /\ Len(f) \in Nat BY <2>2 DEF Spells
    <2>4. Len(w) = 1
        <3>1. w = <<"x">> BY <2>1
        <3> QED BY <3>1
    <2>5. \A n, m \in Nat : 3 + n + m # 1 OBVIOUS
    <2> QED BY <2>3, <2>4, <2>5, Zenon
<1>3. Formed(list) /\ Formed(other) BY Forms
<1>4. CASE Form0(list) BY <1>1, <1>2, <1>3, <1>4, Zenon DEF Formed, Form0, Form1, Form2
<1>5. ASSUME NEW a \in Filled, Form1(list, a) PROVE NotEmpty(list) = NotEmpty(other)
    BY <1>1, <1>3, <1>5, Key1Injective, KeysApart, Zenon DEF Formed, Form0, Form1, Form2
<1>6. ASSUME NEW a \in Filled, NEW b \in Filled, Form2(list, a, b) PROVE NotEmpty(list) = NotEmpty(other)
    <2>1. ~Form0(other) BY <1>2, <1>6, Zenon DEF Form0, Form2
    <2>2. ASSUME NEW c \in Filled, Form1(other, c) PROVE FALSE
        BY <1>6, <2>2, KeysApart, Zenon DEF Form1, Form2
    <2>3. ASSUME NEW c \in Filled, NEW d \in Filled, Form2(other, c, d) PROVE NotEmpty(list) = NotEmpty(other)
        <3>1. Key2(a, b) = Key2(c, d) BY <1>6, <2>3, Zenon DEF Form2
        <3>2. a = c /\ b = d BY <3>1, Key2Injective
        <3> QED BY <1>6, <2>3, <3>2, Zenon DEF Form2
    <2> QED BY <1>3, <2>1, <2>2, <2>3, Zenon DEF Formed
<1> QED BY <1>3, <1>4, <1>5, <1>6, Zenon DEF Formed

\* So no two lists of parts with different nonempty parts have one key.
LEMMA BuildTells == parts \in PartLists => BuildInjective
<1> SUFFICES ASSUME parts \in PartLists, NEW list \in PartLists,
                    Built[list] = Build(<<"x">>, parts)
             PROVE  NotEmpty(list) = NotEmpty(parts)
    BY Zenon DEF BuildInjective
<1>1. Built[list] = Build(<<"x">>, list) BY Zenon DEF Built
<1> QED BY <1>1, KeysTell, Zenon

-----------------------------------------------------------------------------
(* Qualify: the words of a key after the namespace. *)

Words(r) ==
    CASE r.of = "lock" -> <<"lock:">> \o r.name
      [] r.of = "fence" -> <<"lock:", "fence:">> \o r.name
      [] r.of = "rl" -> <<"rl:">> \o r.name
      [] r.of = "token" -> <<"token:">> \o r.name
      [] r.of = "cache" -> r.name

\* The names of the resources are sequences of words.
LEMMA NameIsWords == ASSUME NEW r \in Resources PROVE r.name \in Seq(Word) /\ r.of \in Module
<1>1. r.name \in Names /\ r.of \in Module BY DEF Resources
<1>2. PICK n \in 0..2 : r.name \in [1..n -> Word] BY <1>1 DEF Names
<1> QED BY <1>1, <1>2

\* What keys are written in.
Text == Seq(Word \cup {"app:", "lock:", "fence:", "rl:", "token:"})

\* What follows a prefix is determined by the whole.
LEMMA AfterPrefix ==
    ASSUME NEW h \in Text, NEW a \in Text, NEW b \in Text, h \o a = h \o b
    PROVE  a = b
<1>1. PICK n, l, m, v : n = Len(h) /\ l = Len(a) /\ m = Len(b) /\ v = h \o a OBVIOUS
<1>2. n \in Nat /\ l \in Nat /\ m \in Nat BY <1>1 DEF Text
<1>3. Len(v) = n + l /\ Len(v) = n + m BY <1>1 DEF Text
<1>4. l = m BY <1>2, <1>3
<1>5. \A x \in 1..l : v[n + x] = a[x] /\ v[n + x] = b[x] BY <1>1, <1>2, <1>4 DEF Text
<1>6. \A x \in 1..l : a[x] = b[x] BY <1>5
<1>7. a \in Seq(Word \cup {"app:", "lock:", "fence:", "rl:", "token:"}) BY DEF Text
<1>8. b \in Seq(Word \cup {"app:", "lock:", "fence:", "rl:", "token:"}) BY DEF Text
<1> QED BY <1>1, <1>4, <1>6, <1>7, <1>8

\* A prefix of one word is the first word.
LEMMA FirstWord ==
    ASSUME NEW w \in {"app:", "lock:", "rl:", "token:"}, NEW a \in Text
    PROVE  (<<w>> \o a)[1] = w
BY DEF Text

\* The words of a key are text.
LEMMA WordsAreText ==
    ASSUME NEW r \in Resources
    PROVE  r.name \in Text /\ Words(r) \in Text
<1>1. r.name \in Seq(Word) /\ r.of \in Module BY NameIsWords
<1>2. r.name \in Text BY <1>1 DEF Text
<1>3. /\ <<"lock:">> \o r.name \in Text /\ <<"lock:", "fence:">> \o r.name \in Text
      /\ <<"rl:">> \o r.name \in Text /\ <<"token:">> \o r.name \in Text
    BY <1>2 DEF Text
<1> QED BY <1>1, <1>2, <1>3 DEF Words, Module

\* The namespace is the same for all.
LEMMA SameKeySameWords ==
    ASSUME NEW r \in Resources, NEW s \in Resources, KeyOf(r) = KeyOf(s)
    PROVE  Words(r) = Words(s)
<1>1. <<"app:">> # <<>> /\ <<"app:">> \in Text BY DEF Text
<1>2. KeyOf(r) = <<"app:">> \o Words(r) BY <1>1, Zenon DEF KeyOf, Qualify, Words
<1>3. KeyOf(s) = <<"app:">> \o Words(s) BY <1>1, Zenon DEF KeyOf, Qualify, Words
<1>4. Words(r) \in Text /\ Words(s) \in Text BY WordsAreText
<1>5. <<"app:">> \o Words(r) = <<"app:">> \o Words(s) BY <1>2, <1>3, Zenon
<1> QED BY <1>1, <1>4, <1>5, AfterPrefix, Zenon

\* The word a key begins with tells the parts of rediskit apart, the fence from the lock no more.
LEMMA Beginning ==
    ASSUME NEW r \in Resources, r.of # "cache"
    PROVE  Words(r)[1] = CASE r.of = "rl" -> "rl:" [] r.of = "token" -> "token:" [] OTHER -> "lock:"
<1>1. r.name \in Text BY WordsAreText
<1>2. r.of \in {"lock", "fence", "rl", "token"} BY NameIsWords DEF Module
<1>3. /\ (<<"lock:">> \o r.name)[1] = "lock:"
      /\ (<<"rl:">> \o r.name)[1] = "rl:" /\ (<<"token:">> \o r.name)[1] = "token:"
    BY <1>1, FirstWord
<1>4. (<<"lock:", "fence:">> \o r.name)[1] = "lock:" BY <1>1 DEF Text
<1> QED BY <1>2, <1>3, <1>4 DEF Words

\* The fence counter of a lock and another lock: the case of lock.go 68 that remains.
LEMMA FenceMeetsLock ==
    ASSUME NEW r \in Resources, NEW s \in Resources, r.of = "fence", s.of = "lock",
           Words(r) = Words(s)
    PROVE  MeetsLock(r, s)
<1>1. PICK a, b : a = s.name /\ b = r.name OBVIOUS
<1>2. a \in Text /\ b \in Text BY <1>1, WordsAreText
<1>3. <<"lock:", "fence:">> \o b = <<"lock:">> \o a BY <1>1, Zenon DEF Words
<1>4. PICK v : v = <<"lock:">> \o a OBVIOUS
<1>5. Len(v) = 1 + Len(a) /\ \A x \in 1..Len(a) : v[1 + x] = a[x] BY <1>2, <1>4 DEF Text
<1>6. Len(v) = 2 + Len(b) /\ v[2] = "fence:" BY <1>2, <1>3, <1>4 DEF Text
<1>7. Len(a) \in Nat /\ Len(b) \in Nat BY <1>2 DEF Text
<1>8. 1 \in 1..Len(a) BY <1>5, <1>6, <1>7
<1>9. a[1] = "fence:" BY <1>5, <1>6, <1>8
<1>10. a # <<>> BY <1>8
<1> QED BY <1>1, <1>9, <1>10 DEF MeetsLock

\* Resources of one part of rediskit with one key are one.
LEMMA SameOf ==
    ASSUME NEW r \in Resources, NEW s \in Resources, r.of = s.of, Words(r) = Words(s)
    PROVE  r = s
<1>1. r.name \in Text /\ s.name \in Text /\ r.of \in Module BY NameIsWords, WordsAreText
<1>2. /\ <<"lock:">> \in Text /\ <<"lock:", "fence:">> \in Text
      /\ <<"rl:">> \in Text /\ <<"token:">> \in Text
    BY DEF Text
<1>3. r.name = s.name
    <2>1. CASE r.of = "lock" BY <1>1, <1>2, <2>1, AfterPrefix, Zenon DEF Words
    <2>2. CASE r.of = "fence"
        <3>1. <<"lock:", "fence:">> \o r.name = <<"lock:", "fence:">> \o s.name BY <2>2 DEF Words
        <3> QED BY <1>1, <1>2, <3>1, AfterPrefix, Zenon
    <2>3. CASE r.of = "rl"
        <3>1. <<"rl:">> \o r.name = <<"rl:">> \o s.name BY <2>3 DEF Words
        <3> QED BY <1>1, <1>2, <3>1, AfterPrefix, Zenon
    <2>4. CASE r.of = "token"
        <3>1. <<"token:">> \o r.name = <<"token:">> \o s.name BY <2>4 DEF Words
        <3> QED BY <1>1, <1>2, <3>1, AfterPrefix, Zenon
    <2>5. CASE r.of = "cache" BY <2>5 DEF Words
    <2> QED BY <1>1, <2>1, <2>2, <2>3, <2>4, <2>5 DEF Module
<1> QED BY <1>3 DEF Resources

\* So the keys of different parts meet only in the cases that ModulesApart lists.
LEMMA ModulesStayApart == resource \in Resources => ModulesApart
<1> SUFFICES ASSUME resource \in Resources, NEW r \in Resources,
                    KeyOf(r) = KeyOf(resource), r # resource,
                    r.of # "cache", resource.of # "cache"
             PROVE  MeetsLock(r, resource) \/ MeetsLock(resource, r)
    BY Zenon DEF ModulesApart
<1>1. PICK s : s = resource OBVIOUS
<1>2. s \in Resources /\ Words(r) = Words(s) BY <1>1, SameKeySameWords
<1>3. r.of # s.of BY <1>1, <1>2, SameOf
<1>4. {r.of, s.of} \subseteq {"lock", "fence", "rl", "token"} BY <1>1, <1>2, NameIsWords DEF Module
<1>5. Words(r)[1] = CASE r.of = "rl" -> "rl:" [] r.of = "token" -> "token:" [] OTHER -> "lock:"
    BY Beginning
<1>6. Words(s)[1] = CASE s.of = "rl" -> "rl:" [] s.of = "token" -> "token:" [] OTHER -> "lock:"
    BY <1>1, <1>2, Beginning
<1>7. (r.of = "fence" /\ s.of = "lock") \/ (s.of = "fence" /\ r.of = "lock")
    <2>1. PICK f : f = Words(r)[1] OBVIOUS
    <2> QED BY <1>2, <1>3, <1>4, <1>5, <1>6, <2>1
<1> QED BY <1>1, <1>2, <1>7, FenceMeetsLock

\* Both halves hold of every call of the key builder.
LEMMA TypedKeysDistinct == KeysTypeOK => KeysDistinct
BY BuildTells, ModulesStayApart DEF KeysTypeOK, KeysDistinct

-----------------------------------------------------------------------------
(* All the parts, as MCLabs runs them. *)

\* What the parts keep, whichever of them runs.
KeysInv == KeysTypeOK
PartsInv ==
    /\ part \in Parts
    /\ BreakerInv /\ HotInv /\ UserInv /\ LimiterInv /\ QueueInv
    /\ DelayInv /\ StreamInv /\ ArchiveInv /\ KeysInv /\ ErrorsInv

\* The lists of parts and the resources of the key builder are inputs, and stay so.
LEMMA KeysStart == KeysInit => KeysInv
<1> SUFFICES ASSUME KeysInit PROVE KeysInv
  OBVIOUS
<1>1. parts \in PartLists
  BY DEF KeysInit, PartLists
<1>2. <<>> \in Names
  <2>1. <<>> \in [1..0 -> Word]
    OBVIOUS
  <2>2. 0 \in 0..2
    OBVIOUS
  <2> QED
    BY <2>1, <2>2 DEF Names
<1>3. resource \in Resources
  BY <1>2 DEF KeysInit, Nothing, Resources, Module
<1> QED
  BY <1>1, <1>3 DEF KeysInv, KeysTypeOK

\* A call of the key builder is one of the inputs.
LEMMA KeysStep == KeysInv /\ [KeysNext]_keyVars => KeysInv'
BY DEF KeysInv, KeysTypeOK, KeysNext, keyVars

\* Every part starts as it does alone: the equalities MCLabs adds for the parts that do
\* not run only choose among their initial states.
LEMMA PartsStart == LabsInit => PartsInv
BY BreakerStarts, HotStarts, UserStarts, LimiterStarts, QueueStarts,
   DelayStarts, StreamStarts, ArchiveStarts, KeysStart, ErrorsStart
   DEF LabsInit, PartsInv

\* A step of one part is a stutter of every other.
LEMMA PartsMove ==
    ASSUME [LabsNext]_vars
    PROVE  /\ UNCHANGED part
           /\ [BreakerNext]_breakerVars /\ [HotNext]_hotVars
           /\ [UserNext]_userVars /\ [LimiterNext]_limiterVars /\ [QueueNext]_queueVars
           /\ [DelayNext]_delayVars /\ [StreamNext]_streamVars /\ [ArchiveNext]_archiveVars
           /\ [KeysNext]_keyVars /\ [ErrorsNext]_errorVars
<1>1. CASE LabsNext
  BY <1>1, Zenon DEF LabsNext, Others
<1>2. CASE UNCHANGED vars
  BY <1>2, Zenon DEF vars
<1> QED
  BY <1>1, <1>2

\* Every step of the labs keeps what the parts keep.
LEMMA PartsStep == PartsInv /\ [LabsNext]_vars => PartsInv'
<1> SUFFICES ASSUME PartsInv, [LabsNext]_vars PROVE PartsInv'
  OBVIOUS
<1> QED
  BY PartsMove, BreakerStep, HotStep, UserStep, LimiterSteps, QueueSteps,
     DelaySteps, StreamSteps, ArchiveSteps, KeysStep, ErrorsStep DEF PartsInv

\* The inductive invariant of the labs is that of every part.
THEOREM LabsInvariant == LabsSpec => []PartsInv
BY PartsStart, PartsStep, PTL DEF LabsSpec

\* The types of every part, for any number of its actors.
THEOREM LabsTypeCorrect == LabsSpec => []LabsTypeOK
<1>1. PartsInv => LabsTypeOK
  BY DEF PartsInv, LabsTypeOK, BreakerInv, HotInv, UserInv, LimiterInv, QueueInv,
         DelayInv, StreamInv, ArchiveInv, KeysInv, ErrorsInv
<1> QED
  BY <1>1, LabsInvariant, PTL

\* No job of either queue is lost, or run again without a cause.
THEOREM JobsAreSafeHolds == LabsSpec => []JobsAreSafe
<1>1. PartsInv => JobsAreSafe
  BY QueueInvSafe, DelayInvSafe DEF PartsInv, JobsAreSafe
<1> QED
  BY <1>1, LabsInvariant, PTL

\* The escaping keeps the parts of a key apart, and the prefixes the parts of rediskit: in
\* each call, of every set of characters and words and every bound on their number.
THEOREM KeysDistinctHolds == LabsSpec => []KeysDistinct
<1>1. PartsInv => KeysDistinct
  BY TypedKeysDistinct DEF PartsInv, KeysInv
<1> QED
  BY <1>1, LabsInvariant, PTL

\* What was proved of each part alone holds of it among the others.
THEOREM LabsAreSafe ==
    LabsSpec => [](/\ DownstreamSpared /\ OneRebuild /\ NoFalseAbsence /\ LimitsHold
                   /\ BillingFaithful /\ ViewsConserved /\ BlameIsRight)
<1>1. PartsInv => /\ DownstreamSpared /\ OneRebuild /\ NoFalseAbsence /\ LimitsHold
                  /\ BillingFaithful /\ ViewsConserved /\ BlameIsRight
  BY BreakerInvSpares, HotInvOne, LimiterInvHolds, StreamInvFaithful
     DEF PartsInv, UserInv, ArchiveInv, ErrorsInv
<1> QED
  BY <1>1, LabsInvariant, PTL

=============================================================================
