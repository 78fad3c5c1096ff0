---------------------------- MODULE OrderStream ----------------------------
(***************************************************************************)
(* Lab 01: order events in a stream with two consumer groups.  A billing   *)
(* worker reads new entries, which puts them into the group's pending list *)
(* (PEL); for each it asks a set whether the order was billed before       *)
(* (billProcessed), bills and acknowledges.  A second worker claims what   *)
(* is pending (XAUTOCLAIM with MinIdle 0, so also what the first is still  *)
(* at), bills without asking the set, and acknowledges.  The notify group  *)
(* has one consumer, n1, and nobody who claims what it leaves pending.      *)
(***************************************************************************)
EXTENDS Naturals, FiniteSets, Sequences, SequencesExt

CONSTANTS Order,
          MaxFails,     \* bound on crashes, errors and lost answers
          MaxClaims     \* bound on rounds of claiming

ASSUME FailsAssumption == MaxFails \in Nat /\ MaxClaims \in Nat

VARIABLES stream,      \* the orders of the entries; an entry is its index
          seen,        \* the last entry each group was given
          pel,         \* the pending entries of each group
          dedup,       \* the set demo:orders:dedup
          hand,        \* the entries each worker has in hand
          doing,       \* where it is with the first of them
          billed,      \* how often each order was billed
          claims,      \* how often XAUTOCLAIM took entries
          again,       \* orders that were claimed
          unsure,      \* orders for which SADD failed or lost its answer
          fails
streamVars == <<stream, seen, pel, dedup, hand, doing, billed, claims, again, unsure, fails>>

Group == {"billing", "notify"}
Biller == {"worker1", "worker2"}
Worker == Biller \cup {"n1"}
GroupOf(w) == IF w \in Biller THEN "billing" ELSE "notify"
\* What a worker does first with an entry: only worker1 asks the set.
FirstTask(w) == CASE w = "worker1" -> "ask" [] w = "worker2" -> "bill" [] OTHER -> "ack"

StreamInit ==
    /\ stream = <<>> /\ seen = [g \in Group |-> 0] /\ pel = [g \in Group |-> <<>>] /\ dedup = {}
    /\ hand = [w \in Worker |-> <<>>] /\ doing = [w \in Worker |-> "none"]
    /\ billed = [o \in Order |-> 0] /\ claims = 0 /\ again = {} /\ unsure = {} /\ fails = 0

Failing == fails < MaxFails /\ fails' = fails + 1

\* XADD; when the answer is lost, the retry adds the order once more, maybe after the
\* first entry was read.
Entries(o) == {e \in DOMAIN stream : stream[e] = o}
Place(o) ==
    /\ stream' = Append(stream, o)
    /\ \/ Entries(o) = {} /\ UNCHANGED fails
       \/ Cardinality(Entries(o)) = 1 /\ Failing
    /\ UNCHANGED <<seen, pel, dedup, hand, doing, billed, claims, again, unsure>>

\* XREADGROUP with >: the entries the group was not given yet become pending.
New(g) == [i \in 1..(Len(stream) - seen[g]) |-> seen[g] + i]
Deliver(g) ==
    /\ seen[g] < Len(stream) /\ seen' = [seen EXCEPT ![g] = Len(stream)]
    /\ pel' = [pel EXCEPT ![g] = @ \o New(g)]

\* The worker begins with the first of the entries, or with the next one.
Begin(w, entries) ==
    /\ hand' = [hand EXCEPT ![w] = entries]
    /\ doing' = [doing EXCEPT ![w] = IF entries = <<>> THEN "none" ELSE FirstTask(w)]

\* XREADGROUP by w.  When its answer is lost the entries are pending all the same, with
\* nobody at them.
Read(w) ==
    /\ hand[w] = <<>> /\ Deliver(GroupOf(w))
    /\ \/ Begin(w, New(GroupOf(w))) /\ UNCHANGED fails
       \/ Failing /\ UNCHANGED <<hand, doing>>
    /\ UNCHANGED <<stream, dedup, billed, claims, again, unsure>>
ReadBilling == Read("worker1")
ReadNotify == Read("n1")

BillProcessed_Never ==
    /\ doing["worker1"] = "ask" /\ doing' = [doing EXCEPT !["worker1"] = "bill"]
    /\ UNCHANGED <<stream, seen, pel, dedup, hand, billed, claims, again, unsure, fails>>

\* billProcessed: SADD answers 1 for an order it has not seen.  An error, and the answer
\* of a retry, are 0: the order counts as billed.
BillProcessed ==
    LET o == stream[Head(hand["worker1"])]
        Next(pc) == doing' = [doing EXCEPT !["worker1"] = pc]
    IN  /\ doing["worker1"] = "ask"
        /\ \/ /\ Next(IF o \in dedup THEN "ack" ELSE "bill")
              /\ dedup' = dedup \cup {o} /\ UNCHANGED <<unsure, fails>>
           \/ /\ Failing /\ Next("ack")
              /\ dedup' \in {dedup, dedup \cup {o}} /\ unsure' = unsure \cup {o}
    /\ UNCHANGED <<stream, seen, pel, hand, billed, claims, again>>

Bill(w) ==
    /\ doing[w] = "bill" /\ doing' = [doing EXCEPT ![w] = "ack"]
    /\ billed' = [billed EXCEPT ![stream[Head(hand[w])]] = @ + 1]
    /\ UNCHANGED <<stream, seen, pel, dedup, hand, claims, again, unsure, fails>>

\* XACK, and on to the next entry.  Its error is dropped.
XAck(w) ==
    /\ doing[w] = "ack" /\ Begin(w, Tail(hand[w]))
    /\ \/ pel' = [pel EXCEPT ![GroupOf(w)] = RemoveFirst(@, Head(hand[w]))] /\ UNCHANGED fails
       \/ Failing /\ UNCHANGED pel
    /\ UNCHANGED <<stream, seen, dedup, billed, claims, again, unsure>>

\* A worker dies between any two steps.
CrashAt(w) ==
    /\ hand[w] # <<>> /\ Begin(w, <<>>) /\ Failing
    /\ UNCHANGED <<stream, seen, pel, dedup, billed, claims, again, unsure>>

AutoClaim_Drops ==
    /\ hand["worker2"] = <<>> /\ pel["billing"] # <<>> /\ claims < MaxClaims
    /\ pel' = [pel EXCEPT !["billing"] = <<>>]
    /\ Begin("worker2", pel["billing"]) /\ claims' = claims + 1
    /\ again' = again \cup {stream[e] : e \in Range(pel["billing"])}
    /\ UNCHANGED <<stream, seen, dedup, billed, unsure, fails>>

\* XAUTOCLAIM with MinIdle 0 takes all that is pending.
AutoClaim ==
    /\ hand["worker2"] = <<>> /\ pel["billing"] # <<>> /\ claims < MaxClaims
    /\ Begin("worker2", pel["billing"]) /\ claims' = claims + 1
    /\ again' = again \cup {stream[e] : e \in Range(pel["billing"])}
    /\ UNCHANGED <<stream, seen, pel, dedup, billed, unsure, fails>>

WorkOn(w) == (w \in Biller /\ Bill(w)) \/ XAck(w)
StreamNext ==
    \/ ReadBilling \/ BillProcessed \/ AutoClaim \/ ReadNotify
    \/ (\E w \in Worker : WorkOn(w) \/ CrashAt(w)) \/ (\E o \in Order : Place(o))

\* The workers and the claiming one go on.
StreamFairness ==
    /\ WF_streamVars(ReadBilling) /\ WF_streamVars(BillProcessed)
    /\ WF_streamVars(AutoClaim) /\ WF_streamVars(ReadNotify)
    /\ \A w \in Worker : WF_streamVars(WorkOn(w))

StreamSpec == StreamInit /\ [][StreamNext]_streamVars /\ StreamFairness

StreamTypeOK ==
    /\ stream \in Seq(Order) /\ seen \in [Group -> 0..Len(stream)]
    /\ pel \in [Group -> Seq(DOMAIN stream)] /\ hand \in [Worker -> Seq(DOMAIN stream)]
    /\ doing \in [Worker -> {"none", "ask", "bill", "ack"}]
    /\ \A w \in Worker : (doing[w] = "none") = (hand[w] = <<>>)
    /\ dedup \subseteq Order /\ unsure \subseteq Order /\ again \subseteq Order
    /\ billed \in [Order -> Nat] /\ claims \in 0..MaxClaims /\ fails \in 0..MaxFails

Acknowledged(g, o) == \A e \in Entries(o) : e <= seen[g] /\ e \notin Range(pel[g])

\* An order that billing acknowledged was billed, although a worker crashed at it, another
\* one claimed it or it lies in the stream twice, unless SADD failed or lost its answer;
\* and only a claim bills an order again.
BillingFaithful ==
    \A o \in Order :
        /\ Entries(o) # {} /\ Acknowledged("billing", o) /\ o \notin unsure => billed[o] > 0
        /\ o \notin again => billed[o] <= 1

\* An order is billed once: the comment on the pipeline says the order_id makes the
\* processing idempotent (main.go 657).  The claiming worker does not ask the set.
BilledOnce == \A o \in Order : billed[o] <= 1

\* Every order placed is billed in the end and its entries leave the pending list of
\* billing, unless the bound MaxClaims ends the claiming (main.go 655-657, 707-717).
OrdersAreDone ==
    \A o \in Order :
        Entries(o) # {} ~> \/ claims = MaxClaims
                           \/ (billed[o] > 0 \/ o \in unsure) /\ Acknowledged("billing", o)

\* The notify group gets done with every order too: the comment on the pipeline says of both
\* groups that what is not acknowledged is claimed for a healthy worker (main.go 655-657).
\* Nobody claims for notify, so what n1 had when it died, or never got, stays pending.
NotifiedInTheEnd == \A o \in Order : Entries(o) # {} ~> Acknowledged("notify", o)

=============================================================================
