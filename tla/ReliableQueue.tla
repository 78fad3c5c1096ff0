--------------------------- MODULE ReliableQueue ---------------------------
(***************************************************************************)
(* Lab 01: the list queue that survives a crash.  A worker moves a job to  *)
(* the processing list (BLMOVE), runs it and acknowledges it (LREM); a     *)
(* reclaimer moves what it finds in processing back to the queue (LMOVE),  *)
(* without asking whether a worker is still at it.                         *)
(***************************************************************************)
EXTENDS Naturals, FiniteSets, Sequences, SequencesExt

CONSTANTS Job, Consumer,
          MaxCrashes    \* bound on crashes, lost answers and reclaims of one behaviour

ASSUME CrashesAssumption == MaxCrashes \in Nat
ASSUME JobAssumption == IsFiniteSet(Job) /\ "none" \notin Job

VARIABLES queue, processing,   \* the two lists, from LEFT to RIGHT
          runs,                \* the job each worker has in hand, or "none"
          ran,                 \* whether it has run it
          times,               \* how often each job was run
          reclaims,            \* how often each job was moved back
          crashes              \* crashes and lost answers so far
queueVars == <<queue, processing, runs, ran, times, reclaims, crashes>>

QueueInit ==
    /\ queue \in SetToSeqs(Job) /\ processing = <<>>
    /\ runs = [w \in Consumer |-> "none"] /\ ran = [w \in Consumer |-> FALSE]
    /\ times = [j \in Job |-> 0] /\ reclaims = [j \in Job |-> 0] /\ crashes = 0

Crashing == crashes < MaxCrashes /\ crashes' = crashes + 1

MoveFirst_Pops == queue # <<>> /\ queue' = Tail(queue) /\ UNCHANGED processing

\* BLMOVE LEFT RIGHT.  When the answer is lost the job stays in processing, and the
\* worker takes the next one.
MoveFirst == queue # <<>> /\ queue' = Tail(queue) /\ processing' = Append(processing, Head(queue))
Take(w) ==
    /\ runs[w] = "none" /\ MoveFirst
    /\ \/ runs' = [runs EXCEPT ![w] = Head(queue)] /\ UNCHANGED crashes
       \/ Crashing /\ UNCHANGED runs
    /\ UNCHANGED <<ran, times, reclaims>>

Run(w) ==
    /\ runs[w] # "none" /\ ~ran[w]
    /\ ran' = [ran EXCEPT ![w] = TRUE] /\ times' = [times EXCEPT ![runs[w]] = @ + 1]
    /\ UNCHANGED <<queue, processing, runs, reclaims, crashes>>

\* LREM processing 1 job: the first occurrence goes, if there is one.  Its error is
\* dropped: the job stays in processing.
Forget(w) == runs' = [runs EXCEPT ![w] = "none"] /\ ran' = [ran EXCEPT ![w] = FALSE]
AckJob(w) ==
    /\ ran[w] /\ Forget(w)
    /\ \/ processing' = RemoveFirst(processing, runs[w]) /\ UNCHANGED crashes
       \/ Crashing /\ UNCHANGED processing
    /\ UNCHANGED <<queue, times, reclaims>>

CrashJob(w) ==
    /\ runs[w] # "none" /\ Forget(w) /\ Crashing
    /\ UNCHANGED <<queue, processing, times, reclaims>>

\* LMOVE LEFT RIGHT, back to the queue.
Reclaim ==
    /\ processing # <<>> /\ reclaims[Head(processing)] <= MaxCrashes
    /\ queue' = Append(queue, Head(processing)) /\ processing' = Tail(processing)
    /\ reclaims' = [reclaims EXCEPT ![Head(processing)] = @ + 1]
    /\ UNCHANGED <<runs, ran, times, crashes>>

ConsumerStep(w) == Take(w) \/ Run(w) \/ AckJob(w)
QueueNext == Reclaim \/ \E w \in Consumer : ConsumerStep(w) \/ CrashJob(w)

\* Workers go on, and somebody reclaims what lies in processing.
QueueFairness ==
    /\ WF_queueVars(Reclaim)
    /\ \A w \in Consumer : WF_queueVars(ConsumerStep(w))

QueueSpec == QueueInit /\ [][QueueNext]_queueVars /\ QueueFairness

QueueTypeOK ==
    /\ queue \in Seq(Job) /\ processing \in Seq(Job)
    /\ runs \in [Consumer -> Job \cup {"none"}] /\ ran \in [Consumer -> BOOLEAN]
    /\ times \in [Job -> Nat] /\ reclaims \in [Job -> Nat] /\ crashes \in 0..MaxCrashes

Waiting == Range(queue) \cup Range(processing)

\* No job is lost: what has not been run is in one of the lists, whoever crashes.
NeverLost == \A j \in Job : times[j] = 0 => j \in Waiting
\* A job is run again only after it was moved back.
AgainByReclaim == \A j \in Job : times[j] <= 1 + reclaims[j]
ListJobsSafe == NeverLost /\ AgainByReclaim

\* Every job is run in the end.
JobsAreRun == <>(\A j \in Job : times[j] > 0)

=============================================================================
