----------------------------- MODULE DelayQueue -----------------------------
(***************************************************************************)
(* Lab 01: jobs in a sorted set, scored with the time they are due.  A     *)
(* picker reads what is due (ZRANGEBYSCORE), runs the first and removes it *)
(* (ZREM): three steps, between which pickers interleave, die and fail.    *)
(***************************************************************************)
EXTENDS Naturals, FiniteSets

CONSTANTS DelayJob, Picker,
          MaxNow,      \* bound on the clock, and on the scores
          MaxMishaps   \* bound on crashes and errors

ASSUME PickerAssumption == IsFiniteSet(Picker) /\ "none" \notin DelayJob
ASSUME MishapsAssumption == MaxNow \in Nat /\ MaxMishaps \in Nat

VARIABLES score,       \* the score of each job, or Gone
          time,        \* the clock of the pickers
          picked,      \* the job each picker has in hand, or "none"
          executed,    \* whether it has run it
          count,       \* how often each job was run
          mishaps      \* crashes and errors so far
delayVars == <<score, time, picked, executed, count, mishaps>>

Gone == MaxNow + 1

DelayInit ==
    /\ score \in [DelayJob -> 0..MaxNow] /\ time = 0
    /\ picked = [p \in Picker |-> "none"] /\ executed = [p \in Picker |-> FALSE]
    /\ count = [j \in DelayJob |-> 0] /\ mishaps = 0

\* ZRANGEBYSCORE 0 now.
Due == {j \in DelayJob : score[j] <= time}

\* The first of the answer, the one with the least score.
PickFirst(p) ==
    /\ picked[p] = "none"
    /\ \E j \in Due : /\ \A k \in Due : score[j] <= score[k]
                      /\ picked' = [picked EXCEPT ![p] = j]
    /\ UNCHANGED <<score, time, executed, count, mishaps>>

Perform(p) ==
    /\ picked[p] # "none" /\ ~executed[p]
    /\ executed' = [executed EXCEPT ![p] = TRUE]
    /\ count' = [count EXCEPT ![picked[p]] = @ + 1]
    /\ UNCHANGED <<score, time, picked, mishaps>>

PutDown(p) ==
    picked' = [picked EXCEPT ![p] = "none"] /\ executed' = [executed EXCEPT ![p] = FALSE]
Mishap == mishaps < MaxMishaps /\ mishaps' = mishaps + 1

\* ZREM after the run; its error is dropped, and the job stays.
RemoveJob(p) ==
    /\ executed[p] /\ PutDown(p)
    /\ \/ score' = [score EXCEPT ![picked[p]] = Gone] /\ UNCHANGED mishaps
       \/ UNCHANGED score /\ Mishap
    /\ UNCHANGED <<time, count>>

CrashPicker(p) ==
    picked[p] # "none" /\ PutDown(p) /\ Mishap /\ UNCHANGED <<score, time, count>>

DelayTick ==
    time < MaxNow /\ time' = time + 1 /\ UNCHANGED <<score, picked, executed, count, mishaps>>

DelayNext ==
    \/ DelayTick
    \/ \E p \in Picker : PickFirst(p) \/ Perform(p) \/ RemoveJob(p) \/ CrashPicker(p)

DelaySpec == DelayInit /\ [][DelayNext]_delayVars

DelayTypeOK ==
    /\ score \in [DelayJob -> 0..Gone] /\ time \in 0..MaxNow
    /\ picked \in [Picker -> DelayJob \cup {"none"}] /\ executed \in [Picker -> BOOLEAN]
    /\ count \in [DelayJob -> Nat] /\ mishaps \in 0..MaxMishaps

\* A job that was removed was run, whoever died, and was run at most once by each picker
\* that had it in hand at the same time (main.go 599) and once more for each mishap.
DelayedJobsSafe ==
    \A j \in DelayJob : /\ score[j] = Gone => count[j] > 0
                        /\ count[j] <= Cardinality(Picker) + mishaps

=============================================================================
