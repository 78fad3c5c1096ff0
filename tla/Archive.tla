------------------------------ MODULE Archive ------------------------------
(***************************************************************************)
(* Lab 01: page views are counted with INCR; every hour a job takes the    *)
(* count out with GETDEL and adds it to the total with INCRBY              *)
(* (demoGetDelArchive).  Two jobs may overlap.  Answers are lost, jobs die *)
(* between the two commands, and the errors are dropped.                   *)
(***************************************************************************)
EXTENDS Integers, FiniteSets, Functions

CONSTANTS Archiver, MaxViews

ASSUME ViewsAssumption == MaxViews \in Nat /\ IsFiniteSet(Archiver)

VARIABLES current, total,   \* the two keys
          taken,            \* the delta each job has in hand; -1 for none
          views,            \* INCRs executed
          lost, doubled     \* a delta was lost; a delta was added twice
archiveVars == <<current, total, taken, views, lost, doubled>>

ArchiveInit ==
    /\ current = 0 /\ total = 0 /\ taken = [a \in Archiver |-> -1] /\ views = 0
    /\ lost = FALSE /\ doubled = FALSE

View ==
    /\ views < MaxViews /\ views' = views + 1 /\ current' = current + 1
    /\ UNCHANGED <<total, taken, lost, doubled>>

GetDel_Keeps(a) ==
    /\ taken[a] = -1 /\ taken' = [taken EXCEPT ![a] = current]
    /\ UNCHANGED <<current, total, views, lost, doubled>>

\* GETDEL.  When the answer is lost, the retry finds no key and the delta is 0.
GetDel(a) ==
    /\ taken[a] = -1 /\ current' = 0
    /\ \/ taken' = [taken EXCEPT ![a] = current] /\ UNCHANGED lost
       \/ taken' = [taken EXCEPT ![a] = 0] /\ lost' = TRUE
    /\ UNCHANGED <<total, views, doubled>>

\* INCRBY, once, or again after a lost answer.
AddUp(a) ==
    /\ taken[a] >= 0 /\ taken' = [taken EXCEPT ![a] = -1]
    /\ \/ total' = total + taken[a] /\ UNCHANGED doubled
       \/ total' = total + 2 * taken[a] /\ doubled' = TRUE
    /\ UNCHANGED <<current, views, lost>>

\* The job dies, or INCRBY fails: the delta is gone.
Drop(a) ==
    /\ taken[a] >= 0 /\ taken' = [taken EXCEPT ![a] = -1] /\ lost' = TRUE
    /\ UNCHANGED <<current, total, views, doubled>>

ArchiveNext == View \/ \E a \in Archiver : GetDel(a) \/ AddUp(a) \/ Drop(a)

ArchiveSpec == ArchiveInit /\ [][ArchiveNext]_archiveVars

ArchiveTypeOK ==
    /\ current \in Nat /\ total \in Nat /\ views \in 0..MaxViews
    /\ taken \in [Archiver -> Nat \cup {-1}] /\ lost \in BOOLEAN /\ doubled \in BOOLEAN

InHand == [a \in Archiver |-> IF taken[a] = -1 THEN 0 ELSE taken[a]]
Counted == current + total + SumFunctionOnSet(InHand, Archiver)

\* A view is counted once: in the current key, in the hands of a job or in the total,
\* however views and jobs interleave; too few after a delta was lost, too many after
\* one was added twice, never otherwise.
ViewsConserved == (lost \/ Counted >= views) /\ (doubled \/ Counted <= views)

=============================================================================
