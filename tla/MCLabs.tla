------------------------------- MODULE MCLabs -------------------------------
(***************************************************************************)
(* The parts of the labs, and the key builder and the error map of         *)
(* rediskit, for TLC.  They share no state: a behaviour runs one of them   *)
(* (part), so that their states add up and do not multiply.                *)
(***************************************************************************)
EXTENDS CircuitBreaker, HotKey, UserCache, LabLimiters, ReliableQueue,
        DelayQueue, OrderStream, Archive, Keys, Errors

VARIABLE part

Parts == {"breaker", "hotkey", "user", "limiter", "queue", "delay",
          "stream", "archive", "keys", "errors"}
vars == <<part, breakerVars, hotVars, userVars, limiterVars, queueVars,
          delayVars, streamVars, archiveVars, keyVars, errorVars>>

LabsInit ==
    /\ part \in Parts
    /\ BreakerInit /\ HotInit /\ UserInit /\ LimiterInit /\ QueueInit
    /\ DelayInit /\ StreamInit /\ ArchiveInit /\ KeysInit /\ ErrorsInit
    /\ part # "limiter" => algo = "fixed"
    /\ part # "queue" => queue = CHOOSE q \in SetToSeqs(Job) : TRUE
    /\ part # "delay" => score = [j \in DelayJob |-> 0]

Others(p) ==
    /\ UNCHANGED part
    /\ IF p = "breaker" THEN TRUE ELSE UNCHANGED breakerVars
    /\ IF p = "hotkey" THEN TRUE ELSE UNCHANGED hotVars
    /\ IF p = "user" THEN TRUE ELSE UNCHANGED userVars
    /\ IF p = "limiter" THEN TRUE ELSE UNCHANGED limiterVars
    /\ IF p = "queue" THEN TRUE ELSE UNCHANGED queueVars
    /\ IF p = "delay" THEN TRUE ELSE UNCHANGED delayVars
    /\ IF p = "stream" THEN TRUE ELSE UNCHANGED streamVars
    /\ IF p = "archive" THEN TRUE ELSE UNCHANGED archiveVars
    /\ IF p = "keys" THEN TRUE ELSE UNCHANGED keyVars
    /\ IF p = "errors" THEN TRUE ELSE UNCHANGED errorVars

LabsNext ==
    \/ part = "breaker" /\ BreakerNext /\ Others("breaker")
    \/ part = "hotkey" /\ HotNext /\ Others("hotkey")
    \/ part = "user" /\ UserNext /\ Others("user")
    \/ part = "limiter" /\ LimiterNext /\ Others("limiter")
    \/ part = "queue" /\ QueueNext /\ Others("queue")
    \/ part = "delay" /\ DelayNext /\ Others("delay")
    \/ part = "stream" /\ StreamNext /\ Others("stream")
    \/ part = "archive" /\ ArchiveNext /\ Others("archive")
    \/ part = "keys" /\ KeysNext /\ Others("keys")
    \/ part = "errors" /\ ErrorsNext /\ Others("errors")

\* The fairness of the parts that have a liveness property, while they run.
LabsFairness ==
    /\ WF_queueVars(part = "queue" /\ Reclaim)
    /\ \A w \in Consumer : WF_queueVars(part = "queue" /\ ConsumerStep(w))
    /\ WF_streamVars(part = "stream" /\ ReadBilling)
    /\ WF_streamVars(part = "stream" /\ BillProcessed)
    /\ WF_streamVars(part = "stream" /\ AutoClaim)
    /\ WF_streamVars(part = "stream" /\ ReadNotify)
    /\ \A w \in Worker : WF_streamVars(part = "stream" /\ WorkOn(w))

LabsSpec == LabsInit /\ [][LabsNext]_vars /\ LabsFairness

LabsTypeOK ==
    /\ part \in Parts
    /\ BreakerTypeOK /\ HotTypeOK /\ UserTypeOK /\ LimiterTypeOK
    /\ QueueTypeOK /\ DelayTypeOK /\ StreamTypeOK /\ ArchiveTypeOK /\ KeysTypeOK /\ ErrorsTypeOK

\* No job of either queue is lost, or run again without a cause.
JobsAreSafe == ListJobsSafe /\ DelayedJobsSafe

\* Every job is run, and every order is billed, and acknowledged by billing.
WorkIsDone == (part = "queue" => JobsAreRun) /\ (part = "stream" => OrdersAreDone)

=============================================================================
