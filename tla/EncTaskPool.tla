---------------------------- MODULE EncTaskPool ----------------------------
(***************************************************************************)
(* CEncTaskPool of sample_encode: a ring of sTask.  A task is in execution *)
(* while its EncSyncP is not NULL; m_nTaskBufferStart is the oldest one.   *)
(* EncodePipeline and RegionEncodePipeline use the actions below; Spec is  *)
(* the pool in the hands of any caller that uses a task GetFreeTask gave.  *)
(***************************************************************************)
EXTENDS Integers, Sequences

CONSTANTS Jobs,      \* what EncodeFrameAsync may put into a task
          NoTask,    \* EncSyncP = NULL
          Pools,     \* one pool for a pipeline, or one for each region
          PoolSize   \* m_nPoolSize of each pool

ASSUME PoolAssumption ==
    /\ PoolSize \in [Pools -> Nat \ {0}]
    /\ NoTask \notin Jobs

VARIABLES m_pTasks,           \* the job of each task, or NoTask
          m_nTaskBufferStart,
          delivered           \* the jobs whose bitstream was written, in order

poolVars == <<m_pTasks, m_nTaskBufferStart, delivered>>

Slots(p) == 0..(PoolSize[p] - 1)

\* the k-th task from the start, around the ring
At(p, k) == (m_nTaskBufferStart[p] + k) % PoolSize[p]

InExecution(p, i) == m_pTasks[p][i] # NoTask

-----------------------------------------------------------------------------
\* The first task from the start that is not in execution; m_nPoolSize when
\* there is none (MFX_ERR_NOT_FOUND for GetFreeTask).
GetFreeTaskIndex(p) ==
    IF \A i \in Slots(p) : InExecution(p, i) THEN PoolSize[p]
    ELSE At(p, CHOOSE k \in Slots(p) :
                 ~InExecution(p, At(p, k)) /\ \A n \in 0..(k - 1) : InExecution(p, At(p, n)))

Full(p) == GetFreeTaskIndex(p) = PoolSize[p]

\* EncodeFrameAsync has set the sync point of task i.
Submit(p, i, j) ==
    /\ i \in Slots(p) /\ ~InExecution(p, i)
    /\ m_pTasks' = [m_pTasks EXCEPT ![p][i] = j]
    /\ UNCHANGED <<m_nTaskBufferStart, delivered>>

\* Mutant: the start is not moved.
NextStartStays(p) == m_nTaskBufferStart[p]

\* After the task at the start was reset: the next task to the right that is
\* in execution, all the way round when there is none.
NextStart(p) ==
    At(p, CHOOSE d \in 1..PoolSize[p] :
            /\ d = PoolSize[p] \/ InExecution(p, At(p, d))
            /\ \A n \in 1..(d - 1) : ~InExecution(p, At(p, n)))

\* Mutant: the task is not reset.
SynchronizeFirstTaskKept(p) ==
    LET i == m_nTaskBufferStart[p] IN
      /\ InExecution(p, i)
      /\ delivered' = Append(delivered, m_pTasks[p][i])
      /\ m_nTaskBufferStart' = [m_nTaskBufferStart EXCEPT ![p] = NextStart(p)]
      /\ UNCHANGED m_pTasks

\* SynchronizeFirstTask when SyncOperation succeeds: write the bitstream, reset
\* the task, move the start.  (MFX_ERR_NONE_PARTIAL_OUTPUT writes nothing and
\* waits again.)
SynchronizeFirstTask(p) ==
    LET i == m_nTaskBufferStart[p] IN
      /\ InExecution(p, i)
      /\ delivered' = Append(delivered, m_pTasks[p][i])
      /\ m_pTasks' = [m_pTasks EXCEPT ![p][i] = NoTask]
      /\ m_nTaskBufferStart' = [m_nTaskBufferStart EXCEPT ![p] = NextStart(p)]

\* ClearTasks, or Close and Init, of the pools P: all tasks are reset
\* unwritten.  After a GPU hang SynchronizeFirstTask goes on with task 0,
\* whose bitstream is empty by then.
ClearTasks(P) ==
    /\ m_pTasks' = [p \in Pools |-> IF p \in P THEN [i \in Slots(p) |-> NoTask] ELSE m_pTasks[p]]
    /\ m_nTaskBufferStart' = [p \in Pools |-> IF p \in P THEN 0 ELSE m_nTaskBufferStart[p]]
    /\ UNCHANGED delivered

PoolInit ==
    /\ m_pTasks = [p \in Pools |-> [i \in Slots(p) |-> NoTask]]
    /\ m_nTaskBufferStart = [p \in Pools |-> 0]
    /\ delivered = <<>>

PoolNext ==
    \/ \E p \in Pools :
         \/ SynchronizeFirstTask(p)
         \/ ~Full(p) /\ \E j \in Jobs : Submit(p, GetFreeTaskIndex(p), j)
    \/ \E P \in SUBSET Pools : ClearTasks(P)

PoolSpec == PoolInit /\ [][PoolNext]_poolVars

-----------------------------------------------------------------------------
PoolTypeOK ==
    /\ DOMAIN m_pTasks = Pools
    /\ \A p \in Pools : m_pTasks[p] \in [Slots(p) -> Jobs \cup {NoTask}]
    /\ DOMAIN m_nTaskBufferStart = Pools
    /\ \A p \in Pools : m_nTaskBufferStart[p] \in Slots(p)
    /\ delivered \in Seq(Jobs)

\* The n tasks from the start are in execution and no other.
RunOfTasks(p, n) == \A k \in Slots(p) : InExecution(p, At(p, k)) <=> k < n

(* The tasks in execution follow each other around the ring from the       *)
(* start: what makes "first free from the start" the place to append and   *)
(* "next in execution" the next oldest, through wraps, pools that run      *)
(* empty and recoveries.                                                   *)
RingIsContiguous == \A p \in Pools : \E n \in 0..PoolSize[p] : RunOfTasks(p, n)

NumInExecution(p) == CHOOSE n \in 0..PoolSize[p] : RunOfTasks(p, n)

\* the tasks in execution, oldest first
QueueOf(p) == [k \in 1..NumInExecution(p) |-> m_pTasks[p][At(p, k - 1)]]

(* The ring is a queue: bitstreams leave in the order their tasks were     *)
(* started in, whatever the caller does with the pool.                     *)
TaskQueue == INSTANCE AbstractTaskQueue WITH queue <- [p \in Pools |-> QueueOf(p)]
RingImplementsQueue == TaskQueue!Spec
=============================================================================
