------------------------- MODULE AbstractTaskQueue -------------------------
(***************************************************************************)
(* What a CEncTaskPool of sample_encode promises the pipeline: a queue of  *)
(* encoding tasks, of bounded length, from which the bitstreams are        *)
(* written in the order the tasks were started in.  A recovery may forget  *)
(* the tasks of a pool, never some of them or their order.                 *)
(***************************************************************************)
EXTENDS Integers, Sequences

CONSTANTS Jobs,      \* what a task may be encoding
          Pools,     \* the pools that write to one output
          PoolSize   \* the tasks of each pool

VARIABLES queue,     \* the tasks of each pool in execution, oldest first
          delivered  \* the bitstreams written

qvars == <<queue, delivered>>

Init ==
    /\ queue = [p \in Pools |-> <<>>]
    /\ delivered = <<>>

Start(p, j) ==
    /\ Len(queue[p]) < PoolSize[p]
    /\ queue' = [queue EXCEPT ![p] = Append(@, j)]
    /\ UNCHANGED delivered

Deliver(p) ==
    /\ queue[p] # <<>>
    /\ delivered' = Append(delivered, Head(queue[p]))
    /\ queue' = [queue EXCEPT ![p] = Tail(@)]

Forget(P) ==
    /\ queue' = [p \in Pools |-> IF p \in P THEN <<>> ELSE queue[p]]
    /\ UNCHANGED delivered

Next ==
    \/ \E p \in Pools : Deliver(p) \/ \E j \in Jobs : Start(p, j)
    \/ \E P \in SUBSET Pools : Forget(P)

Spec == Init /\ [][Next]_qvars
=============================================================================
