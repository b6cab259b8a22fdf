----------------------------- MODULE Buffering -----------------------------
(***************************************************************************)
(* CBuffering of sample_decode (sample_common/src/mfx_buffering.cpp and    *)
(* mfx_buffering.h): the surface pools of the decoding pipeline as         *)
(* operators on their values.                                              *)
(*                                                                         *)
(* A surface pool is the record [free, used, cur]: the LIFO list of free   *)
(* surfaces, the list of used ones with the oldest at its head, and the    *)
(* surface the pipeline holds between the two (m_pCurrentFreeSurface).     *)
(* Each list operation runs under m_Mutex and is one step.                 *)
(***************************************************************************)
EXTENDS Integers, FiniteSets, SequencesExt

Null == 0    \* the null surface pointer; surfaces are positive numbers

\* AllocBuffers / AllocVppBuffers: all surfaces are free, the first at the
\* head of the list.
AllocBuffers(first, last) ==
    [free |-> [i \in 1..(last - first + 1) |-> first + i - 1],
     used |-> <<>>,
     cur  |-> Null]

\* DetachSurface then AddSurface: the i-th used surface becomes the first
\* free one.
MoveToFree(pool, i) ==
    [pool EXCEPT !.free = <<pool.used[i]>> \o @, !.used = RemoveAt(@, i)]

\* A mutant: the walk does not look at render_lock or Data.Locked.
SyncIgnoringLocks(pool, busy) ==
    IF pool.used = <<>> THEN pool ELSE MoveToFree(pool, 1)

\* SyncFrameSurfaces: walks the used list from its head and moves the first
\* surface that neither the library nor the renderer holds.  The walk ends
\* there: the loop goes on from a variable "next" that is never assigned.
SyncFrameSurfaces(pool, busy) ==
    LET idle == {i \in DOMAIN pool.used : pool.used[i] \notin busy}
    IN  IF idle = {} THEN pool
        ELSE MoveToFree(pool, CHOOSE i \in idle : \A j \in idle : i <= j)

\* m_pCurrentFreeSurface = m_FreeSurfacesPool.GetSurface(), when there is none.
TakeFree(pool) ==
    IF pool.cur # Null \/ pool.free = <<>> THEN pool
    ELSE [pool EXCEPT !.cur = Head(pool.free), !.free = Tail(@)]

\* A mutant: the pointer is not set to NULL.
UseCurrentKept(pool) == [pool EXCEPT !.used = Append(@, pool.cur)]

\* m_UsedSurfacesPool.AddSurface(m_pCurrentFreeSurface), which is then NULL.
UseCurrent(pool) ==
    [pool EXCEPT !.used = Append(@, pool.cur), !.cur = Null]

\* The surfaces of a pool, in the three places they can be.
PoolSurfaces(pool) ==
    ToSet(pool.free) \cup ToSet(pool.used) \cup ({pool.cur} \ {Null})

\* No surface of the pool is in two places, or twice in a list.
PoolIsPartitioned(pool) ==
    /\ IsInjective(pool.free) /\ IsInjective(pool.used)
    /\ ToSet(pool.free) \cap ToSet(pool.used) = {}
    /\ pool.cur \notin ToSet(pool.free) \cup ToSet(pool.used)
=============================================================================
