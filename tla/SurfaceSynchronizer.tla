------------------------ MODULE SurfaceSynchronizer ------------------------
(***************************************************************************)
(* SurfaceUtilizationSynchronizer: one object shared by all sessions of    *)
(* sample_multi_transcode when the library allocates the surfaces itself   *)
(* (-memory 2/3).  Decoders register the surfaces they produce and wait    *)
(* when NumFrameForAlloc of them are in use; encoders report that surfaces *)
(* may have become free.                                                   *)
(*                                                                         *)
(* A surface has two counts: refs, its reference counter beyond the one    *)
(* reference of the library, and Locked, its Data.Locked.  The waiting     *)
(* decoders block on one condition variable with one flag m_wait; their    *)
(* program counters belong to the module that extends this one.            *)
(***************************************************************************)
EXTENDS Integers, SequencesExt

CONSTANT NumFrameForAlloc \* surfaces the sessions may have in use

ASSUME RationAssumption == NumFrameForAlloc \in Nat \ {0}

VARIABLES
    refs,       \* references of the program to each surface
    Locked,     \* Data.Locked of each surface
    m_Surfaces, \* the registered surfaces, oldest first
    m_wait      \* some decoder waits for a surface

AddRef(s) == refs' = [refs EXCEPT ![s] = @ + 1]
Release(s) == refs' = [refs EXCEPT ![s] = @ - 1]

(* Only the library and the synchronizer have control over the surface     *)
(* (a reference counter of 2) and nobody has it locked.                    *)
IsFree(s) == refs[s] <= 1 /\ Locked[s] = 0

Room == Len(m_Surfaces) < NumFrameForAlloc

(* QueryFree returns true when there is room, or when it has given back    *)
(* the oldest free surface.  Mutant: the entry stays in the list.          *)
CanQueryFree == Room \/ \E i \in 1..Len(m_Surfaces) : IsFree(m_Surfaces[i])

QueryFreeKeepsEntry ==
    /\ UNCHANGED m_Surfaces
    /\ IF Room THEN UNCHANGED refs
               ELSE Release(m_Surfaces[SelectInSeq(m_Surfaces, IsFree)])

QueryFree ==
    IF Room
    THEN UNCHANGED <<m_Surfaces, refs>>
    ELSE LET i == SelectInSeq(m_Surfaces, IsFree) IN
         /\ m_Surfaces' = RemoveAt(m_Surfaces, i)
         /\ Release(m_Surfaces[i])

PushSurface(s) ==
    /\ AddRef(s)
    /\ m_Surfaces' = Append(m_Surfaces, s)

(* StartWaitingForFree, up to the wait on the condition variable: the      *)
(* caller goes on, or it blocks.                                           *)
TakeFree == CanQueryFree /\ QueryFree /\ UNCHANGED m_wait
StartWaiting == ~CanQueryFree /\ m_wait' = TRUE /\ UNCHANGED <<m_Surfaces, refs>>

(* NotifyFreeCome: one freed surface wakes every waiting decoder.          *)
NotifyFreeCome ==
    IF m_wait /\ CanQueryFree
    THEN QueryFree /\ m_wait' = FALSE
    ELSE UNCHANGED <<m_Surfaces, refs, m_wait>>
=============================================================================
