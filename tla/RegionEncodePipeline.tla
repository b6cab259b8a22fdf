------------------------ MODULE RegionEncodePipeline ------------------------
(***************************************************************************)
(* Run of CRegionEncodingPipeline: every frame is encoded by one encoder   *)
(* for each region (slice), which has a session and a task pool of its own *)
(* (CResourcesPool).  All regions write to one file, so the pools have to  *)
(* be synchronized in the order of the regions.                            *)
(***************************************************************************)
EXTENDS EncodeSession

FirstRegion == 1
LastRegion == Cardinality(Regions)

\* Mutant: one region too many.
NextRegionPast(end) ==
    IF region > LastRegion THEN region' = FirstRegion /\ pc' = end
    ELSE region' = region + 1 /\ pc' = "task"

\* The next region, or leave the loop over the regions.
NextRegion(end) ==
    IF region = LastRegion THEN region' = FirstRegion /\ pc' = end
    ELSE region' = region + 1 /\ pc' = "task"

-----------------------------------------------------------------------------
RegionReadFrame ==
    /\ pc = "frame" /\ FreeSurfaces # {}
    /\ nEncSurfIdx' = FreeSurface
    /\ LoadNextFrame
    /\ content' = [content EXCEPT ![FreeSurface] = pos']
    /\ file' = WritersReset /\ m_bFileWriterReset' = FALSE
    /\ region' = FirstRegion /\ pc' = "task"
    /\ UNCHANGED <<opt, phase, pCurrentTask, loopVars, m_bInsertIDR, vppHeld, encVars, lockVars,
                   seen, poolVars>>

RegionEndOfFile ==
    /\ pc = "frame" /\ FreeSurfaces # {}
    /\ nEncSurfIdx' = FreeSurface
    /\ \/ Rewind /\ UNCHANGED <<pc, phase, region>>
       \/ /\ pos = NumFrames /\ phase' = "enc_drain" /\ region' = FirstRegion /\ pc' = "task"
          /\ UNCHANGED <<inVars, m_bFileWriterReset, m_bInsertIDR>>
    /\ UNCHANGED <<opt, pCurrentTask, loopVars, file, content, vppHeld, encVars, lockVars,
                   seen, poolVars>>

-----------------------------------------------------------------------------
\* CResourcesPool::GetFreeTask: when the pool of the region has no free task,
\* the first task of every pool is synchronized.
RegionGetFreeTask ==
    /\ pc \in {"task", "retry"}
    /\ IF ~Full(region) THEN pCurrentTask' = GetFreeTaskIndex(region) /\ pc' = "encode" /\ UNCHANGED syncing
       ELSE /\ UNCHANGED pCurrentTask
            /\ IF pc = "task" THEN pc' = "rsync" /\ syncing' = FirstRegion
               ELSE pc' = "failed" /\ UNCHANGED syncing
    /\ UNCHANGED <<opt, phase, region, processed, skipLoading, inVars, m_bFileWriterReset,
                   m_bInsertIDR, file, surfVars, encVars, lockVars, seen, poolVars>>

NextPool ==
    /\ syncing' = syncing + 1
    /\ pc' = IF syncing = LastRegion THEN "retry" ELSE "rsync"

RegionSynchronize ==
    /\ pc = "rsync"
    /\ \/ SyncSucceeds(syncing, file) /\ NextPool /\ UNCHANGED seen
       \/ /\ \/ /\ InExecution(syncing, m_nTaskBufferStart[syncing])
                /\ \/ Fault("timeout") /\ NextPool
                   \/ (Fault("aborted") \/ Fault("hang")) /\ pc' = "failed" /\ UNCHANGED syncing
                   \/ Fault("device") /\ pc' = "device" /\ UNCHANGED syncing
             \/ /\ ~InExecution(syncing, m_nTaskBufferStart[syncing])
                /\ pc' = "failed" /\ UNCHANGED <<syncing, seen>>
          /\ UNCHANGED <<file, lockVars, poolVars>>
    /\ UNCHANGED <<opt, phase, region, pCurrentTask, processed, skipLoading, inVars,
                   m_bFileWriterReset, m_bInsertIDR, surfVars, encVars>>

-----------------------------------------------------------------------------
\* The status of a region is overwritten by that of the next one: only the
\* failure of the last region ends the main loop.
RegionEncode ==
    /\ pc = "encode" /\ opt.kind = "region" /\ phase = "main"
    /\ \/ EncodeFrame(region, nEncSurfIdx) /\ NextRegion("frame") /\ UNCHANGED seen
       \/ /\ \/ Fault("encode_failed") /\ NextRegion("failed")
             \/ Fault("device") /\ NextRegion("device")
          /\ m_bInsertIDR' = FALSE /\ UNCHANGED <<encVars, lockVars, poolVars>>
    /\ UNCHANGED <<opt, phase, pCurrentTask, loopVars, inVars, m_bFileWriterReset, file, surfVars>>

\* The encoders keep no frame back, and getting a free task for each region
\* has synchronized all: MFX_ERR_MORE_DATA from each, and Run is over.
RegionDrain ==
    /\ pc = "encode" /\ opt.kind = "region" /\ phase = "enc_drain"
    /\ \/ NextRegion("done") /\ UNCHANGED seen
       \/ Fault("encode_failed") /\ pc' = "failed" /\ UNCHANGED region
       \/ Fault("device") /\ pc' = "device" /\ UNCHANGED region
    /\ m_bInsertIDR' = FALSE
    /\ UNCHANGED <<opt, phase, pCurrentTask, loopVars, inVars, m_bFileWriterReset, file,
                   surfVars, encVars, lockVars, poolVars>>

RegionStep ==
    /\ opt.kind = "region"
    /\ \/ RegionReadFrame \/ RegionEndOfFile \/ RegionGetFreeTask \/ RegionSynchronize
       \/ RegionEncode \/ RegionDrain
=============================================================================
