--------------------------- MODULE EncodePipeline ---------------------------
(***************************************************************************)
(* Run of CEncodingPipeline and of CUserPipeline: the main loop reads,     *)
(* preprocesses and encodes; two loops then take the frames VPP and the    *)
(* encoder kept back; at last all tasks are synchronized.  The pipeline    *)
(* has one task pool, number 0.  What CUserPipeline does differently: no   *)
(* VPP and no frame limit, its frames go to the surfaces of the rotation   *)
(* plug-in, and the surface it encodes is never written.                   *)
(***************************************************************************)
EXTENDS EncodeSession

LimitReached ==
    /\ opt.kind = "encode" /\ phase = "main"
    /\ opt.limit # 0 /\ processed = opt.limit

-----------------------------------------------------------------------------
\* SynchronizeFirstTask does not deliver.

\* Mutant: no IDR frame is asked for.
GpuHangRecoveryOnly ==
    /\ ClearTasks({0})
    /\ reading' = reading \ InTasks /\ locks' = {} /\ DependentVppTasks' = {}
    /\ UNCHANGED <<m_bInsertIDR, pc>>

\* A GPU hang with -robust:soft: no task is written, ClearTasks and
\* FreeSurfacePool; Run goes on.
GpuHangRecovery ==
    /\ ClearTasks({0})
    /\ reading' = reading \ InTasks /\ locks' = {} /\ DependentVppTasks' = {}
    /\ m_bInsertIDR' = TRUE /\ UNCHANGED pc

\* The encoding task was aborted because the VPP task it depends on hung.
\* SynchronizeFirstTask clears the tasks, the list of VPP tasks with them,
\* and then removes the first element of that list: undefined behaviour.
DependentTaskHung == m_nTaskBufferStart[0] \in DependentVppTasks

TaskHung == Fault("hang") \/ (DependentTaskHung /\ Fault("vpp_hang"))

\* late: where MFX_WRN_IN_EXECUTION leads.
SyncFails(late) ==
    \/ TaskHung /\ opt.robust /\ GpuHangRecovery
    \/ /\ \/ TaskHung /\ ~opt.robust /\ pc' = "failed"
          \/ DependentTaskHung /\ Fault("vpp_hang") /\ opt.robust /\ pc' = "undefined"
          \/ Fault("aborted") /\ pc' = "failed"
          \/ Fault("timeout") /\ pc' = late
          \/ Fault("device") /\ pc' = "device"
       /\ UNCHANGED <<m_bInsertIDR, lockVars, poolVars>>

-----------------------------------------------------------------------------
\* GetFreeTask: the writers start again if they have to; the oldest task is
\* synchronized when none is free.  A task that is still in execution then
\* leaves none to give.
GetFreeTask ==
    /\ pc = "task" /\ ~LimitReached
    /\ m_bFileWriterReset' = FALSE
    /\ \/ /\ ~Full(0)
          /\ pCurrentTask' = GetFreeTaskIndex(0)
          /\ pc' = (IF phase = "main" THEN "frame" ELSE "encode")
          /\ file' = WritersReset /\ UNCHANGED <<m_bInsertIDR, lockVars, seen, poolVars>>
       \/ /\ Full(0) /\ UNCHANGED pCurrentTask
          /\ \/ SyncSucceeds(0, WritersReset) /\ UNCHANGED <<pc, m_bInsertIDR, seen>>
             \/ file' = WritersReset /\ SyncFails("failed")
    /\ UNCHANGED <<opt, phase, region, loopVars, inVars, surfVars, encVars>>

\* Mutant: the frames buffered in VPP are left there.
DrainEncoderOnly == phase' = "enc_drain" /\ pc' = "task"

\* The main loop is over: frames buffered in VPP, then in the encoder.
Drain ==
    /\ phase' = (IF opt.vpp THEN "vpp_drain" ELSE "enc_drain")
    /\ pc' = (IF opt.vpp THEN "frame" ELSE "task")

StopAtLimit ==
    /\ pc = "task" /\ LimitReached /\ Drain
    /\ UNCHANGED <<opt, region, pCurrentTask, loopVars, inVars, m_bFileWriterReset, m_bInsertIDR,
                   file, surfVars, encVars, lockVars, seen, poolVars>>

-----------------------------------------------------------------------------
\* A frame is read into the surface to encode, or the one VPP takes.
ReadFrame ==
    /\ pc = "frame" /\ phase = "main" /\ FreeSurfaces # {}
    /\ nEncSurfIdx' = FreeSurface
    /\ IF skipLoading THEN UNCHANGED <<inVars, content, vppHeld>>
       ELSE /\ LoadNextFrame
            /\ content' = (IF opt.vpp \/ opt.kind = "user" THEN content
                           ELSE [content EXCEPT ![FreeSurface] = pos'])
            /\ vppHeld' = (IF opt.vpp THEN Append(vppHeld, pos') ELSE vppHeld)
    /\ pc' = (IF opt.vpp THEN "vpp" ELSE "encode")
    /\ UNCHANGED <<opt, phase, region, pCurrentTask, loopVars, m_bFileWriterReset, m_bInsertIDR,
                   file, encVars, lockVars, seen, poolVars>>

\* At the end of the file the loop goes on with a file read again, or ends.
EndOfFile ==
    /\ pc = "frame" /\ phase = "main" /\ FreeSurfaces # {} /\ ~skipLoading
    /\ nEncSurfIdx' = FreeSurface
    /\ \/ Rewind /\ pc' = "task" /\ UNCHANGED phase
       \/ pos = NumFrames /\ Drain /\ UNCHANGED <<inVars, m_bFileWriterReset, m_bInsertIDR>>
    /\ UNCHANGED <<opt, region, pCurrentTask, loopVars, file, content, vppHeld,
                   encVars, lockVars, seen, poolVars>>

\* RunFrameVPPAsync.  MFX_ERR_MORE_DATA: VPP keeps a frame back.
\* MFX_ERR_MORE_SURFACE: it has another output for the same frame, which the
\* next round asks for without reading.
VppKeeps ==
    /\ Len(vppHeld) <= (IF skipLoading THEN 0 ELSE 1)
    /\ pc' = "task" /\ skipLoading' = FALSE
    /\ UNCHANGED <<content, vppHeld, seen>>

VppOutputs ==
    /\ vppHeld # <<>>
    /\ content' = [content EXCEPT ![nEncSurfIdx] = Head(vppHeld)]
    /\ pc' = "encode"
    /\ \/ vppHeld' = Tail(vppHeld) /\ skipLoading' = FALSE /\ UNCHANGED seen
       \/ Fault("double") /\ skipLoading' = TRUE /\ UNCHANGED vppHeld

\* RunFrameVPPAsync fails, and Run with it.
VppFails ==
    /\ \/ Fault("vpp_failed") /\ pc' = "failed"
       \/ Fault("device") /\ pc' = "device"
    /\ UNCHANGED <<content, vppHeld>>

RunVpp ==
    /\ pc = "vpp"
    /\ VppKeeps \/ VppOutputs \/ (VppFails /\ skipLoading' = FALSE)
    /\ UNCHANGED <<opt, phase, region, pCurrentTask, processed, syncing, inVars, nEncSurfIdx,
                   m_bFileWriterReset, m_bInsertIDR, file, encVars, lockVars, poolVars>>

\* The loop for frames buffered in VPP.  An output that comes with
\* MFX_ERR_MORE_SURFACE is dropped: the loop goes round before it is encoded.
DrainVpp ==
    /\ pc = "frame" /\ phase = "vpp_drain" /\ FreeSurfaces # {}
    /\ nEncSurfIdx' = FreeSurface
    /\ \/ vppHeld = <<>> /\ phase' = "enc_drain" /\ pc' = "task" /\ UNCHANGED <<content, vppHeld, seen>>
       \/ /\ vppHeld # <<>> /\ UNCHANGED phase
          /\ content' = [content EXCEPT ![FreeSurface] = Head(vppHeld)]
          /\ vppHeld' = Tail(vppHeld)
          /\ \/ pc' = "task" /\ UNCHANGED seen
             \/ Fault("more_surface") /\ Len(vppHeld) > 1 /\ UNCHANGED pc
       \/ VppFails /\ UNCHANGED phase
    /\ UNCHANGED <<opt, region, pCurrentTask, loopVars, inVars, m_bFileWriterReset, m_bInsertIDR,
                   file, encVars, lockVars, poolVars>>

-----------------------------------------------------------------------------
\* EncodeFrameAsync with a frame, in the main loop or that of VPP.
Encode ==
    /\ pc = "encode" /\ opt.kind # "region" /\ phase # "enc_drain"
    /\ \/ /\ EncodeFrame(0, nEncSurfIdx)
          /\ pc' = (IF phase = "main" THEN "task" ELSE "frame")
          /\ processed' = (IF phase = "main" THEN processed + 1 ELSE processed)
          /\ UNCHANGED seen
       \/ /\ \/ Fault("encode_failed") /\ pc' = "failed"
             \/ Fault("device") /\ pc' = "device"
          /\ m_bInsertIDR' = FALSE /\ UNCHANGED <<processed, encVars, lockVars, poolVars>>
    /\ UNCHANGED <<opt, phase, region, pCurrentTask, skipLoading, syncing, inVars,
                   m_bFileWriterReset, file, surfVars>>

\* Mutant: MFX_ERR_MORE_DATA does not end the loop.
EncodeDrainedForever ==
    /\ pc = "encode" /\ opt.kind # "region" /\ phase = "enc_drain"
    /\ \/ DrainEncoder(0) /\ pc' = "task" /\ UNCHANGED seen
       \/ /\ pc' = "task" /\ UNCHANGED seen
          /\ m_bInsertIDR' = FALSE /\ UNCHANGED <<encVars, lockVars, poolVars>>
    /\ UNCHANGED <<opt, phase, region, pCurrentTask, loopVars, inVars, m_bFileWriterReset,
                   file, surfVars>>

\* EncodeFrameAsync with no frame, until the encoder has none left.
EncodeDrained ==
    /\ pc = "encode" /\ opt.kind # "region" /\ phase = "enc_drain"
    /\ \/ DrainEncoder(0) /\ pc' = "task" /\ UNCHANGED seen
       \/ /\ \/ encIn[0] = <<>> /\ pc' = "sync" /\ UNCHANGED seen
             \/ Fault("encode_failed") /\ pc' = "failed"
             \/ Fault("device") /\ pc' = "device"
          /\ m_bInsertIDR' = FALSE /\ UNCHANGED <<encVars, lockVars, poolVars>>
    /\ UNCHANGED <<opt, phase, region, pCurrentTask, loopVars, inVars, m_bFileWriterReset,
                   file, surfVars>>

\* All tasks left in the pool.  MFX_WRN_IN_EXECUTION ends the loop, and Run
\* with no error.
SynchronizeAll ==
    /\ pc = "sync"
    /\ \/ SyncSucceeds(0, file) /\ UNCHANGED <<pc, m_bInsertIDR, seen>>
       \/ InExecution(0, m_nTaskBufferStart[0]) /\ SyncFails("done") /\ UNCHANGED file
       \/ /\ ~InExecution(0, m_nTaskBufferStart[0]) /\ pc' = "done"
          /\ UNCHANGED <<m_bInsertIDR, file, lockVars, seen, poolVars>>
    /\ UNCHANGED <<opt, phase, region, pCurrentTask, loopVars, inVars, m_bFileWriterReset,
                   surfVars, encVars>>

EncodeStep ==
    /\ opt.kind # "region"
    /\ \/ GetFreeTask \/ StopAtLimit \/ ReadFrame \/ EndOfFile \/ RunVpp
       \/ DrainVpp \/ Encode \/ EncodeDrained \/ SynchronizeAll
=============================================================================
