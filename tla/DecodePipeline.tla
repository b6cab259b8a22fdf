-------------------------- MODULE DecodePipeline --------------------------
(***************************************************************************)
(* CDecodingPipeline of sample_decode: the decoding loop RunDecoding on    *)
(* the main thread, the delivery thread DeliverLoop that renders surfaces, *)
(* the pools of CBuffering they share, and the recovery loop of            *)
(* sample_decode_main around them.                                         *)
(*                                                                         *)
(* Left out: low latency (m_bIsCompleteFrame), the video wall and the      *)
(* -timeout option (the stream is read once), MVC, statistics.  The VPL    *)
(* decoder, VPP and SyncOperation are external: the library locks the      *)
(* surfaces it needs, outputs frames in display order, keeping at most     *)
(* DecoderDelay back, and unlocks a surface some time after its last use.  *)
(***************************************************************************)
EXTENDS Buffering

CONSTANTS
    Configurations, \* what the command line, the stream and the device are like
    NumDecoder,    \* m_SurfacesNumber, the surfaces of the decoder
    NumVpp,        \* the surfaces of the VPP output, when it is used
    DecoderNeeds,  \* surfaces the library may hold locked at once
    DecoderDelay,  \* frames the decoder may keep back
    AsyncDepth,    \* m_mfxVideoParams.AsyncDepth
    MaxFaults      \* bound on the failures in one behaviour

FaultKinds == {"sync_timeout", "sync_failed", "gpu_hang", "deliver_failed",
               "decode_failed", "vpp_failed", "incompatible", "realloc",
               "realloc_failed", "device_busy", "wait_timeout", "spurious",
               "reset_failed"}

\* One run of the program: m_eWorkMode, m_bVppIsUsed, m_nFrames and
\* m_bopt.softFlag, the frames that one ReadNextFrame brings in, and the
\* failures that may happen.
Configuration ==
    [mode : {"performance", "file_dump", "rendering"}, vpp : BOOLEAN,
     limit : Nat \ {0}, soft : BOOLEAN,
     frames : Nat, read : Nat \ {0}, may : SUBSET FaultKinds]

ASSUME PipelineAssumption ==
    /\ Configurations \subseteq Configuration
    /\ NumDecoder \in Nat /\ NumVpp \in Nat /\ DecoderDelay \in Nat
    /\ DecoderNeeds \in Nat
    /\ DecoderDelay < DecoderNeeds /\ DecoderNeeds < NumDecoder
    /\ AsyncDepth \in Nat \ {0} /\ MaxFaults \in Nat
    \* AllocFrames fails with fewer VPP surfaces than AsyncDepth
    /\ \A c \in Configurations : c.vpp => NumVpp > 0

DecoderSurfaces == 1..NumDecoder
Surfaces == 1..(NumDecoder + NumVpp)

\* an element of OutputSurfacesPool: a surface and the allocation of the pools
\* it belongs to
Output == [surf : Surfaces, alloc : Nat]
NoOutput == [surf |-> Null, alloc |-> 0]

\* mfxStatus: the loop goes on after these, negative ones are errors
Going == {"none", "more_data", "more_surface"}
Errors == {"not_found", "failed", "unknown", "gpu_hang"}
Warnings == {"in_execution", "task_working"}

VARIABLES
    opt,             \* the configuration, which does not change
    \* main thread
    pc, sts,
    caller, res,     \* who called SyncOutputSurface, and what it returned
    pBitstream,      \* pBitstream is not NULL
    incompatible,    \* bErrIncompatibleVideoParams
    prevReset,       \* prevResetBytesCount, -1 at first
    exit,            \* how the program ended
    \* input and decoder
    fed, consumed,   \* frames read into m_mfxBS, and consumed from it
    total, offset,   \* totalBytesProcessed and m_mfxBS.DataOffset, in frames
    decQ,            \* surfaces decoded and not yet output
    libLock,         \* surfaces the library has locked
    content,         \* the frame in each surface, 0: none
    \* CBuffering
    pool, vppPool,
    renderLock,      \* render_lock of each surface
    outPool,         \* m_OutputSurfacesPool, and
    outCount,        \*   its m_SurfacesCount
    curOut,          \* m_pCurrentOutputSurface
    alloc,           \* number of the current allocation of the pools
    \* delivery
    delivPool,       \* m_DeliveredSurfacesPool
    sem, event,      \* m_pDeliverOutputSemaphore, m_pDeliveredEvent
    stop, error,     \* m_bStopDeliverLoop, m_error
    dpc, dcur,       \* the delivery thread and the surface it holds
    synced, output,  \* m_synced_count, m_output_count
    delivered,       \* the frames written or rendered, in order
    faults           \* failures so far

ctlVars == <<opt, prevReset, exit>>
loopVars == <<pBitstream, incompatible>>
inVars == <<fed, consumed, total, offset>>
decVars == <<decQ, libLock, content>>
poolVars == <<pool, vppPool>>
outVars == <<outPool, outCount, curOut, alloc>>
delivVars == <<delivPool, sem, event>>
thrVars == <<stop, error, dpc, dcur>>
cntVars == <<synced, output, delivered>>
vars == <<pc, sts, caller, res, loopVars, ctlVars, inVars, decVars, poolVars,
          renderLock, outVars, delivVars, thrVars, cntVars, faults>>

Rendering == opt.mode = "rendering"
VppIsUsed == opt.vpp
FrameLimit == opt.limit
NumFrames == opt.frames

\* A bounded environment: one more failure of a kind the configuration allows.
Fault(kind) == kind \in opt.may /\ faults < MaxFaults /\ faults' = faults + 1

LastVpp == NumDecoder + (IF VppIsUsed THEN NumVpp ELSE 0)
VppSurfaces == (NumDecoder + 1)..LastVpp

Init ==
    /\ opt \in Configurations
    /\ pc = "start" /\ sts = "none" /\ caller = "stuck" /\ res = "none"
    /\ pBitstream = TRUE /\ incompatible = FALSE
    /\ prevReset = -1 /\ exit = "running"
    \* DecodeHeader has read the beginning of the stream
    /\ fed = Min({opt.read, NumFrames}) /\ consumed = 0 /\ total = 0 /\ offset = 0
    /\ decQ = <<>> /\ libLock = {} /\ content = [s \in Surfaces |-> 0]
    /\ pool = AllocBuffers(1, NumDecoder)
    /\ vppPool = AllocBuffers(NumDecoder + 1, LastVpp)
    /\ renderLock = [s \in Surfaces |-> 0]
    /\ outPool = <<>> /\ outCount = 0 /\ curOut = NoOutput /\ alloc = 1
    /\ delivPool = <<>> /\ sem = 0 /\ event = FALSE
    /\ stop = FALSE /\ error = "none" /\ dpc = "none" /\ dcur = NoOutput
    /\ synced = 0 /\ output = 0 /\ delivered = <<>>
    /\ faults = 0
-----------------------------------------------------------------------------
(* The library: a surface it no longer needs is unlocked some time later.  *)

LibraryUnlocks(s) ==
    /\ s \in libLock \ ToSet(decQ)
    /\ libLock' = libLock \ {s}
    /\ UNCHANGED <<pc, sts, caller, res, loopVars, ctlVars, inVars, decQ,
                   content, poolVars, renderLock, outVars, delivVars, thrVars,
                   cntVars, faults>>
-----------------------------------------------------------------------------
(* RunDecoding, the main thread.                                           *)

\* RunDecoding begins; in rendering mode it makes the semaphore, the event
\* and the delivery thread.
StartRun ==
    /\ pc = "start" /\ pc' = "top"
    /\ sts' = "none" /\ pBitstream' = TRUE /\ incompatible' = FALSE
    /\ IF Rendering THEN sem' = 0 /\ event' = FALSE /\ dpc' = "test"
                    ELSE UNCHANGED <<sem, event, dpc>>
    /\ UNCHANGED <<caller, res, ctlVars, inVars, decVars, poolVars, renderLock,
                   outVars, delivPool, stop, error, dcur, cntVars, faults>>

LoopGoesOn == sts \in Going /\ FrameLimit > output

\* The loop condition fails, or the delivery thread reported an error.
LeaveLoop ==
    /\ pc = "top" /\ ~(LoopGoesOn /\ error = "none")
    /\ pc' = "end"
    /\ UNCHANGED <<sts, caller, res, loopVars, ctlVars, inVars, decVars,
                   poolVars, renderLock, outVars, delivVars, thrVars, cntVars,
                   faults>>

\* ReadNextFrame, when the decoder asked for more data; at the end of the
\* stream pBitstream becomes NULL.  The reader moves what is left to the
\* start of the buffer, also when the file has nothing more.
ReadNextFrame ==
    /\ pc = "top" /\ LoopGoesOn /\ error = "none" /\ pc' = "take"
    /\ IF pBitstream /\ sts = "more_data"
       THEN /\ fed' = Min({fed + opt.read, NumFrames})
            /\ pBitstream' = (fed < NumFrames)
            /\ offset' = 0 /\ sts' = "none"
       ELSE UNCHANGED <<fed, pBitstream, offset, sts>>
    /\ UNCHANGED <<caller, res, incompatible, ctlVars, consumed, total, decVars,
                   poolVars, renderLock, outVars, delivVars, thrVars, cntVars,
                   faults>>

Busy == libLock \cup {s \in Surfaces : renderLock[s] > 0}

\* "we stuck with no free surface available, now we will sync", or the output
\* queue has reached AsyncDepth.
Stuck(p, v) ==
    p.cur = Null \/ (VppIsUsed /\ v.cur = Null) \/ outCount = AsyncDepth

CallSync(who) == caller' = who /\ pc' = "sync"

\* SyncFrameSurfaces, SyncVppFrameSurfaces and the current free surfaces.
TakeSurfaces ==
    /\ pc = "take"
    /\ pool' = TakeFree(SyncFrameSurfaces(pool, Busy))
    /\ vppPool' = TakeFree(SyncFrameSurfaces(vppPool, Busy))
    /\ IF Stuck(pool', vppPool') THEN CallSync("stuck") /\ UNCHANGED sts
       ELSE /\ UNCHANGED caller
            /\ IF stop THEN pc' = "end" /\ sts' = "none"
                       ELSE pc' = "decode" /\ UNCHANGED sts
    /\ UNCHANGED <<res, loopVars, ctlVars, inVars, decVars, renderLock, outVars,
                   delivVars, thrVars, cntVars, faults>>

\* A mutant: the surface is queued without its render_lock.
LockForRenderForgotten(s) == renderLock' = renderLock

\* The output surface goes to m_OutputSurfacesPool with its render_lock up.
LockForRender(s) == renderLock' = [renderLock EXCEPT ![s] = @ + 1]

QueueOutput(s) ==
    /\ LockForRender(s)
    /\ outPool' = Append(outPool, [surf |-> s, alloc |-> alloc])
    /\ outCount' = outCount + 1

\* DecodeFrameAsync outputs the first surface of q; with VPP its picture is
\* processed into the current VPP surface, and that one is queued.
EmitFrame(q, cont, lock) ==
    /\ decQ' = Tail(q) /\ libLock' = lock /\ pool' = UseCurrent(pool)
    /\ \/ /\ ~VppIsUsed
          /\ QueueOutput(Head(q)) /\ content' = cont
          /\ sts' = "none" /\ pc' = "top" /\ UNCHANGED <<vppPool, faults>>
       \/ /\ VppIsUsed
          /\ QueueOutput(vppPool.cur) /\ vppPool' = UseCurrent(vppPool)
          /\ content' = [cont EXCEPT ![vppPool.cur] = cont[Head(q)]]
          /\ sts' = "none" /\ pc' = "top" /\ UNCHANGED faults
       \/ /\ VppIsUsed /\ Fault("vpp_failed")
          /\ content' = cont /\ sts' = "failed" /\ pc' = "end"
          /\ UNCHANGED <<vppPool, renderLock, outPool, outCount>>

\* DecodeFrameAsync takes the next frame into the current free surface, and
\* outputs a frame or asks for another surface or for more data.
DecodeFrameAsync ==
    /\ pc = "decode" /\ pBitstream /\ consumed < fed
    /\ Cardinality(libLock) < DecoderNeeds
    /\ consumed' = consumed + 1 /\ offset' = offset + 1
    /\ LET q    == Append(decQ, pool.cur)
           cont == [content EXCEPT ![pool.cur] = consumed + 1]
           lock == libLock \cup {pool.cur}
       IN  \/ EmitFrame(q, cont, lock)
           \/ /\ Len(q) <= DecoderDelay
              /\ decQ' = q /\ content' = cont /\ libLock' = lock
              /\ pool' = UseCurrent(pool)
              /\ \/ sts' = "more_surface"
                 \/ sts' = "more_data" /\ consumed' = fed
              /\ pc' = "top"
              /\ UNCHANGED <<vppPool, renderLock, outPool, outCount, faults>>
    /\ UNCHANGED <<caller, res, loopVars, ctlVars, fed, total, curOut, alloc,
                   delivVars, thrVars, cntVars>>

\* Nothing is left in the bitstream: MFX_ERR_MORE_DATA, and the surface goes
\* to the used ones all the same.
NeedsMoreData ==
    /\ pc = "decode" /\ pBitstream /\ consumed = fed
    /\ sts' = "more_data" /\ pool' = UseCurrent(pool) /\ pc' = "top"
    /\ UNCHANGED <<caller, res, loopVars, ctlVars, inVars, decVars, vppPool,
                   renderLock, outVars, delivVars, thrVars, cntVars, faults>>

\* A mutant: the frames the decoder kept back are not asked for.
PullNothing ==
    /\ pc = "decode" /\ ~pBitstream /\ CallSync("drain")
    /\ UNCHANGED <<sts, res, loopVars, ctlVars, inVars, decVars, poolVars,
                   renderLock, outVars, delivVars, thrVars, cntVars, faults>>

\* With a null bitstream the decoder outputs what it kept back; when it has
\* nothing more, "we reached end of stream".
PullBuffered ==
    /\ pc = "decode" /\ ~pBitstream
    /\ \/ /\ decQ # <<>> /\ EmitFrame(decQ, content, libLock) /\ UNCHANGED caller
       \/ /\ decQ = <<>> /\ CallSync("drain")
          /\ UNCHANGED <<sts, decVars, poolVars, renderLock, outPool, outCount,
                         faults>>
    /\ UNCHANGED <<res, loopVars, ctlVars, inVars, curOut, alloc, delivVars,
                   thrVars, cntVars>>

\* The other outcomes of DecodeFrameAsync: the device is busy, an error, new
\* stream parameters, and a surface that must be reallocated.
DecodeTrouble ==
    /\ pc = "decode"
    /\ \/ Fault("device_busy") /\ CallSync("busy") /\ UNCHANGED <<sts, loopVars>>
       \/ /\ Fault("decode_failed")
          /\ sts' = "failed" /\ pc' = "top" /\ UNCHANGED <<caller, loopVars>>
       \/ /\ pBitstream /\ consumed < fed /\ Fault("incompatible")
          /\ incompatible' = TRUE /\ pBitstream' = FALSE
          /\ sts' = "none" /\ pc' = "top" /\ UNCHANGED caller
       \/ /\ pBitstream /\ consumed < fed /\ Fault("realloc")
          /\ sts' = "none" /\ pc' = "top" /\ UNCHANGED <<caller, loopVars>>
       \/ /\ pBitstream /\ consumed < fed /\ Fault("realloc_failed")
          /\ pBitstream' = FALSE /\ sts' = "none" /\ pc' = "top"
          /\ UNCHANGED <<caller, incompatible>>
    /\ UNCHANGED <<res, ctlVars, inVars, decVars, poolVars, renderLock, outVars,
                   delivVars, thrVars, cntVars>>
-----------------------------------------------------------------------------
(* SyncOutputSurface, and what its callers make of its status.             *)

\* The output surface to synchronise: the one a failed call left, or the
\* oldest of the queue, which the call takes.
Oldest == IF curOut # NoOutput THEN curOut ELSE Head(outPool)

\* A mutant: the count is not taken down with the surface.
TakeOldestUncounted ==
    /\ outPool' = IF curOut # NoOutput THEN outPool ELSE Tail(outPool)
    /\ UNCHANGED outCount

TakeOldest ==
    IF curOut # NoOutput THEN UNCHANGED <<outPool, outCount>>
    ELSE outPool' = Tail(outPool) /\ outCount' = outCount - 1

\* A mutant: the render_lock is taken down twice.
ReturnSurfaceTwice(out) == renderLock' = [renderLock EXCEPT ![out.surf] = @ - 2]

\* A mutant: the surface keeps its render_lock.
ReturnSurfaceForgotten(out) == renderLock' = renderLock

\* ReturnSurfaceToBuffers; a surface of an earlier allocation is in freed
\* memory, and no surface of the pools is changed.
ReturnSurfaceToBuffers(out) ==
    renderLock' = IF out.alloc = alloc
                  THEN [renderLock EXCEPT ![out.surf] = @ - 1]
                  ELSE renderLock

\* There is no output surface: MFX_ERR_MORE_DATA.
SyncNothing ==
    /\ pc = "sync" /\ curOut = NoOutput /\ outPool = <<>>
    /\ res' = "more_data" /\ pc' = "return"
    /\ UNCHANGED <<sts, caller, loopVars, ctlVars, inVars, decVars, poolVars,
                   renderLock, outVars, delivVars, thrVars, cntVars, faults>>

\* SyncOperation does not succeed: the surface stays in
\* m_pCurrentOutputSurface for the next call.
SyncFails ==
    /\ pc = "sync" /\ (curOut # NoOutput \/ outPool # <<>>)
    /\ curOut' = Oldest /\ TakeOldest
    /\ \/ Fault("sync_timeout") /\ res' = "in_execution"
       \/ Fault("sync_failed") /\ res' = "failed"
       \/ Fault("gpu_hang") /\ ~opt.soft /\ res' = "gpu_hang"
    /\ pc' = "return"
    /\ UNCHANGED <<sts, caller, loopVars, ctlVars, inVars, decVars, poolVars,
                   renderLock, alloc, delivVars, thrVars, cntVars>>

\* The frame is decoded (or the GPU hang is forgiven): it is counted, and
\* handed to the delivery thread.
SyncForDelivery ==
    /\ pc = "sync" /\ Rendering /\ (curOut # NoOutput \/ outPool # <<>>)
    /\ UNCHANGED faults \/ (Fault("gpu_hang") /\ opt.soft)
    /\ synced' = synced + 1
    /\ delivPool' = Append(delivPool, Oldest)
    /\ curOut' = NoOutput /\ TakeOldest
    /\ pc' = "reset"
    /\ UNCHANGED <<sts, caller, res, loopVars, ctlVars, inVars, decVars,
                   poolVars, renderLock, alloc, sem, event, thrVars, output,
                   delivered>>

\* m_pDeliveredEvent->Reset(), then m_pDeliverOutputSemaphore->Post().
ResetEvent ==
    /\ pc = "reset" /\ event' = FALSE /\ pc' = "post"
    /\ UNCHANGED <<sts, caller, res, loopVars, ctlVars, inVars, decVars,
                   poolVars, renderLock, outVars, delivPool, sem, thrVars,
                   cntVars, faults>>

PostDelivered ==
    /\ pc = "post" /\ sem' = sem + 1 /\ res' = "none" /\ pc' = "return"
    /\ UNCHANGED <<sts, caller, loopVars, ctlVars, inVars, decVars, poolVars,
                   renderLock, outVars, delivPool, event, thrVars, cntVars,
                   faults>>

\* In the other modes the main thread delivers the frame itself; a failed
\* DeliverOutput of the file becomes MFX_ERR_UNKNOWN and is not counted.
SyncAndDeliver ==
    /\ pc = "sync" /\ ~Rendering /\ (curOut # NoOutput \/ outPool # <<>>)
    /\ synced' = synced + 1
    /\ \/ /\ UNCHANGED faults \/ (Fault("gpu_hang") /\ opt.soft)
          /\ delivered' = Append(delivered, content[Oldest.surf])
          /\ output' = synced' /\ res' = "none"
       \/ /\ opt.mode = "file_dump" /\ Fault("deliver_failed")
          /\ res' = "unknown" /\ UNCHANGED <<output, delivered>>
    /\ ReturnSurfaceToBuffers(Oldest)
    /\ curOut' = NoOutput /\ TakeOldest
    /\ pc' = "return"
    /\ UNCHANGED <<sts, caller, loopVars, ctlVars, inVars, decVars, poolVars,
                   alloc, delivVars, thrVars>>

\* Back in the loop that had no surface or a full queue.
StuckReturns ==
    /\ pc = "return" /\ caller = "stuck"
    /\ \/ res # "more_data" /\ sts' = res /\ pc' = "top"
       \/ res = "more_data" /\ Rendering /\ sts' = res /\ pc' = "counts"
       \/ res = "more_data" /\ ~Rendering /\ sts' = "not_found" /\ pc' = "end"
    /\ UNCHANGED <<caller, res, loopVars, ctlVars, inVars, decVars, poolVars,
                   renderLock, outVars, delivVars, thrVars, cntVars, faults>>

\* Every frame synchronised was delivered: "failed to find output surface,
\* that's a bug!"; otherwise wait for the delivery thread.
CompareCounts ==
    /\ pc = "counts"
    /\ IF synced # output THEN pc' = "timed_wait" /\ UNCHANGED sts
                          ELSE pc' = "end" /\ sts' = "not_found"
    /\ UNCHANGED <<caller, res, loopVars, ctlVars, inVars, decVars, poolVars,
                   renderLock, outVars, delivVars, thrVars, cntVars, faults>>

\* m_pDeliveredEvent->TimedWait: signalled, expired, or woken by chance.
TimedWait ==
    /\ pc = "timed_wait" /\ event' = FALSE /\ pc' = "top"
    /\ \/ event /\ sts' = "none" /\ UNCHANGED faults
       \/ ~event /\ Fault("spurious") /\ sts' = "none"
       \/ ~event /\ Fault("wait_timeout") /\ sts' = "task_working"
    /\ UNCHANGED <<caller, res, loopVars, ctlVars, inVars, decVars, poolVars,
                   renderLock, outVars, delivPool, sem, thrVars, cntVars>>

\* Back in the DEVICE_BUSY loop: try again, or give up with the status; a
\* warning there is "output is not available".
BusyReturns ==
    /\ pc = "return" /\ caller = "busy"
    /\ \/ res \in {"none", "more_data"} /\ pc' = "decode" /\ UNCHANGED <<sts, pool>>
       \/ /\ res \in Warnings /\ pc' = "top"
          /\ sts' = "more_surface" /\ pool' = UseCurrent(pool)
       \/ res \in Errors /\ pc' = "top" /\ sts' = res /\ UNCHANGED pool
    /\ UNCHANGED <<caller, res, loopVars, ctlVars, inVars, decVars, vppPool,
                   renderLock, outVars, delivVars, thrVars, cntVars, faults>>

\* Back in the loop that drains the output queue at the end of the stream.
DrainReturns ==
    /\ pc = "return" /\ caller = "drain"
    /\ IF res = "none" THEN pc' = "sync" /\ UNCHANGED sts
       ELSE pc' = "drained" /\ sts' = IF res = "more_data" THEN "none" ELSE res
    /\ UNCHANGED <<caller, res, loopVars, ctlVars, inVars, decVars, poolVars,
                   renderLock, outVars, delivVars, thrVars, cntVars, faults>>

\* while (m_synced_count != m_output_count) m_pDeliveredEvent->Wait(); the
\* event is NULL unless the mode is rendering.
Drained ==
    /\ pc = "drained"
    /\ IF synced = output THEN pc' = "end" /\ UNCHANGED exit
       ELSE IF Rendering THEN pc' = "wait" /\ UNCHANGED exit
       ELSE pc' = "done" /\ exit' = "crashed"
    /\ UNCHANGED <<sts, caller, res, loopVars, opt, prevReset, inVars,
                   decVars, poolVars, renderLock, outVars, delivVars, thrVars,
                   cntVars, faults>>

WaitDelivered ==
    /\ pc = "wait" /\ event /\ event' = FALSE /\ pc' = "drained"
    /\ UNCHANGED <<sts, caller, res, loopVars, ctlVars, inVars, decVars,
                   poolVars, renderLock, outVars, delivPool, sem, thrVars,
                   cntVars, faults>>
-----------------------------------------------------------------------------
(* The end of RunDecoding, and sample_decode_main.                         *)

\* A mutant: nobody posts the semaphore for a delivery thread that waits.
EndRunSilently ==
    /\ pc = "end"
    /\ sts' = IF output = FrameLimit THEN "none" ELSE sts
    /\ IF Rendering THEN stop' = TRUE /\ pc' = "join"
                    ELSE pc' = "app" /\ UNCHANGED stop
    /\ UNCHANGED <<caller, res, loopVars, ctlVars, inVars, decVars, poolVars,
                   renderLock, outVars, delivVars, error, dpc, dcur, cntVars,
                   faults>>

\* The status is forgiven when exactly m_nFrames were delivered; the delivery
\* thread is told to stop.
EndRun ==
    /\ pc = "end"
    /\ sts' = IF output = FrameLimit THEN "none" ELSE sts
    /\ IF Rendering THEN stop' = TRUE /\ sem' = sem + 1 /\ pc' = "join"
                    ELSE pc' = "app" /\ UNCHANGED <<stop, sem>>
    /\ UNCHANGED <<caller, res, loopVars, ctlVars, inVars, decVars, poolVars,
                   renderLock, outVars, delivPool, event, error, dpc, dcur,
                   cntVars, faults>>

JoinDelivery ==
    /\ pc = "join" /\ dpc = "ended"
    /\ dpc' = "none" /\ pc' = "app"
    /\ UNCHANGED <<sts, caller, res, loopVars, ctlVars, inVars, decVars,
                   poolVars, renderLock, outVars, delivVars, stop, error, dcur,
                   cntVars, faults>>

RunStatus ==
    IF sts \in Errors \/ ~incompatible THEN sts ELSE "incompatible"

BytesProcessed == total + offset

Recoverable == RunStatus \in {"incompatible", "failed"}

\* Any other status ends the program, and so do two resets with the same
\* GetTotalBytesProcessed.
Exit ==
    /\ pc = "app"
    /\ \/ ~Recoverable /\ exit' = IF RunStatus \in Errors THEN "failed" ELSE "finished"
       \/ Recoverable /\ prevReset = BytesProcessed /\ exit' = "quit"
    /\ pc' = "done"
    /\ UNCHANGED <<sts, caller, res, loopVars, opt, prevReset, inVars,
                   decVars, poolVars, renderLock, outVars, delivVars, thrVars,
                   cntVars, faults>>

\* A mutant: the decoder is reset and its pools are used as they were.
PoolsKept == UNCHANGED <<poolVars, renderLock>>

\* AllocFrames: new pools, with every surface free.
AllocFrames ==
    /\ pool' = AllocBuffers(1, NumDecoder)
    /\ vppPool' = AllocBuffers(NumDecoder + 1, LastVpp)
    /\ renderLock' = [s \in Surfaces |-> 0]

\* ResetDevice and ResetDecoder: the decoder is closed, the pools are freed
\* and allocated again, and the header is looked for in the bitstream, with
\* one more read when it holds no data.  FreeBuffers leaves m_SurfacesCount
\* and DeleteFrames leaves m_pCurrentOutputSurface as they are.  (It leaves
\* the tail of a delivered list that was not empty, too, a pointer to freed
\* memory; nothing is read from that list afterwards, since the delivery
\* thread of the next RunDecoding ends at once: here the list is empty.)
ResetDecoder ==
    /\ pc = "app" /\ Recoverable /\ prevReset # BytesProcessed
    /\ prevReset' = BytesProcessed /\ UNCHANGED opt
    /\ decQ' = <<>> /\ libLock' = {} /\ content' = [s \in Surfaces |-> 0]
    /\ AllocFrames
    /\ outPool' = <<>> /\ delivPool' = <<>> /\ alloc' = alloc + 1
    /\ IF consumed < fed THEN UNCHANGED <<fed, offset, total>>
       ELSE /\ total' = total + offset /\ offset' = 0
            /\ fed' = Min({fed + opt.read, NumFrames})
    /\ \/ consumed < fed' /\ pc' = "start" /\ UNCHANGED exit
       \/ /\ consumed = fed' \/ "reset_failed" \in opt.may
          /\ pc' = "done" /\ exit' = "failed"
    /\ UNCHANGED <<sts, caller, res, loopVars, consumed, outCount, curOut, sem,
                   event, thrVars, cntVars, faults>>
-----------------------------------------------------------------------------
(* DeliverLoop, the delivery thread of rendering mode.                     *)

\* while (!m_bStopDeliverLoop)
DeliverTest ==
    /\ dpc = "test" /\ dpc' = IF stop THEN "ended" ELSE "waiting"
    /\ UNCHANGED <<pc, sts, caller, res, loopVars, ctlVars, inVars, decVars,
                   poolVars, renderLock, outVars, delivVars, stop, error, dcur,
                   cntVars, faults>>

\* A mutant: the stop is not looked at after the wait.
DeliverWaitIgnoringStop ==
    /\ dpc = "waiting" /\ sem > 0 /\ sem' = sem - 1
    /\ dpc' = IF error # "none" THEN "test" ELSE "take"
    /\ UNCHANGED <<pc, sts, caller, res, loopVars, ctlVars, inVars, decVars,
                   poolVars, renderLock, outVars, delivPool, event, stop, error,
                   dcur, cntVars, faults>>

\* m_pDeliverOutputSemaphore->Wait(); after a stop or an error the post is
\* for nothing.
DeliverWait ==
    /\ dpc = "waiting" /\ sem > 0 /\ sem' = sem - 1
    /\ dpc' = IF stop \/ error # "none" THEN "test" ELSE "take"
    /\ UNCHANGED <<pc, sts, caller, res, loopVars, ctlVars, inVars, decVars,
                   poolVars, renderLock, outVars, delivPool, event, stop, error,
                   dcur, cntVars, faults>>

DeliverTake ==
    /\ dpc = "take"
    /\ IF delivPool = <<>>
       THEN error' = "null_ptr" /\ dpc' = "test" /\ UNCHANGED <<delivPool, dcur>>
       ELSE /\ dcur' = Head(delivPool) /\ delivPool' = Tail(delivPool)
            /\ dpc' = "deliver" /\ UNCHANGED error
    /\ UNCHANGED <<pc, sts, caller, res, loopVars, ctlVars, inVars, decVars,
                   poolVars, renderLock, outVars, sem, event, stop, cntVars,
                   faults>>

\* DeliverOutput renders the frame, or fails; its status goes to m_error.
DeliverOutput ==
    /\ dpc = "deliver" /\ dpc' = "return"
    /\ \/ /\ delivered' = Append(delivered, content[dcur.surf])
          /\ UNCHANGED <<error, faults>>
       \/ /\ Fault("deliver_failed") /\ error' = "unknown" /\ UNCHANGED delivered
    /\ UNCHANGED <<pc, sts, caller, res, loopVars, ctlVars, inVars, decVars,
                   poolVars, renderLock, outVars, delivVars, stop, dcur, synced,
                   output>>

\* A mutant: after an error the frame is not counted.
DeliverCountSkipped ==
    /\ dpc = "count" /\ dpc' = "signal"
    /\ output' = IF error = "none" THEN output + 1 ELSE output
    /\ UNCHANGED <<pc, sts, caller, res, loopVars, ctlVars, inVars, decVars,
                   poolVars, renderLock, outVars, delivVars, stop, error, dcur,
                   synced, delivered, faults>>

DeliverReturn ==
    /\ dpc = "return" /\ dpc' = "count"
    /\ ReturnSurfaceToBuffers(dcur) /\ dcur' = NoOutput
    /\ UNCHANGED <<pc, sts, caller, res, loopVars, ctlVars, inVars, decVars,
                   poolVars, outVars, delivVars, stop, error, cntVars, faults>>

DeliverCount ==
    /\ dpc = "count" /\ dpc' = "signal" /\ output' = output + 1
    /\ UNCHANGED <<pc, sts, caller, res, loopVars, ctlVars, inVars, decVars,
                   poolVars, renderLock, outVars, delivVars, stop, error, dcur,
                   synced, delivered, faults>>

DeliverSignal ==
    /\ dpc = "signal" /\ dpc' = "test" /\ event' = TRUE
    /\ UNCHANGED <<pc, sts, caller, res, loopVars, ctlVars, inVars, decVars,
                   poolVars, renderLock, outVars, delivPool, sem, stop, error,
                   dcur, cntVars, faults>>
-----------------------------------------------------------------------------
MainThread ==
    \/ StartRun \/ LeaveLoop \/ ReadNextFrame \/ TakeSurfaces
    \/ DecodeFrameAsync \/ NeedsMoreData \/ PullBuffered \/ DecodeTrouble
    \/ SyncNothing \/ SyncFails \/ SyncForDelivery \/ ResetEvent
    \/ PostDelivered \/ SyncAndDeliver
    \/ StuckReturns \/ CompareCounts \/ TimedWait \/ BusyReturns
    \/ DrainReturns \/ Drained \/ WaitDelivered
    \/ EndRun \/ JoinDelivery \/ Exit \/ ResetDecoder

DeliverLoop ==
    \/ DeliverTest \/ DeliverWait \/ DeliverTake \/ DeliverOutput
    \/ DeliverReturn \/ DeliverCount \/ DeliverSignal

Done == pc = "done" /\ UNCHANGED vars

Next == MainThread \/ DeliverLoop \/ (\E s \in Surfaces : LibraryUnlocks(s)) \/ Done

Spec == Init /\ [][Next]_vars

\* Both threads are scheduled, and the library finishes what it was given.
Fairness ==
    /\ WF_vars(MainThread) /\ WF_vars(DeliverLoop)
    /\ \A s \in Surfaces : WF_vars(LibraryUnlocks(s))

FairSpec == Spec /\ Fairness
-----------------------------------------------------------------------------
Outputs == Output \cup {NoOutput}

ControlTypes ==
    /\ pc \in {"start", "top", "take", "decode", "sync", "reset", "post",
               "return", "counts", "timed_wait", "drained", "wait", "end",
               "join", "app", "done"}
    /\ sts \in Going \cup Errors \cup Warnings
    /\ caller \in {"stuck", "busy", "drain"}
    /\ res \in {"none", "more_data"} \cup Errors \cup Warnings
    /\ pBitstream \in BOOLEAN /\ incompatible \in BOOLEAN
    /\ exit \in {"running", "finished", "failed", "quit", "crashed"}

StreamTypes ==
    /\ opt \in Configurations /\ prevReset \in Nat \cup {-1}
    /\ fed \in 0..NumFrames /\ consumed \in 0..fed
    /\ total \in Nat /\ offset \in 0..consumed
    /\ faults \in 0..MaxFaults

DecoderTypes ==
    /\ decQ \in Seq(DecoderSurfaces)
    /\ libLock \subseteq DecoderSurfaces
    /\ content \in [Surfaces -> 0..NumFrames]

BufferTypes ==
    /\ renderLock \in [Surfaces -> Nat] /\ outCount \in Nat

OutputTypes ==
    /\ outPool \in Seq(Output) /\ curOut \in Outputs
    /\ delivPool \in Seq(Output) /\ dcur \in Outputs
    /\ delivered \in Seq(0..NumFrames)

ThreadTypes ==
    /\ alloc \in Nat /\ sem \in Nat /\ event \in BOOLEAN
    /\ stop \in BOOLEAN /\ error \in {"none", "unknown", "null_ptr"}
    /\ dpc \in {"none", "test", "waiting", "take", "deliver", "return",
                "count", "signal", "ended"}
    /\ synced \in Nat /\ output \in Nat

TypeOK ==
    /\ ControlTypes /\ StreamTypes /\ DecoderTypes
    /\ BufferTypes /\ OutputTypes /\ ThreadTypes

(* The surface pools never lose a surface and never hold one twice: each   *)
(* surface is free, used, or the one the main thread is about to use.      *)
SurfacesPartitioned ==
    /\ PoolIsPartitioned(pool) /\ PoolSurfaces(pool) = DecoderSurfaces
    /\ PoolIsPartitioned(vppPool)
    /\ PoolSurfaces(vppPool) = VppSurfaces

\* how often surface s of the current allocation is in list q
Times(q, s) == Cardinality({i \in DOMAIN q : q[i] = [surf |-> s, alloc |-> alloc]})

\* the places an output surface can be in between the two threads
QueuedFor(s) ==
    Times(outPool, s) + Times(delivPool, s)
    + (IF curOut = [surf |-> s, alloc |-> alloc] THEN 1 ELSE 0)
    + (IF dcur = [surf |-> s, alloc |-> alloc] THEN 1 ELSE 0)

(* render_lock, which both threads change, is the number of places the     *)
(* surface waits in to be delivered, at any moment: it neither leaks a     *)
(* lock, which would starve the decoder, nor drops one early.              *)
RenderLockCountsOutputs == \A s \in Surfaces : renderLock[s] = QueuedFor(s)

(* What is written or rendered is the stream's frames, each once and in    *)
(* order: no surface was decoded into while it waited for delivery.        *)
FramesInOrder ==
    /\ \A i \in DOMAIN delivered : delivered[i] \in 1..consumed
    /\ \A i, j \in DOMAIN delivered : i < j => delivered[i] < delivered[j]

(* The counters the main thread waits on are the delivery queue's length:  *)
(* m_synced_count is ahead of m_output_count by the surfaces still to be   *)
(* delivered, whatever failed, so that the wait at the end of the stream   *)
(* waits for exactly them.                                                 *)
CountersMeasureDelivery ==
    Rendering /\ alloc = 1 =>
        synced = output + Len(delivPool)
                 + (IF dpc \in {"deliver", "return", "count"} THEN 1 ELSE 0)

(* The delivery thread is never woken for an empty list: the               *)
(* MFX_ERR_NULL_PTR of DeliverLoop is not reached.                         *)
DeliveryFindsSurface == error # "null_ptr"

\* The surface that SyncOperation failed on outlives a reset; whatever comes
\* after is about an old surface.
NoStaleSurface == alloc = 1 \/ opt.may \cap {"sync_failed", "sync_timeout"} = {}

(* When GetSurfaceCount says the queue is full there is a surface in it to *)
(* synchronise, also after a reset that left the count of the old queue.   *)
FullQueueHasSurface ==
    NoStaleSurface /\ pc = "take" /\ outCount = AsyncDepth =>
        outPool # <<>> \/ curOut # NoOutput

(* The main loop always finds an output surface to wait for: the exit      *)
(* "fatal: failed to find output surface, that's a bug!" is not taken.     *)
SurfaceAlwaysFound == sts # "not_found"

(* The same when the main thread delivers the surfaces itself: no error or *)
(* recovery path loses one, so a surface is free or there is one to wait   *)
(* for.                                                                    *)
SurfaceFoundWithoutThread == ~Rendering => SurfaceAlwaysFound

\* The failures after which nothing may be missing: the program forgives
\* them, or drains the decoder before it starts again.  With a delivery
\* thread it does not survive a change of parameters: stop stays TRUE.
Forgiven ==
    {"gpu_hang", "device_busy", "realloc", "spurious"}
        \cup (IF Rendering THEN {} ELSE {"incompatible"})

(* A program that says it finished has delivered the whole stream, or as   *)
(* many frames as were asked for.                                          *)
FinishedMeansComplete ==
    exit = "finished" /\ opt.may \subseteq Forgiven =>
        Len(delivered) >= Min({NumFrames, FrameLimit})

(* DecodeFrameAsync and VPP never write a surface that waits for delivery, *)
(* or one that the library has locked.                                     *)
NoOverwrite ==
    [][\A s \in Surfaces : content'[s] \notin {content[s], 0} => s \notin Busy]_vars

(* RunDecoding and the recovery loop end, whatever the interleaving of the *)
(* two threads and whatever fails among the faults of the instance.        *)
ProgramEnds == <>(pc = "done" /\ exit # "crashed")
=============================================================================
