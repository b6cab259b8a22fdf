--------------------------- MODULE EncodeSession ---------------------------
(***************************************************************************)
(* What the pipelines of sample_encode share: the source file with its     *)
(* -timeout loop, the output files, the surfaces, the encoding task pools, *)
(* and the VPL encoder, which is external: it takes frames in order, keeps *)
(* at most opt.delay of them back, locks the surface of a frame from       *)
(* EncodeFrameAsync until the frame is encoded, and encodes at its own     *)
(* pace.  A frame that is in an encoder is a job.                          *)
(*                                                                         *)
(* Left out: -perf_opt (frames preloaded), QP files, reading by frame      *)
(* (m_bReadByFrame), v4l2 input, frame orders, parameters and statistics.  *)
(***************************************************************************)
EXTENDS EncTaskPool, FiniteSets

CONSTANTS
    Configurations, \* command lines, and what may go wrong
    NumFrames,      \* frames of the source file
    MaxPasses,      \* bound on how often -timeout has the file read
    NumSurfaces     \* m_EncResponse.NumFrameActual

FaultKinds == {"hang", "vpp_hang", "aborted", "timeout", "device", "encode_failed",
               "vpp_failed", "busy", "double", "more_surface"}

\* kind: the pipeline class CreatePipeline makes, vpp: VPP is used, views: 2
\* when each view has its own output file, robust: -robust:soft, cut: the
\* output is cut when the input starts again (no -uncut), delay: frames the
\* encoder keeps back, limit: m_nFramesToProcess, may: the failures allowed,
\* each once.
Configuration ==
    [kind : {"encode", "user", "region"}, vpp : BOOLEAN, views : {1, 2}, robust : BOOLEAN,
     cut : BOOLEAN, delay : Nat, limit : Nat, may : SUBSET FaultKinds]

\* CUserPipeline and CRegionEncodingPipeline do not set m_bSoftRobustFlag; the
\* region pipeline sets AsyncDepth and GopRefDist to 1; a second writer needs
\* an even number of tasks.  Pool 0 is that of a pipeline, those of the regions
\* are numbered from 1.
ASSUME SessionAssumption ==
    /\ Configurations \subseteq Configuration
    /\ NumFrames \in Nat \ {0} /\ MaxPasses \in Nat \ {0} /\ NumSurfaces \in Nat \ {0}
    /\ IsFiniteSet(Pools) /\ Pools = 0..Cardinality(Pools \ {0})
    /\ \A c \in Configurations :
         /\ c.kind # "encode" => ~c.vpp /\ ~c.robust /\ c.views = 1
         /\ c.kind = "region" => c.delay = 0 /\ Pools # {0}
         /\ c.views = 2 => PoolSize[0] % 2 = 0 /\ NumFrames % 2 = 0 /\ ~c.vpp
    /\ \A p \in Pools \ {0} : PoolSize[p] = 1

\* Jobs are numbered from 1: one for each frame read, in each region, and one
\* more when VPP doubles a frame.
ASSUME JobsAssumption ==
    1..((NumFrames * MaxPasses + 1) * Cardinality(Pools)) \subseteq Jobs

Surfaces == 1..NumSurfaces
Regions == Pools \ {0}

VARIABLES
    opt,                \* the configuration, which does not change
    pc, phase,          \* where the pipeline is: "main", "vpp_drain", "enc_drain" loop
    region,             \* regId, 0 but in the region pipeline
    pCurrentTask,       \* the task GetFreeTask gave
    nEncSurfIdx,        \* the surface to encode
    processed,          \* nFramesProcessed
    skipLoading,        \* skipLoadingNextFrame
    syncing,            \* the pool CResourcesPool::GetFreeTask waits for
    pos, passes,        \* the place in the source file, the times it was begun
    m_bFileWriterReset, m_bInsertIDR,
    file,               \* the jobs in each output file
    content,            \* the frame in each surface of the encoder, 0: none
    vppHeld,            \* frames VPP has not output yet
    encIn,              \* jobs the encoder of each pool keeps back
    fresh,              \* pools whose encoder has had no frame since Init
    job,                \* all jobs, in the order they were given to encoders
    reading,            \* jobs that are not encoded yet
    locks,              \* jobs whose surface is locked (Data.Locked)
    DependentVppTasks,  \* tasks that have VPP tasks to wait for (sTask::DependentVppTasks)
    seen                \* the failures so far

inVars == <<pos, passes>>
loopVars == <<processed, skipLoading, syncing>>
surfVars == <<content, nEncSurfIdx, vppHeld>>
encVars == <<encIn, fresh, job>>
lockVars == <<reading, locks, DependentVppTasks>>
vars == <<opt, pc, phase, region, pCurrentTask, loopVars, inVars, m_bFileWriterReset,
          m_bInsertIDR, file, surfVars, encVars, lockVars, seen, poolVars>>

UsedPools == IF opt.kind = "region" THEN Regions ELSE {0}

\* A failure the configuration allows and that has not happened yet.
Fault(f) == f \in opt.may \ seen /\ seen' = seen \cup {f}

Ended == {"done", "failed", "undefined"}

SessionInit ==
    /\ opt \in Configurations
    /\ phase = "main" /\ region = 0 /\ pCurrentTask = 0 /\ nEncSurfIdx = 1
    /\ pc = IF opt.kind = "region" THEN "frame" ELSE "task"
    /\ processed = 0 /\ skipLoading = FALSE /\ syncing = 0
    /\ pos = 0 /\ passes = 1
    /\ m_bFileWriterReset = FALSE /\ m_bInsertIDR = FALSE
    /\ file = [w \in {1, 2} |-> <<>>]
    /\ content = [s \in Surfaces |-> 0] /\ vppHeld = <<>>
    /\ encIn = [p \in Pools |-> <<>>] /\ fresh = Pools /\ job = <<>>
    /\ reading = {} /\ locks = {} /\ DependentVppTasks = {} /\ seen = {}
    /\ PoolInit

-----------------------------------------------------------------------------
\* The source file and the surfaces.

\* GetFreeSurface: the first surface that is not locked.  It waits for one.
\* (The surfaces that frames are read into for VPP or the rotation plug-in are
\* not modelled, nor is the wait for one of them.)
FreeSurfaces == {s \in Surfaces : \A j \in locks : job[j].surf # s}

\* Mutant: a locked surface is taken as well.
FirstSurface == 1

FreeSurface == CHOOSE s \in FreeSurfaces : \A r \in FreeSurfaces : s <= r

\* The wait ends without a surface: MFX_ERR_MEMORY_ALLOC.
NoFreeSurface ==
    /\ pc = "frame" /\ FreeSurfaces = {} /\ pc' = "failed"
    /\ UNCHANGED <<opt, phase, region, pCurrentTask, loopVars, inVars, m_bFileWriterReset,
                   m_bInsertIDR, file, surfVars, encVars, lockVars, seen, poolVars>>

\* LoadNextFrame brings in a frame.
LoadNextFrame ==
    /\ pos < NumFrames /\ pos' = pos + 1 /\ UNCHANGED passes

\* LoadNextFrame at the end of the file, before the time is over: the reader
\* starts again, the output with it when it is cut.
Rewind ==
    /\ pos = NumFrames /\ passes < MaxPasses
    /\ pos' = 0 /\ passes' = passes + 1
    /\ m_bFileWriterReset' = opt.cut /\ m_bInsertIDR' = opt.cut

\* CSmplBitstreamWriter::Reset opens the output file again, empty.
WritersReset == [w \in {1, 2} |-> IF m_bFileWriterReset THEN <<>> ELSE file[w]]

-----------------------------------------------------------------------------
\* The encoder and SyncOperation.

\* The tasks of a pool alternate between the writers of the two views.
Writer(p, i) == IF opt.views = 2 THEN (i % 2) + 1 ELSE 1

ViewOf(frame) == IF opt.views = 2 THEN ((frame - 1) % 2) + 1 ELSE 1

\* SynchronizeFirstTask of pool p succeeds; f: the output files before.
SyncSucceeds(p, f) ==
    LET i == m_nTaskBufferStart[p]
        j == m_pTasks[p][i]
    IN  /\ SynchronizeFirstTask(p)
        /\ file' = [f EXCEPT ![Writer(p, i)] = Append(@, j)]
        /\ reading' = reading \ {j} /\ locks' = locks \ {j}
        /\ DependentVppTasks' = DependentVppTasks \ {i}

\* jobs in execution
InTasks == (UNION {{m_pTasks[p][i] : i \in Slots(p)} : p \in UsedPools}) \ {NoTask}

\* The encoder of the pool finishes a job in execution by itself.
EncoderFinishes ==
    \E j \in reading \cap InTasks :
        /\ reading' = reading \ {j} /\ locks' = locks \ {j}
        /\ UNCHANGED <<opt, pc, phase, region, pCurrentTask, loopVars, inVars,
                       m_bFileWriterReset, m_bInsertIDR, file, surfVars, encVars,
                       DependentVppTasks, seen, poolVars>>

\* EncodeFrameAsync(ctrl, surface s): the frame becomes a job, and the job the
\* encoder has had longest, once it keeps back opt.delay, is put into the
\* current task.  InsertIDR asks for an IDR frame in the control of the call.
\* The VPP task the frame comes from is noted in the current task, also when
\* that is not the task the frame will be delivered with.
EncodeFrame(p, s) ==
    LET j == Len(job) + 1
        q == Append(encIn[p], j)
    IN  /\ job' = Append(job, [frame |-> content[s], surf |-> s, pool |-> p,
                               idr |-> m_bInsertIDR \/ p \in fresh])
        /\ m_bInsertIDR' = FALSE /\ fresh' = fresh \ {p}
        /\ reading' = reading \cup {j} /\ locks' = locks \cup {j}
        /\ DependentVppTasks' = DependentVppTasks \cup (IF opt.vpp THEN {pCurrentTask} ELSE {})
        /\ IF Len(q) > opt.delay
           THEN Submit(p, pCurrentTask, Head(q)) /\ encIn' = [encIn EXCEPT ![p] = Tail(q)]
           ELSE encIn' = [encIn EXCEPT ![p] = q] /\ UNCHANGED poolVars

\* EncodeFrameAsync(ctrl, NULL) while the encoder keeps frames back.
DrainEncoder(p) ==
    /\ encIn[p] # <<>>
    /\ Submit(p, pCurrentTask, Head(encIn[p]))
    /\ encIn' = [encIn EXCEPT ![p] = Tail(@)]
    /\ m_bInsertIDR' = FALSE /\ UNCHANGED <<fresh, job, lockVars>>

\* MFX_WRN_DEVICE_BUSY or MFX_ERR_NOT_ENOUGH_BUFFER: the call is made again,
\* with the control of a frame that needs no IDR.
EncoderBusy ==
    /\ pc = "encode" /\ Fault("busy") /\ m_bInsertIDR' = FALSE
    /\ UNCHANGED <<opt, pc, phase, region, pCurrentTask, loopVars, inVars,
                   m_bFileWriterReset, file, surfVars, encVars, lockVars, poolVars>>

-----------------------------------------------------------------------------
\* sample_encode_main after MFX_ERR_DEVICE_LOST or _FAILED: ResetDevice and
\* ResetMFXComponents make new encoders, surfaces and task pools, and Run
\* starts again where the source file is.
RecoverDevice ==
    /\ pc = "device"
    /\ pc' = (IF opt.kind = "region" THEN "frame" ELSE "task")
    /\ phase' = "main" /\ region' = 0 /\ pCurrentTask' = 0 /\ nEncSurfIdx' = 1
    /\ processed' = 0 /\ skipLoading' = FALSE /\ syncing' = 0
    /\ content' = [s \in Surfaces |-> 0] /\ vppHeld' = <<>>
    /\ encIn' = [p \in Pools |-> <<>>] /\ fresh' = Pools
    /\ reading' = {} /\ locks' = {} /\ DependentVppTasks' = {}
    /\ ClearTasks(UsedPools)
    /\ UNCHANGED <<opt, inVars, m_bFileWriterReset, m_bInsertIDR, file, job, seen>>
=============================================================================
