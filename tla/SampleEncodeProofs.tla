------------------------- MODULE SampleEncodeProofs -------------------------
(***************************************************************************)
(* Proofs about SampleEncode, for every set of configurations, length of   *)
(* the source file, number of passes, surfaces, tasks and regions: the     *)
(* pipelines use the ring of tasks as EncTaskPool says a caller does, so   *)
(* it is a queue in the program, too; the bitstreams leave in the order    *)
(* their frames were given to the encoder, and to the file of their view;  *)
(* no frame is overwritten before it is encoded; a run that ends with no   *)
(* error has lost nothing; and where bitstreams were lost an IDR frame     *)
(* follows.                                                                *)
(***************************************************************************)
EXTENDS SampleEncode, EncTaskPoolProofs, SequenceLemmas

(* Where the program is, and what the pipelines never are: the region      *)
(* pipeline has no VPP, and a task pool for each region.                   *)
InTheLoop == pc \in {"task", "rsync", "retry", "encode"}

ControlTypes ==
    /\ opt \in Configurations /\ seen \subseteq opt.may
    /\ pc \in {"task", "frame", "vpp", "encode", "rsync", "retry", "sync", "device"} \cup Ended
    /\ phase \in {"main", "vpp_drain", "enc_drain"}
    /\ region \in Pools /\ syncing \in 0..(LastRegion + 1)
    /\ pCurrentTask \in UNION {Slots(p) : p \in Pools}
    /\ {skipLoading, m_bFileWriterReset, m_bInsertIDR} \subseteq BOOLEAN
    /\ pos \in 0..NumFrames /\ passes \in 1..MaxPasses

PipelineControl ==
    opt.kind # "region" =>
        /\ region = 0 /\ pc \notin {"rsync", "retry"}
        /\ pc = "vpp" => opt.vpp /\ phase = "main"
        /\ skipLoading => opt.vpp

RegionControl ==
    opt.kind = "region" =>
        /\ pc \notin {"vpp", "sync"} /\ phase # "vpp_drain"
        /\ InTheLoop => region \in Regions
        /\ pc = "rsync" => syncing \in Regions

(* The frames, the surfaces and the jobs.                                  *)
JobTypes ==
    /\ nEncSurfIdx \in Surfaces /\ content \in [Surfaces -> 0..NumFrames]
    /\ vppHeld \in Seq(1..NumFrames)
    /\ job \in Seq([frame : 0..NumFrames, surf : Surfaces, pool : UsedPools, idr : BOOLEAN])
    /\ processed \in 0..Len(job)
    /\ encIn \in [Pools -> Seq(1..Len(job))] /\ fresh \subseteq Pools
    /\ locks \subseteq reading /\ reading \subseteq 1..Len(job)

(* The frames read that the encoder may still be given: what VPP has, and  *)
(* the frame in the surface to encode; and the regions that have yet to be *)
(* given the frame read last.                                              *)
ToEncode ==
    Len(vppHeld) + IF (pc = "encode" /\ phase # "enc_drain") \/ (pc = "task" /\ phase = "vpp_drain")
                   THEN 1 ELSE 0

RegionsToEncode ==
    IF phase = "main" /\ InTheLoop THEN LastRegion - region + 1 ELSE 0

(* No frame read is given to an encoder twice, but for one VPP doubles.    *)
JobsCount ==
    IF opt.kind = "region" THEN Len(job) + RegionsToEncode <= LastRegion * FramesRead
    ELSE Len(job) + ToEncode <= FramesRead + IF "double" \in seen THEN 1 ELSE 0

Typed == ControlTypes /\ PipelineControl /\ RegionControl /\ JobTypes /\ JobsCount

(* The task GetFreeTask gave is still the one to use when a frame has been *)
(* read and preprocessed.                                                  *)
Holding ==
    pc = "encode" \/ (opt.kind # "region" /\ phase = "main" /\ pc \in {"frame", "vpp"})

TaskGiven ==
    Holding => ~Full(region) /\ pCurrentTask = GetFreeTaskIndex(region)

-----------------------------------------------------------------------------
(* The pools and the configurations.                                       *)
LEMMA PoolFacts ==
    /\ LastRegion \in Nat /\ Regions = 1..LastRegion /\ Pools = 0..LastRegion
    /\ Cardinality(Pools) = LastRegion + 1
    /\ NumFrames \in Nat \ {0} /\ MaxPasses \in Nat \ {0} /\ NumSurfaces \in Nat \ {0}
    /\ \A p \in Regions : PoolSize[p] = 1
    /\ \A p \in Pools : PoolSize[p] \in Nat \ {0}
<1>1. /\ IsFiniteSet(Pools) /\ Pools = 0..LastRegion
      /\ \A p \in Pools : PoolSize[p] \in Nat \ {0}
      /\ \A p \in Regions : PoolSize[p] = 1
    BY SessionAssumption, PoolAssumption DEF LastRegion, Regions
<1>2. LastRegion \in Nat
  <2>1. IsFiniteSet(Regions)
    BY <1>1, FS_Subset DEF Regions
  <2> QED  BY <2>1, FS_CardinalityType DEF LastRegion
<1>3. Regions = 1..LastRegion
    BY <1>1, <1>2 DEF Regions
<1>4. Cardinality(0..LastRegion) = LastRegion + 1
    BY <1>2, FS_Interval
<1> QED  BY <1>1, <1>2, <1>3, <1>4, SessionAssumption

LEMMA OptFacts ==
    ASSUME opt \in Configurations
    PROVE  /\ opt.kind \in {"encode", "user", "region"}
           /\ opt.vpp \in BOOLEAN /\ opt.robust \in BOOLEAN /\ opt.cut \in BOOLEAN
           /\ opt.delay \in Nat /\ opt.limit \in Nat
           /\ opt.kind # "encode" => ~opt.vpp /\ ~opt.robust
           /\ opt.kind = "region" => opt.delay = 0 /\ LastRegion >= 1 /\ UsedPools = Regions
           /\ opt.kind # "region" => UsedPools = {0}
           /\ UsedPools \subseteq Pools /\ 0 \in Pools
<1>1. opt \in Configuration
    BY SessionAssumption
<1>2. /\ opt.kind # "encode" => ~opt.vpp /\ ~opt.robust
      /\ opt.kind = "region" => opt.delay = 0 /\ Pools # {0}
    BY SessionAssumption
<1>3. Pools # {0} => LastRegion >= 1
  <2>1. LastRegion = 0 => 0..LastRegion = {0}
    OBVIOUS
  <2> QED  BY <2>1, PoolFacts
<1>4. 0 \in Pools /\ UsedPools \subseteq Pools
    BY PoolFacts DEF UsedPools, Regions
<1> QED  BY <1>1, <1>2, <1>3, <1>4 DEF Configuration, UsedPools

LEMMA JobFacts ==
    ASSUME JobTypes
    PROVE  /\ Len(job) \in Nat /\ DOMAIN job = 1..Len(job)
           /\ \A j \in 1..Len(job) : /\ job[j].frame \in 0..NumFrames /\ job[j].surf \in Surfaces
                                     /\ job[j].pool \in UsedPools /\ job[j].idr \in BOOLEAN
<1> DEFINE R == [frame : 0..NumFrames, surf : Surfaces, pool : UsedPools, idr : BOOLEAN]
<1>1. \A r \in R : /\ r.frame \in 0..NumFrames /\ r.surf \in Surfaces
                   /\ r.pool \in UsedPools /\ r.idr \in BOOLEAN
    OBVIOUS
<1>2. job \in Seq(R)
    BY DEF JobTypes
<1> HIDE DEF R
<1>3. /\ Len(job) \in Nat /\ DOMAIN job = 1..Len(job)
      /\ \A j \in 1..Len(job) : job[j] \in R
    BY <1>2, LenProperties
<1> QED  BY <1>1, <1>3

(* GetFreeSurface finds a surface that is not locked.                      *)
LEMMA FreeSurfaceFacts ==
    ASSUME FreeSurfaces # {}
    PROVE  FreeSurface \in FreeSurfaces /\ FreeSurface \in Surfaces
<1>1. FreeSurfaces \in SUBSET Nat /\ FreeSurfaces \subseteq Surfaces
    BY PoolFacts DEF FreeSurfaces, Surfaces
<1>2. \E m \in FreeSurfaces : \A i \in FreeSurfaces : m <= i
    BY <1>1, LeastElement
<1>3. FreeSurface \in FreeSurfaces
    BY <1>2 DEF FreeSurface
<1> QED  BY <1>1, <1>3

(* The frames read so far.                                                 *)
LEMMA FramesReadFacts ==
    ASSUME pos \in 0..NumFrames, passes \in 1..MaxPasses
    PROVE  FramesRead \in Nat /\ FramesRead <= NumFrames * MaxPasses
<1>1. NumFrames \in Nat /\ MaxPasses \in Nat /\ passes \in Nat /\ pos \in Nat /\ pos <= NumFrames
    BY PoolFacts
<1>2. PICK n \in Nat : n = passes - 1
    BY <1>1
<1>3. PICK d \in Nat : MaxPasses = n + 1 + d
    BY <1>1, <1>2
<1>4. n * NumFrames \in Nat /\ d * NumFrames \in Nat
    BY <1>1
<1>5. NumFrames * MaxPasses = n * NumFrames + NumFrames + d * NumFrames
    BY <1>1, <1>3
<1> QED  BY <1>1, <1>2, <1>4, <1>5 DEF FramesRead

(* There are numbers enough for the jobs.                                  *)
NumbersSuffice == 1..Len(job) \subseteq Jobs

LEMMA JobsSuffice == Typed => NumbersSuffice
<1> SUFFICES ASSUME Typed PROVE NumbersSuffice
    OBVIOUS
<1> DEFINE f == NumFrames * MaxPasses
<1>1. /\ FramesRead \in Nat /\ FramesRead <= f /\ f \in Nat
    BY FramesReadFacts, PoolFacts DEF Typed, ControlTypes
<1>2. Len(job) \in Nat /\ Len(vppHeld) \in Nat /\ LastRegion \in Nat /\ region \in 0..LastRegion
    BY PoolFacts DEF Typed, JobTypes, ControlTypes
<1> HIDE DEF f
<1>3. (f + 1) * (LastRegion + 1) = f * LastRegion + f + LastRegion + 1 /\ f * LastRegion \in Nat
    BY <1>1, <1>2
<1>4. LastRegion * FramesRead <= f * LastRegion
  <2>1. PICK d \in Nat : f = FramesRead + d
    BY <1>1
  <2>2. f * LastRegion = LastRegion * FramesRead + d * LastRegion /\ d * LastRegion \in Nat
    BY <2>1, <1>1, <1>2
  <2> QED  BY <2>2, <1>1, <1>2
<1>5. LastRegion * FramesRead \in Nat
    BY <1>1, <1>2
<1>6. Len(job) <= (f + 1) * (LastRegion + 1)
  <2>1. CASE opt.kind = "region"
    <3>1. Len(job) + RegionsToEncode <= LastRegion * FramesRead /\ RegionsToEncode \in Nat
      BY <2>1, <1>2 DEF Typed, JobsCount, RegionsToEncode
    <3> QED  BY <3>1, <1>1, <1>2, <1>3, <1>4, <1>5
  <2>2. CASE opt.kind # "region"
    <3>1. Len(job) <= FramesRead + 1
      BY <2>2, <1>1, <1>2 DEF Typed, JobsCount, ToEncode
    <3> QED  BY <3>1, <1>1, <1>2, <1>3, <1>5
  <2> QED  BY <2>1, <2>2
<1>7. 1..((f + 1) * (LastRegion + 1)) \subseteq Jobs
    BY JobsAssumption, PoolFacts DEF f
<1> QED  BY <1>2, <1>3, <1>6, <1>7, <1>1 DEF NumbersSuffice

-----------------------------------------------------------------------------
(* What the steps do to frames and jobs.                                   *)
LEMMA LoadNextFrameCounts ==
    ASSUME Typed, LoadNextFrame
    PROVE  /\ pos' \in 1..NumFrames /\ passes' \in 1..MaxPasses
           /\ FramesRead' = FramesRead + 1 /\ FramesRead \in Nat
           /\ LastRegion * FramesRead' = LastRegion * FramesRead + LastRegion
           /\ LastRegion * FramesRead \in Nat
<1>1. /\ pos \in 0..NumFrames /\ passes \in 1..MaxPasses /\ NumFrames \in Nat /\ MaxPasses \in Nat
      /\ pos < NumFrames /\ pos' = pos + 1 /\ passes' = passes /\ LastRegion \in Nat
    BY PoolFacts DEF Typed, ControlTypes, LoadNextFrame
<1>2. FramesRead \in Nat
    BY <1>1, FramesReadFacts
<1>3. PICK n \in Int : n = (passes - 1) * NumFrames
    BY <1>1
<1>4. FramesRead = n + pos /\ FramesRead' = n + pos'
    BY <1>1, <1>3 DEF FramesRead
<1>5. FramesRead' = FramesRead + 1
    BY <1>1, <1>3, <1>4
<1>6. LastRegion * (FramesRead + 1) = LastRegion * FramesRead + LastRegion
      /\ LastRegion * FramesRead \in Nat
    BY <1>1, <1>2
<1> QED  BY <1>1, <1>2, <1>5, <1>6

LEMMA RewindCounts ==
    ASSUME Typed, Rewind
    PROVE  /\ pos' \in 0..NumFrames /\ passes' \in 1..MaxPasses /\ passes' > passes
           /\ FramesRead' = FramesRead
           /\ {m_bFileWriterReset', m_bInsertIDR'} \subseteq BOOLEAN
<1>1. /\ passes \in 1..MaxPasses /\ NumFrames \in Nat /\ MaxPasses \in Nat
      /\ pos = NumFrames /\ pos' = 0 /\ passes < MaxPasses /\ passes' = passes + 1
    BY PoolFacts DEF Typed, ControlTypes, Rewind
<1>2. FramesRead' = FramesRead
  <2>1. (passes + 1 - 1) * NumFrames + 0 = (passes - 1) * NumFrames + NumFrames
    BY <1>1
  <2> QED  BY <1>1, <2>1 DEF FramesRead
<1>3. {m_bFileWriterReset', m_bInsertIDR'} \subseteq BOOLEAN
    BY OptFacts DEF Typed, ControlTypes, Rewind
<1> QED  BY <1>1, <1>2, <1>3

LEMMA EncodeFrameTypes ==
    ASSUME Typed, opt' = opt, NEW p \in UsedPools, NEW s \in Surfaces, EncodeFrame(p, s)
    PROVE  /\ job' \in Seq([frame : 0..NumFrames, surf : Surfaces, pool : UsedPools, idr : BOOLEAN])
           /\ Len(job) \in Nat /\ Len(job') = Len(job) + 1
           /\ \A j \in 1..Len(job) : job'[j] = job[j]
           /\ job'[Len(job')] = [frame |-> content[s], surf |-> s, pool |-> p,
                                 idr |-> m_bInsertIDR \/ p \in fresh]
           /\ encIn' \in [Pools -> Seq(1..Len(job'))] /\ fresh' \subseteq Pools
           /\ reading' = reading \cup {Len(job')} /\ locks' = locks \cup {Len(job')}
           /\ locks' \subseteq reading' /\ reading' \subseteq 1..Len(job')
           /\ m_bInsertIDR' = FALSE
<1> DEFINE R == [frame : 0..NumFrames, surf : Surfaces, pool : UsedPools, idr : BOOLEAN]
           r == [frame |-> content[s], surf |-> s, pool |-> p, idr |-> m_bInsertIDR \/ p \in fresh]
           j == Len(job) + 1
           q == Append(encIn[p], j)
<1>1. /\ job \in Seq(R) /\ content \in [Surfaces -> 0..NumFrames] /\ fresh \subseteq Pools
      /\ encIn \in [Pools -> Seq(1..Len(job))] /\ locks \subseteq reading /\ reading \subseteq 1..Len(job)
    BY DEF Typed, JobTypes
<1>2. r \in R
  <2>1. (m_bInsertIDR \/ p \in fresh) \in BOOLEAN
    OBVIOUS
  <2> QED  BY <1>1, <2>1
<1>3. job' = Append(job, r) /\ fresh' = fresh \ {p} /\ m_bInsertIDR' = FALSE
      /\ reading' = reading \cup {j} /\ locks' = locks \cup {j}
    BY DEF EncodeFrame
<1>4. encIn' = [encIn EXCEPT ![p] = Tail(q)] \/ encIn' = [encIn EXCEPT ![p] = q]
    BY DEF EncodeFrame
<1> HIDE DEF r, R
<1>5. /\ job' \in Seq(R) /\ Len(job) \in Nat /\ Len(job') = j /\ job'[j] = r
      /\ \A k \in 1..Len(job) : job'[k] = job[k]
    BY <1>1, <1>2, <1>3, AppendElements
<1>6. p \in Pools /\ 1..Len(job) \subseteq 1..j /\ j \in 1..j
    BY <1>5, OptFacts DEF Typed, ControlTypes
<1>7. \A k \in Pools : encIn[k] \in Seq(1..j)
    BY <1>1, <1>6, SeqMonotonic
<1> HIDE DEF j
<1>8. q \in Seq(1..j) /\ q # <<>>
    BY <1>6, <1>7, AppendProperties
<1>9. Tail(q) \in Seq(1..j)
    BY <1>8, TailElements
<1> HIDE DEF q
<1>10. encIn' \in [Pools -> Seq(1..j)]
  <2>1. encIn \in [Pools -> Seq(1..j)]
    BY <1>1, <1>7
  <2>2. CASE encIn' = [encIn EXCEPT ![p] = q]
    BY <2>1, <2>2, <1>8
  <2>3. CASE encIn' = [encIn EXCEPT ![p] = Tail(q)]
    BY <2>1, <2>3, <1>9
  <2> QED  BY <1>4, <2>2, <2>3
<1>11. reading' \subseteq 1..j /\ locks' \subseteq reading' /\ fresh' \subseteq Pools
    BY <1>1, <1>3, <1>6
<1> QED  BY <1>3, <1>5, <1>10, <1>11 DEF R, r

LEMMA DrainEncoderTypes ==
    ASSUME Typed, NEW p \in Pools, DrainEncoder(p)
    PROVE  /\ encIn' \in [Pools -> Seq(1..Len(job))]
           /\ UNCHANGED <<job, fresh, reading, locks>> /\ m_bInsertIDR' = FALSE
           /\ Head(encIn[p]) \in 1..Len(job)
<1>1. encIn \in [Pools -> Seq(1..Len(job))] /\ encIn[p] # <<>>
    BY DEF Typed, JobTypes, DrainEncoder
<1>2. Tail(encIn[p]) \in Seq(1..Len(job)) /\ Head(encIn[p]) \in 1..Len(job)
    BY <1>1, TailElements
<1>3. encIn' = [encIn EXCEPT ![p] = Tail(encIn[p])]
    BY DEF DrainEncoder
<1>4. encIn' \in [Pools -> Seq(1..Len(job))]
    BY <1>1, <1>2, <1>3
<1> QED  BY <1>2, <1>4 DEF DrainEncoder, lockVars

(* The task GetFreeTask gives is one of the pool.                          *)
LEMMA FreeTaskIsFree ==
    ASSUME IInv, NEW p \in Pools, ~Full(p)
    PROVE  GetFreeTaskIndex(p) \in Slots(p)
<1>1. PICK n \in 0..PoolSize[p] : RunOfTasks(p, n)
    BY DEF IInv, RingIsContiguous
<1>2. PoolTypeOK /\ PoolSize[p] \in Nat \ {0}
    BY PoolFacts DEF IInv
<1>3. n < PoolSize[p] /\ GetFreeTaskIndex(p) = At(p, n)
    BY <1>1, <1>2, FreeIndex
<1> QED  BY <1>2, <1>3, AtFacts

(* What SynchronizeFirstTask may do to frames and jobs.                    *)
LEMMA SyncSucceedsTypes ==
    ASSUME Typed, NEW p, NEW f, SyncSucceeds(p, f)
    PROVE  locks' \subseteq reading' /\ reading' \subseteq reading
  BY DEF Typed, JobTypes, SyncSucceeds

LEMMA SyncFailsTypes ==
    ASSUME Typed, opt' = opt, NEW late, SyncFails(late)
    PROVE  /\ seen \subseteq seen' /\ seen' \subseteq opt.may
           /\ pc' \in {pc, "failed", "undefined", "device", late}
           /\ {m_bInsertIDR'} \subseteq BOOLEAN
           /\ locks' \subseteq reading' /\ reading' \subseteq reading
<1>1. /\ seen \subseteq opt.may /\ m_bInsertIDR \in BOOLEAN
      /\ locks \subseteq reading
    BY DEF Typed, JobTypes, ControlTypes
<1>2. CASE TaskHung /\ opt.robust /\ GpuHangRecovery
    BY <1>1, <1>2 DEF TaskHung, GpuHangRecovery, Fault
<1>3. CASE ~ (TaskHung /\ opt.robust /\ GpuHangRecovery)
  <2>1. UNCHANGED <<m_bInsertIDR, reading, locks>>
    BY <1>3 DEF SyncFails, lockVars
  <2>2. \E f : Fault(f)
    BY <1>3 DEF SyncFails, TaskHung
  <2>3. pc' \in {pc, "failed", "undefined", "device", late}
    BY <1>3 DEF SyncFails
  <2> QED  BY <1>1, <2>1, <2>2, <2>3 DEF Fault
<1> QED  BY <1>2, <1>3

(* The pipelines of one pool.                                              *)
LEMMA PipelineTyped ==
    ASSUME IInv, Typed, EncodeStep
    PROVE  Typed'
<1> DEFINE C == ControlTypes' /\ PipelineControl'
           J == JobTypes'
           N == JobsCount'
<1> USE DEF loopVars, inVars, surfVars, encVars, lockVars
<1>0. opt.kind # "region" /\ opt' = opt
    BY DEF EncodeStep, GetFreeTask, StopAtLimit, ReadFrame, EndOfFile, RunVpp, DrainVpp,
           Encode, EncodeDrained, SynchronizeAll
<1>1. /\ ControlTypes /\ PipelineControl /\ JobTypes /\ JobsCount /\ region = 0
      /\ FramesRead \in Nat /\ Len(job) \in Nat /\ Len(vppHeld) \in Nat
      /\ 0 \in Pools /\ UsedPools = {0} /\ opt \in Configurations /\ opt.vpp \in BOOLEAN
      /\ LastRegion \in Nat
  <2>1. ControlTypes /\ PipelineControl /\ JobTypes /\ JobsCount
    BY DEF Typed
  <2>2. region = 0 /\ opt \in Configurations /\ pos \in 0..NumFrames /\ passes \in 1..MaxPasses
    BY <1>0, <2>1 DEF ControlTypes, PipelineControl
  <2>3. FramesRead \in Nat
    BY <2>2, FramesReadFacts
  <2>4. Len(job) \in Nat /\ Len(vppHeld) \in Nat
    BY <2>1 DEF JobTypes
  <2>5. 0 \in Pools /\ UsedPools = {0} /\ opt.vpp \in BOOLEAN /\ LastRegion \in Nat
    BY <1>0, <2>2, OptFacts, PoolFacts
  <2> QED  BY <2>1, <2>2, <2>3, <2>4, <2>5
<1>2. ASSUME GetFreeTask PROVE C /\ J /\ N
  <2>1. CASE ~Full(0)
    <3>1. /\ pCurrentTask' = GetFreeTaskIndex(0) /\ pCurrentTask' \in Slots(0)
          /\ pc' = (IF phase = "main" THEN "frame" ELSE "encode") /\ pc = "task"
          /\ m_bFileWriterReset' = FALSE
          /\ UNCHANGED <<opt, phase, region, loopVars, inVars, surfVars, encVars, m_bInsertIDR,
                         lockVars, seen>>
      BY <1>2, <2>1, <1>1, FreeTaskIsFree DEF GetFreeTask
    <3>2. C
      BY <3>1, <1>1 DEF ControlTypes, PipelineControl
    <3>3. J
      BY <3>1, <1>1 DEF JobTypes, UsedPools
    <3>4. N
      BY <3>1, <1>0, <1>1 DEF JobsCount, ToEncode, FramesRead, ControlTypes
    <3> QED  BY <3>2, <3>3, <3>4
  <2>2. CASE Full(0)
    <3>1. /\ pc' \in {pc, "failed", "undefined", "device"} /\ pc = "task"
          /\ m_bFileWriterReset' = FALSE /\ {m_bInsertIDR'} \subseteq BOOLEAN
          /\ seen \subseteq seen' /\ seen' \subseteq opt.may
          /\ locks' \subseteq reading' /\ reading' \subseteq reading
          /\ UNCHANGED <<opt, phase, region, loopVars, inVars, surfVars, encVars, pCurrentTask>>
      <4>1. CASE SyncSucceeds(0, WritersReset) /\ UNCHANGED <<pc, m_bInsertIDR, seen>>
        BY <1>2, <2>2, <4>1, <1>1, SyncSucceedsTypes DEF GetFreeTask, ControlTypes
      <4>2. CASE SyncFails("failed")
        BY <1>2, <2>2, <4>2, <1>0, <1>1, SyncFailsTypes DEF GetFreeTask
      <4> QED  BY <1>2, <2>2, <4>1, <4>2 DEF GetFreeTask
    <3>2. C
      BY <3>1, <1>1 DEF ControlTypes, PipelineControl, Ended
    <3>3. J
      BY <3>1, <1>1 DEF JobTypes, UsedPools
    <3>4. N
      BY <3>1, <1>0, <1>1 DEF JobsCount, ToEncode, FramesRead
    <3> QED  BY <3>2, <3>3, <3>4
  <2> QED  BY <2>1, <2>2
<1>3. ASSUME StopAtLimit PROVE C /\ J /\ N
  <2>1. C
    BY <1>3, <1>1 DEF StopAtLimit, Drain, ControlTypes, PipelineControl
  <2>2. J
    BY <1>3, <1>1 DEF StopAtLimit, JobTypes, UsedPools
  <2>3. N
    BY <1>3, <1>0, <1>1 DEF StopAtLimit, LimitReached, Drain, JobsCount, ToEncode, FramesRead
  <2> QED  BY <2>1, <2>2, <2>3
<1>4. ASSUME ReadFrame PROVE C /\ J /\ N
  <2>0. /\ pc = "frame" /\ phase = "main" /\ nEncSurfIdx' \in Surfaces /\ FreeSurface \in Surfaces
        /\ pc' = (IF opt.vpp THEN "vpp" ELSE "encode")
        /\ UNCHANGED <<opt, phase, region, pCurrentTask, loopVars, m_bFileWriterReset,
                       m_bInsertIDR, encVars, lockVars, seen>>
    BY <1>4, FreeSurfaceFacts DEF ReadFrame
  <2>1. CASE skipLoading
    <3>1. UNCHANGED <<inVars, content, vppHeld>> /\ opt.vpp
      BY <1>0, <1>1, <1>4, <2>1 DEF ReadFrame, PipelineControl
    <3>2. C
      BY <2>0, <3>1, <1>1 DEF ControlTypes, PipelineControl
    <3>3. J
      BY <2>0, <3>1, <1>1 DEF JobTypes, UsedPools
    <3>4. N
      BY <2>0, <3>1, <1>0, <1>1 DEF JobsCount, ToEncode, FramesRead
    <3> QED  BY <3>2, <3>3, <3>4
  <2>2. CASE ~skipLoading
    <3>1. /\ LoadNextFrame
          /\ content' = content \/ content' = [content EXCEPT ![FreeSurface] = pos']
          /\ vppHeld' = (IF opt.vpp THEN Append(vppHeld, pos') ELSE vppHeld)
      BY <1>4, <2>2 DEF ReadFrame
    <3>2. /\ pos' \in 1..NumFrames /\ passes' \in 1..MaxPasses /\ FramesRead' = FramesRead + 1
      BY <3>1, LoadNextFrameCounts
    <3>3. C
      <4>1. NumFrames \in Nat
        BY PoolFacts
      <4> QED  BY <2>0, <3>2, <4>1, <1>1, <2>2 DEF ControlTypes, PipelineControl
    <3>4. /\ vppHeld' \in Seq(1..NumFrames) /\ Len(vppHeld') = Len(vppHeld) + (IF opt.vpp THEN 1 ELSE 0)
      <4>1. CASE opt.vpp
        <5>1. vppHeld' = Append(vppHeld, pos') /\ vppHeld \in Seq(1..NumFrames)
          BY <3>1, <4>1, <1>1 DEF JobTypes
        <5>2. vppHeld' \in Seq(1..NumFrames) /\ Len(vppHeld') = Len(vppHeld) + 1
          BY <5>1, <3>2, AppendElements
        <5> QED  BY <4>1, <5>2
      <4>2. CASE ~opt.vpp
        <5>1. vppHeld' = vppHeld /\ vppHeld \in Seq(1..NumFrames)
          BY <3>1, <4>2, <1>1 DEF JobTypes
        <5> QED  BY <4>2, <5>1, <1>1
      <4> QED  BY <4>1, <4>2
    <3>5. content' \in [Surfaces -> 0..NumFrames]
      <4>1. pos' \in 0..NumFrames /\ content \in [Surfaces -> 0..NumFrames]
        BY <3>2, <1>1 DEF JobTypes
      <4> QED  BY <3>1, <4>1, <2>0
    <3>6. J
      BY <2>0, <3>4, <3>5, <1>1 DEF JobTypes, UsedPools
    <3>7. N
      <4>1. pc' = "encode" => ~opt.vpp
        BY <2>0, <1>1
      <4>2. ToEncode' = Len(vppHeld') + (IF pc' = "encode" THEN 1 ELSE 0) /\ ToEncode = Len(vppHeld)
        BY <2>0, <1>1, <3>4 DEF ToEncode
      <4>3. ToEncode' <= ToEncode + 1 /\ ToEncode' \in Nat /\ ToEncode \in Nat
        <5>1. CASE opt.vpp
          BY <4>1, <4>2, <3>4, <5>1, <1>1
        <5>2. CASE ~opt.vpp
          BY <4>1, <4>2, <3>4, <5>2, <1>1
        <5> QED  BY <5>1, <5>2, <1>1
      <4>4. Len(job) + ToEncode <= FramesRead + IF "double" \in seen THEN 1 ELSE 0
        BY <1>0, <1>1 DEF JobsCount
      <4>5. Len(job) + ToEncode' <= FramesRead' + IF "double" \in seen THEN 1 ELSE 0
        BY <4>3, <4>4, <3>2, <1>1
      <4> QED  BY <4>5, <2>0, <1>0 DEF JobsCount
    <3> QED  BY <3>3, <3>6, <3>7
  <2> QED  BY <2>1, <2>2
<1>5. ASSUME EndOfFile PROVE C /\ J /\ N
  <2>0. /\ pc = "frame" /\ phase = "main" /\ nEncSurfIdx' \in Surfaces
        /\ UNCHANGED <<opt, region, pCurrentTask, loopVars, content, vppHeld, encVars, lockVars, seen>>
    BY <1>5, FreeSurfaceFacts DEF EndOfFile
  <2>1. J
    BY <2>0, <1>1 DEF JobTypes, UsedPools
  <2>2. CASE Rewind /\ pc' = "task" /\ UNCHANGED phase
    <3>1. C
      BY <2>0, <2>2, <1>1, RewindCounts DEF ControlTypes, PipelineControl
    <3>2. N
      BY <2>0, <2>2, <1>0, <1>1, RewindCounts DEF JobsCount, ToEncode
    <3> QED  BY <2>1, <3>1, <3>2
  <2>3. CASE Drain /\ UNCHANGED <<inVars, m_bFileWriterReset, m_bInsertIDR>>
    <3>1. C
      BY <2>0, <2>3, <1>1 DEF Drain, ControlTypes, PipelineControl
    <3>2. N
      BY <2>0, <2>3, <1>0, <1>1 DEF Drain, JobsCount, ToEncode, FramesRead
    <3> QED  BY <2>1, <3>1, <3>2
  <2> QED  BY <1>5, <2>2, <2>3 DEF EndOfFile
<1>6. ASSUME RunVpp PROVE C /\ J /\ N
  <2>0. /\ pc = "vpp" /\ opt.vpp /\ phase = "main"
        /\ VppKeeps \/ VppOutputs \/ (VppFails /\ skipLoading' = FALSE)
        /\ UNCHANGED <<opt, phase, region, pCurrentTask, processed, syncing, inVars, nEncSurfIdx,
                       m_bFileWriterReset, m_bInsertIDR, encVars, lockVars>>
    BY <1>6, <1>0, <1>1 DEF RunVpp, PipelineControl
  <2>1. CASE VppKeeps
    <3>1. C
      BY <2>0, <2>1, <1>1 DEF VppKeeps, ControlTypes, PipelineControl
    <3>2. J
      BY <2>0, <2>1, <1>1 DEF VppKeeps, JobTypes, UsedPools
    <3>3. N
      <4>1. ToEncode' = ToEncode /\ FramesRead' = FramesRead
        BY <2>0, <2>1, <1>1 DEF VppKeeps, ToEncode, FramesRead
      <4>2. seen' = seen /\ job' = job
        BY <2>0, <2>1 DEF VppKeeps
      <4> QED  BY <4>1, <4>2, <2>0, <1>0, <1>1 DEF JobsCount
    <3> QED  BY <3>1, <3>2, <3>3
  <2>2. CASE VppOutputs
    <3>1. /\ vppHeld # <<>> /\ vppHeld \in Seq(1..NumFrames) /\ Head(vppHeld) \in 0..NumFrames
          /\ Tail(vppHeld) \in Seq(1..NumFrames) /\ Len(Tail(vppHeld)) = Len(vppHeld) - 1
          /\ content' = [content EXCEPT ![nEncSurfIdx] = Head(vppHeld)] /\ pc' = "encode"
      <4>1. Head(vppHeld) \in 1..NumFrames
        BY <2>2, <1>1, TailElements DEF VppOutputs, JobTypes
      <4> QED  BY <2>2, <4>1, <1>1, TailElements, PoolFacts DEF VppOutputs, JobTypes
    <3>2. \/ vppHeld' = Tail(vppHeld) /\ skipLoading' = FALSE /\ UNCHANGED seen
          \/ Fault("double") /\ skipLoading' = TRUE /\ UNCHANGED vppHeld
      BY <2>2 DEF VppOutputs
    <3>3. C
      <4>1. seen' \subseteq opt.may /\ skipLoading' \in BOOLEAN
        BY <3>2, <1>1 DEF Fault, ControlTypes
      <4> QED  BY <2>0, <3>1, <4>1, <1>1 DEF ControlTypes, PipelineControl
    <3>4. content' \in [Surfaces -> 0..NumFrames] /\ vppHeld' \in Seq(1..NumFrames)
      BY <3>1, <3>2, <1>1 DEF JobTypes
    <3>5. J
      BY <2>0, <3>4, <1>1 DEF JobTypes, UsedPools
    <3>6. N
      <4>1. ToEncode' = Len(vppHeld') + 1 /\ ToEncode = Len(vppHeld) /\ FramesRead' = FramesRead
        BY <2>0, <3>1, <1>1 DEF ToEncode, FramesRead
      <4>2. Len(job) + Len(vppHeld) <= FramesRead + IF "double" \in seen THEN 1 ELSE 0
        BY <4>1, <1>0, <1>1 DEF JobsCount
      <4>3. CASE vppHeld' = Tail(vppHeld) /\ UNCHANGED seen
        BY <4>1, <4>2, <4>3, <2>0, <3>1, <1>0, <1>1 DEF JobsCount
      <4>4. CASE Fault("double") /\ UNCHANGED vppHeld
        <5>1. "double" \notin seen /\ "double" \in seen'
          BY <4>4 DEF Fault
        <5> QED  BY <4>1, <4>2, <4>4, <5>1, <2>0, <1>0, <1>1 DEF JobsCount
      <4> QED  BY <3>2, <4>3, <4>4
    <3> QED  BY <3>3, <3>5, <3>6
  <2>3. CASE VppFails /\ skipLoading' = FALSE
    <3>1. /\ pc' \in {"failed", "device"} /\ UNCHANGED <<content, vppHeld>>
          /\ seen \subseteq seen' /\ seen' \subseteq opt.may
      BY <2>3, <1>1 DEF VppFails, Fault, ControlTypes
    <3>2. C
      BY <2>0, <2>3, <3>1, <1>1 DEF ControlTypes, PipelineControl, Ended
    <3>3. J
      BY <2>0, <3>1, <1>1 DEF JobTypes, UsedPools
    <3>4. N
      BY <2>0, <3>1, <1>0, <1>1 DEF JobsCount, ToEncode, FramesRead
    <3> QED  BY <3>2, <3>3, <3>4
  <2> QED  BY <2>0, <2>1, <2>2, <2>3
<1>7. ASSUME DrainVpp PROVE C /\ J /\ N
  <2>0. /\ pc = "frame" /\ phase = "vpp_drain" /\ nEncSurfIdx' \in Surfaces /\ FreeSurface \in Surfaces
        /\ UNCHANGED <<opt, region, pCurrentTask, loopVars, inVars, m_bFileWriterReset,
                       m_bInsertIDR, encVars, lockVars>>
    BY <1>7, FreeSurfaceFacts DEF DrainVpp
  <2>1. CASE phase' = "enc_drain" /\ pc' = "task" /\ UNCHANGED <<content, vppHeld, seen>>
    <3>1. phase' = "enc_drain" /\ pc' = "task" /\ UNCHANGED <<content, vppHeld, seen>>
      BY <2>1
    <3>2. C
      BY <2>0, <3>1, <1>1 DEF ControlTypes, PipelineControl
    <3>3. J
      BY <2>0, <3>1, <1>1 DEF JobTypes, UsedPools
    <3>4. N
      BY <2>0, <3>1, <1>0, <1>1 DEF JobsCount, ToEncode, FramesRead
    <3> QED  BY <3>2, <3>3, <3>4
  <2>2. CASE /\ vppHeld # <<>> /\ UNCHANGED phase
             /\ content' = [content EXCEPT ![FreeSurface] = Head(vppHeld)]
             /\ vppHeld' = Tail(vppHeld)
             /\ \/ pc' = "task" /\ UNCHANGED seen
                \/ Fault("more_surface") /\ UNCHANGED pc
    <3>1. /\ vppHeld \in Seq(1..NumFrames) /\ Head(vppHeld) \in 1..NumFrames
          /\ Tail(vppHeld) \in Seq(1..NumFrames) /\ Len(Tail(vppHeld)) = Len(vppHeld) - 1
      BY <2>2, <1>1, TailElements DEF JobTypes
    <3>2. /\ content' = [content EXCEPT ![FreeSurface] = Head(vppHeld)]
          /\ vppHeld' = Tail(vppHeld) /\ UNCHANGED phase
          /\ \/ pc' = "task" /\ UNCHANGED seen
             \/ Fault("more_surface") /\ UNCHANGED pc
      BY <2>2
    <3>3. C
      BY <2>0, <3>2, <1>1 DEF Fault, ControlTypes, PipelineControl
    <3>4. content' \in [Surfaces -> 0..NumFrames] /\ vppHeld' \in Seq(1..NumFrames)
      <4>1. Head(vppHeld) \in 0..NumFrames
        BY <3>1
      <4> QED  BY <3>1, <3>2, <4>1, <1>1 DEF JobTypes
    <3>5. J
      BY <2>0, <3>4, <1>1 DEF JobTypes, UsedPools
    <3>6. N
      <4>1. ToEncode' <= ToEncode /\ FramesRead' = FramesRead /\ ToEncode' \in Nat /\ ToEncode \in Nat
        BY <2>0, <3>1, <3>2, <1>1 DEF ToEncode, FramesRead
      <4>2. seen \subseteq seen'
        BY <3>2 DEF Fault
      <4> QED  BY <4>1, <4>2, <2>0, <1>0, <1>1 DEF JobsCount
    <3> QED  BY <3>3, <3>5, <3>6
  <2>3. CASE VppFails /\ UNCHANGED phase
    <3>1. /\ pc' \in {"failed", "device"} /\ UNCHANGED <<content, vppHeld, phase>>
          /\ seen \subseteq seen' /\ seen' \subseteq opt.may
      BY <2>3, <1>1 DEF VppFails, Fault, ControlTypes
    <3>2. C
      BY <2>0, <3>1, <1>1 DEF ControlTypes, PipelineControl, Ended
    <3>3. J
      BY <2>0, <3>1, <1>1 DEF JobTypes, UsedPools
    <3>4. N
      BY <2>0, <3>1, <1>0, <1>1 DEF JobsCount, ToEncode, FramesRead
    <3> QED  BY <3>2, <3>3, <3>4
  <2> QED  BY <1>7, <2>1, <2>2, <2>3 DEF DrainVpp
<1>8. ASSUME Encode PROVE C /\ J /\ N
  <2>0. /\ pc = "encode" /\ phase # "enc_drain" /\ nEncSurfIdx \in Surfaces
        /\ processed \in 0..Len(job)
        /\ UNCHANGED <<opt, phase, region, pCurrentTask, skipLoading, syncing, inVars,
                       m_bFileWriterReset, surfVars>>
    BY <1>8, <1>1 DEF Encode, JobTypes
  <2>1. CASE EncodeFrame(0, nEncSurfIdx) /\ UNCHANGED seen
    <3>1. /\ job' \in Seq([frame : 0..NumFrames, surf : Surfaces, pool : UsedPools, idr : BOOLEAN])
          /\ Len(job') = Len(job) + 1
          /\ encIn' \in [Pools -> Seq(1..Len(job'))] /\ fresh' \subseteq Pools
          /\ locks' \subseteq reading' /\ reading' \subseteq 1..Len(job')
          /\ m_bInsertIDR' = FALSE
      BY <2>0, <2>1, <1>1, EncodeFrameTypes
    <3>2. /\ pc' \in {"task", "frame"} /\ (phase = "main" => pc' = "task") /\ (phase # "main" => pc' = "frame")
          /\ processed' = (IF phase = "main" THEN processed + 1 ELSE processed)
      <4>1. Len(job') # Len(job)
        BY <3>1, <1>1
      <4>2. /\ pc' = (IF phase = "main" THEN "task" ELSE "frame")
            /\ processed' = (IF phase = "main" THEN processed + 1 ELSE processed)
        BY <1>8, <4>1 DEF Encode
      <4> QED  BY <4>2
    <3>3. C
      BY <2>0, <2>1, <3>1, <3>2, <1>1 DEF ControlTypes, PipelineControl
    <3>4. processed' \in 0..Len(job')
      BY <2>0, <3>1, <3>2, <1>1
    <3>5. J
      BY <2>0, <3>1, <3>4, <1>1 DEF JobTypes, UsedPools
    <3>6. N
      <4>1. ToEncode = Len(vppHeld) + 1 /\ ToEncode' = Len(vppHeld) /\ FramesRead' = FramesRead
        BY <2>0, <3>2, <1>1 DEF ToEncode, FramesRead, ControlTypes
      <4> QED  BY <4>1, <2>0, <2>1, <3>1, <1>0, <1>1 DEF JobsCount
    <3> QED  BY <3>3, <3>5, <3>6
  <2>2. CASE /\ \/ Fault("encode_failed") /\ pc' = "failed"
                \/ Fault("device") /\ pc' = "device"
             /\ m_bInsertIDR' = FALSE /\ UNCHANGED <<processed, encVars, lockVars>>
    <3>1. C
      BY <2>0, <2>2, <1>1 DEF Fault, ControlTypes, PipelineControl, Ended
    <3>2. J
      BY <2>0, <2>2, <1>1 DEF JobTypes, UsedPools
    <3>3. N
      BY <2>0, <2>2, <1>0, <1>1 DEF Fault, JobsCount, ToEncode, FramesRead
    <3> QED  BY <3>1, <3>2, <3>3
  <2> QED  BY <1>8, <2>1, <2>2 DEF Encode
<1>9. ASSUME EncodeDrained PROVE C /\ J /\ N
  <2>0. /\ pc = "encode" /\ phase = "enc_drain" /\ m_bInsertIDR' = FALSE
        /\ pc' \in {"task", "sync", "failed", "device"}
        /\ UNCHANGED <<opt, phase, region, pCurrentTask, loopVars, inVars,
                       m_bFileWriterReset, surfVars>>
        /\ seen \subseteq seen' /\ seen' \subseteq opt.may
    BY <1>9, <1>1 DEF EncodeDrained, Fault, DrainEncoder, ControlTypes
  <2>1. /\ encIn' \in [Pools -> Seq(1..Len(job))] /\ UNCHANGED <<job, fresh, reading, locks>>
    <3>1. CASE DrainEncoder(0)
      BY <3>1, <1>1, DrainEncoderTypes
    <3>2. CASE UNCHANGED <<encVars, lockVars>>
      BY <3>2, <1>1 DEF JobTypes, lockVars
    <3> QED  BY <1>9, <3>1, <3>2 DEF EncodeDrained
  <2>2. C
    BY <2>0, <1>1 DEF ControlTypes, PipelineControl, Ended
  <2>3. J
    BY <2>0, <2>1, <1>1 DEF JobTypes, UsedPools
  <2>4. N
    BY <2>0, <2>1, <1>0, <1>1 DEF JobsCount, ToEncode, FramesRead
  <2> QED  BY <2>2, <2>3, <2>4
<1>10. ASSUME SynchronizeAll PROVE C /\ J /\ N
  <2>1. /\ pc' \in {pc, "failed", "undefined", "device", "done"} /\ pc = "sync"
        /\ {m_bInsertIDR'} \subseteq BOOLEAN
        /\ seen \subseteq seen' /\ seen' \subseteq opt.may
        /\ locks' \subseteq reading' /\ reading' \subseteq reading
        /\ UNCHANGED <<opt, phase, region, pCurrentTask, loopVars, inVars, m_bFileWriterReset,
                       surfVars, encVars>>
    <3>1. CASE SyncSucceeds(0, file) /\ UNCHANGED <<pc, m_bInsertIDR, seen>>
      BY <1>10, <3>1, <1>1, SyncSucceedsTypes DEF SynchronizeAll, ControlTypes
    <3>2. CASE SyncFails("done")
      BY <1>10, <3>2, <1>0, <1>1, SyncFailsTypes DEF SynchronizeAll
    <3>3. CASE pc' = "done" /\ UNCHANGED <<m_bInsertIDR, file, lockVars, seen>>
      BY <1>10, <3>3, <1>1 DEF SynchronizeAll, ControlTypes, JobTypes
    <3> QED  BY <1>10, <3>1, <3>2, <3>3 DEF SynchronizeAll
  <2>2. C
    BY <2>1, <1>1 DEF ControlTypes, PipelineControl, Ended
  <2>3. J
    BY <2>1, <1>1 DEF JobTypes, UsedPools
  <2>4. N
    BY <2>1, <1>0, <1>1 DEF JobsCount, ToEncode, FramesRead
  <2> QED  BY <2>2, <2>3, <2>4
<1>11. C /\ J /\ N
    BY <1>2, <1>3, <1>4, <1>5, <1>6, <1>7, <1>8, <1>9, <1>10 DEF EncodeStep
<1> QED  BY <1>0, <1>11 DEF Typed, RegionControl

(* The region pipeline.                                                    *)
LEMMA NextRegionFacts ==
    ASSUME NEW end, region \in Regions, NextRegion(end)
    PROVE  /\ region' \in Regions
           /\ \/ region = LastRegion /\ region' = 1 /\ pc' = end
              \/ region < LastRegion /\ region' = region + 1 /\ pc' = "task"
  BY PoolFacts DEF NextRegion, FirstRegion

LEMMA RegionTyped ==
    ASSUME IInv, Typed, RegionStep
    PROVE  Typed'
<1> DEFINE C == ControlTypes' /\ RegionControl'
           J == JobTypes'
           N == JobsCount'
<1> USE DEF loopVars, inVars, surfVars, encVars, lockVars
<1>0. opt.kind = "region" /\ opt' = opt
    BY DEF RegionStep, RegionReadFrame, RegionEndOfFile, RegionGetFreeTask, RegionSynchronize,
           RegionEncode, RegionDrain
<1>1. /\ ControlTypes /\ RegionControl /\ JobTypes /\ JobsCount
      /\ FramesRead \in Nat /\ Len(job) \in Nat /\ LastRegion \in Nat /\ LastRegion >= 1
      /\ Regions = 1..LastRegion /\ Pools = 0..LastRegion /\ UsedPools = Regions
      /\ opt \in Configurations /\ LastRegion * FramesRead \in Nat /\ region \in 0..LastRegion
  <2>1. ControlTypes /\ RegionControl /\ JobTypes /\ JobsCount
    BY DEF Typed
  <2>2. /\ opt \in Configurations /\ pos \in 0..NumFrames /\ passes \in 1..MaxPasses
        /\ region \in Pools
    BY <2>1 DEF ControlTypes
  <2>3. FramesRead \in Nat
    BY <2>2, FramesReadFacts
  <2>4. Len(job) \in Nat
    BY <2>1 DEF JobTypes
  <2>5. /\ LastRegion \in Nat /\ LastRegion >= 1 /\ UsedPools = Regions
        /\ Regions = 1..LastRegion /\ Pools = 0..LastRegion
    BY <1>0, <2>2, OptFacts, PoolFacts
  <2>6. LastRegion * FramesRead \in Nat
    BY <2>3, <2>5
  <2> QED  BY <2>1, <2>2, <2>3, <2>4, <2>5, <2>6
<1>2. ASSUME RegionReadFrame PROVE C /\ J /\ N
  <2>1. /\ pc = "frame" /\ nEncSurfIdx' \in Surfaces /\ FreeSurface \in Surfaces
        /\ LoadNextFrame /\ content' = [content EXCEPT ![FreeSurface] = pos']
        /\ m_bFileWriterReset' = FALSE /\ region' = 1 /\ pc' = "task"
        /\ UNCHANGED <<opt, phase, pCurrentTask, loopVars, m_bInsertIDR, vppHeld, encVars,
                       lockVars, seen>>
    BY <1>2, FreeSurfaceFacts DEF RegionReadFrame, FirstRegion
  <2>2. /\ pos' \in 0..NumFrames /\ passes' \in 1..MaxPasses
        /\ LastRegion * FramesRead' = LastRegion * FramesRead + LastRegion
    BY <2>1, LoadNextFrameCounts, PoolFacts
  <2>3. C
    <3>1. region' \in Regions /\ region' \in Pools
      BY <2>1, <1>1
    <3>2. ControlTypes'
      BY <2>1, <2>2, <3>1, <1>1 DEF ControlTypes
    <3>3. RegionControl'
      BY <2>1, <3>1, <1>1 DEF RegionControl, InTheLoop
    <3> QED  BY <3>2, <3>3
  <2>4. content' \in [Surfaces -> 0..NumFrames]
    BY <2>1, <2>2, <1>1 DEF JobTypes
  <2>5. J
    BY <2>1, <2>4, <1>1 DEF JobTypes, UsedPools
  <2>6. N
    <3>1. RegionsToEncode = 0
      BY <2>1 DEF RegionsToEncode, InTheLoop
    <3>2. RegionsToEncode' <= LastRegion /\ RegionsToEncode' \in Nat
      BY <2>1, <1>1 DEF RegionsToEncode, InTheLoop
    <3>3. Len(job') = Len(job)
      BY <2>1
    <3> HIDE DEF N
    <3>4. Len(job) <= LastRegion * FramesRead
      BY <3>1, <1>0, <1>1 DEF JobsCount
    <3>5. Len(job') + RegionsToEncode' <= LastRegion * FramesRead'
      BY <3>2, <3>3, <3>4, <2>2, <1>1
    <3> QED  BY <3>5, <1>0 DEF N, JobsCount
  <2> QED  BY <2>3, <2>5, <2>6
<1>3. ASSUME RegionEndOfFile PROVE C /\ J /\ N
  <2>1. /\ pc = "frame" /\ nEncSurfIdx' \in Surfaces
        /\ UNCHANGED <<opt, pCurrentTask, loopVars, content, vppHeld, encVars, lockVars, seen>>
        /\ \/ Rewind /\ UNCHANGED <<pc, phase, region>>
           \/ /\ phase' = "enc_drain" /\ region' = 1 /\ pc' = "task"
              /\ UNCHANGED <<inVars, m_bFileWriterReset, m_bInsertIDR>>
    BY <1>3, FreeSurfaceFacts DEF RegionEndOfFile, FirstRegion
  <2>2. J
    BY <2>1, <1>1 DEF JobTypes, UsedPools
  <2>3. RegionsToEncode = 0 /\ RegionsToEncode' = 0
    BY <2>1 DEF RegionsToEncode, InTheLoop
  <2>4. FramesRead' = FramesRead
    BY <2>1, RewindCounts DEF FramesRead
  <2>5. N
    BY <2>1, <2>3, <2>4, <1>0, <1>1 DEF JobsCount
  <2>6. C
    <3>1. CASE Rewind /\ UNCHANGED <<pc, phase, region>>
      BY <2>1, <3>1, <1>1, RewindCounts DEF ControlTypes, RegionControl, InTheLoop
    <3>2. CASE /\ phase' = "enc_drain" /\ region' = 1 /\ pc' = "task"
               /\ UNCHANGED <<inVars, m_bFileWriterReset, m_bInsertIDR>>
      BY <2>1, <3>2, <1>1 DEF ControlTypes, RegionControl, InTheLoop
    <3> QED  BY <2>1, <3>1, <3>2
  <2> QED  BY <2>2, <2>5, <2>6
<1>4. ASSUME RegionGetFreeTask PROVE C /\ J /\ N
  <2>1. /\ pc \in {"task", "retry"} /\ region \in Regions
        /\ UNCHANGED <<opt, phase, region, processed, skipLoading, inVars, m_bFileWriterReset,
                       m_bInsertIDR, surfVars, encVars, lockVars, seen>>
    BY <1>0, <1>1, <1>4 DEF RegionGetFreeTask, RegionControl, InTheLoop
  <2>2. /\ pc' \in {"encode", "rsync", "failed"} /\ syncing' \in 0..(LastRegion + 1)
        /\ pc' = "rsync" => syncing' \in Regions
        /\ pCurrentTask' \in UNION {Slots(p) : p \in Pools}
    <3>1. CASE ~Full(region)
      <4>1. GetFreeTaskIndex(region) \in Slots(region) /\ region \in Pools
        BY <3>1, <2>1, <1>1, FreeTaskIsFree
      <4>2. pCurrentTask' = GetFreeTaskIndex(region) /\ pc' = "encode" /\ UNCHANGED syncing
        BY <1>4, <3>1 DEF RegionGetFreeTask
      <4> QED  BY <4>1, <4>2, <1>1 DEF ControlTypes
    <3>2. CASE Full(region)
      <4>1. /\ UNCHANGED pCurrentTask
            /\ \/ pc' = "rsync" /\ syncing' = 1
               \/ pc' = "failed" /\ UNCHANGED syncing
        BY <1>4, <3>2 DEF RegionGetFreeTask, FirstRegion
      <4> QED  BY <4>1, <1>1 DEF ControlTypes
    <3> QED  BY <3>1, <3>2
  <2>3. C
    BY <2>1, <2>2, <1>1 DEF ControlTypes, RegionControl, InTheLoop, Ended
  <2>4. J
    BY <2>1, <1>1 DEF JobTypes, UsedPools
  <2>5. N
    <3>1. RegionsToEncode' <= RegionsToEncode /\ RegionsToEncode' \in Nat
      BY <2>1, <2>2, <1>1 DEF RegionsToEncode, InTheLoop
    <3>2. FramesRead' = FramesRead /\ RegionsToEncode \in Nat
      BY <2>1, <1>1 DEF FramesRead, RegionsToEncode
    <3> QED  BY <3>1, <3>2, <2>1, <1>0, <1>1 DEF JobsCount
  <2> QED  BY <2>3, <2>4, <2>5
<1>5. ASSUME RegionSynchronize PROVE C /\ J /\ N
  <2>1. /\ pc = "rsync" /\ region \in Regions /\ syncing \in Regions
        /\ UNCHANGED <<opt, phase, region, pCurrentTask, processed, skipLoading, inVars,
                       m_bFileWriterReset, m_bInsertIDR, surfVars, encVars>>
    BY <1>0, <1>1, <1>5 DEF RegionSynchronize, RegionControl, InTheLoop
  <2>2. /\ seen \subseteq seen' /\ seen' \subseteq opt.may
        /\ locks' \subseteq reading' /\ reading' \subseteq reading
        /\ NextPool \/ (pc' \in {"failed", "device"} /\ UNCHANGED syncing)
    <3>1. CASE SyncSucceeds(syncing, file) /\ NextPool /\ UNCHANGED seen
      BY <3>1, <1>1, SyncSucceedsTypes DEF ControlTypes
    <3>2. CASE UNCHANGED <<reading, locks>>
      BY <1>5, <3>2, <1>1 DEF RegionSynchronize, Fault, ControlTypes, JobTypes
    <3> QED  BY <1>5, <3>1, <3>2 DEF RegionSynchronize
  <2>3. /\ pc' \in {"rsync", "retry", "failed", "device"} /\ syncing' \in 0..(LastRegion + 1)
        /\ pc' = "rsync" => syncing' \in Regions
    BY <2>1, <2>2, <1>1 DEF NextPool
  <2>4. C
    BY <2>1, <2>2, <2>3, <1>1 DEF ControlTypes, RegionControl, InTheLoop, Ended
  <2>5. J
    BY <2>1, <2>2, <1>1 DEF JobTypes, UsedPools
  <2>6. N
    <3>1. RegionsToEncode' <= RegionsToEncode /\ RegionsToEncode' \in Nat
      BY <2>1, <2>3, <1>1 DEF RegionsToEncode, InTheLoop
    <3>2. FramesRead' = FramesRead /\ RegionsToEncode \in Nat
      BY <2>1, <1>1 DEF FramesRead, RegionsToEncode
    <3> QED  BY <3>1, <3>2, <2>1, <1>0, <1>1 DEF JobsCount
  <2> QED  BY <2>4, <2>5, <2>6
<1>6. ASSUME RegionEncode PROVE C /\ J /\ N
  <2>1. /\ pc = "encode" /\ phase = "main" /\ region \in Regions /\ nEncSurfIdx \in Surfaces
        /\ UNCHANGED <<opt, phase, pCurrentTask, loopVars, inVars, m_bFileWriterReset, surfVars>>
    BY <1>0, <1>1, <1>6 DEF RegionEncode, RegionControl, InTheLoop, JobTypes
  <2>2. RegionsToEncode = LastRegion - region + 1 /\ FramesRead' = FramesRead
    BY <2>1 DEF RegionsToEncode, InTheLoop, FramesRead
  <2>3. CASE EncodeFrame(region, nEncSurfIdx) /\ NextRegion("frame") /\ UNCHANGED seen
    <3>1. /\ job' \in Seq([frame : 0..NumFrames, surf : Surfaces, pool : UsedPools, idr : BOOLEAN])
          /\ Len(job') = Len(job) + 1
          /\ encIn' \in [Pools -> Seq(1..Len(job'))] /\ fresh' \subseteq Pools
          /\ locks' \subseteq reading' /\ reading' \subseteq 1..Len(job')
          /\ m_bInsertIDR' = FALSE
      BY <2>1, <2>3, <1>1, EncodeFrameTypes
    <3>2. /\ region' \in Regions
          /\ \/ region = LastRegion /\ region' = 1 /\ pc' = "frame"
             \/ region < LastRegion /\ region' = region + 1 /\ pc' = "task"
      BY <2>1, <2>3, NextRegionFacts
    <3>3. C
      <4>1. region' \in Regions /\ region' \in Pools /\ pc' \in {"task", "frame"}
        BY <3>2, <1>1
      <4>2. ControlTypes'
        BY <2>1, <2>3, <3>1, <4>1, <1>1 DEF ControlTypes
      <4>3. RegionControl'
        BY <2>1, <4>1, <1>1 DEF RegionControl, InTheLoop
      <4> QED  BY <4>2, <4>3
    <3>4. processed' \in 0..Len(job')
      BY <2>1, <3>1, <1>1 DEF JobTypes
    <3>5. J
      BY <2>1, <3>1, <3>4, <1>1 DEF JobTypes, UsedPools
    <3>6. N
      <4>1. RegionsToEncode' = RegionsToEncode - 1
        <5>1. CASE region = LastRegion /\ region' = 1 /\ pc' = "frame"
          <6>1. RegionsToEncode' = 0
            BY <5>1 DEF RegionsToEncode, InTheLoop
          <6> QED  BY <6>1, <5>1, <2>2, <1>1
        <5>2. CASE region < LastRegion /\ region' = region + 1 /\ pc' = "task"
          <6>1. RegionsToEncode' = LastRegion - region' + 1
            BY <5>2, <2>1 DEF RegionsToEncode, InTheLoop
          <6> QED  BY <6>1, <5>2, <2>2, <1>1
        <5> QED  BY <3>2, <5>1, <5>2
      <4> QED  BY <4>1, <2>1, <2>2, <3>1, <1>0, <1>1 DEF JobsCount
    <3> QED  BY <3>3, <3>5, <3>6
  <2>4. CASE /\ \/ Fault("encode_failed") /\ NextRegion("failed")
                \/ Fault("device") /\ NextRegion("device")
             /\ m_bInsertIDR' = FALSE /\ UNCHANGED <<encVars, lockVars>>
    <3>1. PICK end \in {"failed", "device"} : NextRegion(end)
      BY <2>4
    <3>2. /\ region' \in Regions
          /\ \/ region = LastRegion /\ region' = 1 /\ pc' = end
             \/ region < LastRegion /\ region' = region + 1 /\ pc' = "task"
      BY <2>1, <3>1, NextRegionFacts
    <3>3. C
      <4>1. region' \in Regions /\ region' \in Pools /\ pc' \in {"task", "failed", "device"}
        BY <3>1, <3>2, <1>1
      <4>2. seen' \subseteq opt.may
        BY <2>4, <1>1 DEF Fault, ControlTypes
      <4>3. ControlTypes'
        BY <2>1, <2>4, <4>1, <4>2, <1>1 DEF ControlTypes, Ended
      <4>4. RegionControl'
        BY <2>1, <4>1, <1>1 DEF RegionControl, InTheLoop
      <4> QED  BY <4>3, <4>4
    <3>4. J
      BY <2>1, <2>4, <1>1 DEF JobTypes, UsedPools
    <3>5. N
      <4>1. RegionsToEncode' <= RegionsToEncode /\ RegionsToEncode' \in Nat
        <5>1. CASE region = LastRegion /\ region' = 1 /\ pc' = end
          <6>1. RegionsToEncode' = 0
            BY <5>1, <3>1 DEF RegionsToEncode, InTheLoop
          <6> QED  BY <6>1, <5>1, <2>2, <1>1
        <5>2. CASE region < LastRegion /\ region' = region + 1 /\ pc' = "task"
          <6>1. RegionsToEncode' = LastRegion - region' + 1
            BY <5>2, <2>1 DEF RegionsToEncode, InTheLoop
          <6> QED  BY <6>1, <5>2, <2>2, <1>1
        <5> QED  BY <3>2, <5>1, <5>2
      <4> QED  BY <4>1, <2>1, <2>2, <2>4, <1>0, <1>1 DEF JobsCount
    <3> QED  BY <3>3, <3>4, <3>5
  <2> QED  BY <1>6, <2>3, <2>4 DEF RegionEncode
<1>7. ASSUME RegionDrain PROVE C /\ J /\ N
  <2>1. /\ pc = "encode" /\ phase = "enc_drain" /\ region \in Regions /\ m_bInsertIDR' = FALSE
        /\ UNCHANGED <<opt, phase, pCurrentTask, loopVars, inVars, m_bFileWriterReset,
                       surfVars, encVars, lockVars>>
        /\ seen' \subseteq opt.may
    BY <1>0, <1>1, <1>7 DEF RegionDrain, RegionControl, InTheLoop, Fault, ControlTypes
  <2>2. region' \in Regions /\ pc' \in {"done", "task", "failed", "device"}
    <3>1. CASE NextRegion("done")
      BY <2>1, <3>1, NextRegionFacts
    <3> QED  BY <1>7, <2>1, <3>1 DEF RegionDrain
  <2>3. C
    <3>1. region' \in Pools
      BY <2>2, <1>1
    <3>2. ControlTypes'
      BY <2>1, <2>2, <3>1, <1>1 DEF ControlTypes, Ended
    <3>3. RegionControl'
      BY <2>1, <2>2, <1>1 DEF RegionControl, InTheLoop
    <3> QED  BY <3>2, <3>3
  <2>4. J
    BY <2>1, <1>1 DEF JobTypes, UsedPools
  <2>5. N
    BY <2>1, <2>2, <1>0, <1>1 DEF JobsCount, RegionsToEncode, FramesRead
  <2> QED  BY <2>3, <2>4, <2>5
<1>8. C /\ J /\ N
    BY <1>2, <1>3, <1>4, <1>5, <1>6, <1>7 DEF RegionStep
<1> QED  BY <1>0, <1>8 DEF Typed, PipelineControl

(* The steps the pipelines share.                                          *)
LEMMA SharedTyped ==
    ASSUME Typed, NoFreeSurface \/ EncoderBusy \/ EncoderFinishes \/ UNCHANGED vars
    PROVE  Typed'
<1> USE DEF loopVars, inVars, surfVars, encVars, lockVars
<1>1. /\ opt' = opt /\ seen \subseteq seen' /\ seen' \subseteq opt.may
      /\ {m_bInsertIDR'} \subseteq BOOLEAN
      /\ locks' \subseteq reading' /\ reading' \subseteq reading
      /\ pc' = pc \/ (pc = "frame" /\ pc' = "failed")
      /\ UNCHANGED <<phase, region, pCurrentTask, loopVars, inVars,
                     m_bFileWriterReset, surfVars, encVars>>
  <2>0. CASE NoFreeSurface
    BY <2>0 DEF NoFreeSurface, Typed, ControlTypes, JobTypes
  <2>1. CASE EncoderBusy
    BY <2>1 DEF EncoderBusy, Fault, Typed, ControlTypes, JobTypes
  <2>2. CASE EncoderFinishes
    BY <2>2 DEF EncoderFinishes, Typed, ControlTypes, JobTypes
  <2>3. CASE UNCHANGED vars
    BY <2>3 DEF vars, Typed, ControlTypes, JobTypes
  <2> QED  BY <2>0, <2>1, <2>2, <2>3
<1>2. ControlTypes' /\ PipelineControl' /\ RegionControl'
    BY <1>1 DEF Typed, ControlTypes, PipelineControl, RegionControl, InTheLoop, Ended
<1>3. JobTypes'
    BY <1>1 DEF Typed, JobTypes, UsedPools
<1>4. JobsCount'
  <2>1. /\ RegionsToEncode' = RegionsToEncode /\ ToEncode' = ToEncode /\ FramesRead' = FramesRead
        /\ job' = job
    BY <1>1 DEF RegionsToEncode, InTheLoop, ToEncode, FramesRead
  <2>2. CASE opt.kind = "region"
    BY <2>1, <2>2, <1>1 DEF Typed, JobsCount
  <2>3. CASE opt.kind # "region"
    <3>1. FramesRead \in Nat /\ Len(job) \in Nat /\ ToEncode \in Nat
      <4>1. Len(job) \in Nat /\ Len(vppHeld) \in Nat
        BY DEF Typed, JobTypes
      <4>2. ToEncode \in Nat
        BY <4>1 DEF ToEncode
      <4> QED  BY <4>1, <4>2, FramesReadFacts DEF Typed, ControlTypes
    <3>2. Len(job) + ToEncode <= FramesRead + IF "double" \in seen THEN 1 ELSE 0
      BY <2>3 DEF Typed, JobsCount
    <3>3. Len(job) + ToEncode <= FramesRead + IF "double" \in seen' THEN 1 ELSE 0
      BY <3>1, <3>2, <1>1
    <3> QED  BY <3>3, <2>1, <2>3, <1>1 DEF JobsCount
  <2> QED  BY <2>2, <2>3
<1> QED  BY <1>2, <1>3, <1>4 DEF Typed

LEMMA RecoverTyped ==
    ASSUME Typed, RecoverDevice
    PROVE  Typed'
<1> DEFINE e == <<>>
<1>1. /\ opt \in Configurations /\ opt' = opt /\ Len(job) \in Nat /\ 0 \in Pools
      /\ 0 \in Slots(0) /\ 1 \in Surfaces /\ NumFrames \in Nat /\ LastRegion \in Nat
      /\ FramesRead \in Nat /\ LastRegion * FramesRead \in Nat
  <2>1. opt \in Configurations /\ pos \in 0..NumFrames /\ passes \in 1..MaxPasses /\ opt' = opt
    BY DEF RecoverDevice, Typed, ControlTypes
  <2>2. FramesRead \in Nat
    BY <2>1, FramesReadFacts
  <2>3. Len(job) \in Nat
    BY DEF Typed, JobTypes
  <2>4. LastRegion \in Nat /\ LastRegion * FramesRead \in Nat /\ NumFrames \in Nat
    BY <2>2, PoolFacts
  <2>5. 0 \in Pools /\ 0 \in Slots(0) /\ 1 \in Surfaces
    BY PoolFacts DEF Slots, Surfaces
  <2> QED  BY <2>1, <2>2, <2>3, <2>4, <2>5
<1>2. /\ phase' = "main" /\ region' = 0 /\ pCurrentTask' = 0 /\ nEncSurfIdx' = 1
      /\ pc' = (IF opt.kind = "region" THEN "frame" ELSE "task")
      /\ processed' = 0 /\ skipLoading' = FALSE /\ syncing' = 0
      /\ content' = [s \in Surfaces |-> 0] /\ vppHeld' = <<>>
      /\ encIn' = [p \in Pools |-> <<>>] /\ fresh' = Pools
      /\ reading' = {} /\ locks' = {}
      /\ UNCHANGED <<pos, passes, m_bFileWriterReset, m_bInsertIDR, job, seen>>
    BY DEF RecoverDevice, inVars
<1>3. ControlTypes' /\ PipelineControl' /\ RegionControl'
  <2>1. pCurrentTask' \in UNION {Slots(p) : p \in Pools}
    BY <1>1, <1>2
  <2>2. ControlTypes'
    <3>1. /\ seen' \subseteq opt.may /\ pos' \in 0..NumFrames /\ passes' \in 1..MaxPasses
          /\ {m_bFileWriterReset', m_bInsertIDR'} \subseteq BOOLEAN
      BY <1>2 DEF Typed, ControlTypes
    <3>2. syncing' \in 0..(LastRegion + 1) /\ region' \in Pools
      BY <1>1, <1>2
    <3>3. skipLoading' \in BOOLEAN /\ pc' \in {"task", "frame"} /\ phase' \in {"main"}
      BY <1>2
    <3> QED  BY <2>1, <3>1, <3>2, <3>3, <1>1 DEF ControlTypes
  <2>3. PipelineControl' /\ RegionControl'
    BY <1>1, <1>2 DEF PipelineControl, RegionControl, InTheLoop
  <2> QED  BY <2>2, <2>3
<1>4. JobTypes'
  <2>1. e \in Seq(1..Len(job)) /\ e \in Seq(1..NumFrames)
    OBVIOUS
  <2>2. encIn' = [p \in Pools |-> e] /\ vppHeld' = e
    BY <1>2
  <2> HIDE DEF e
  <2> QED  BY <2>1, <2>2, <1>1, <1>2 DEF Typed, JobTypes, UsedPools
<1>5. JobsCount'
  <2>1. opt.kind = "region" => RegionsToEncode' = 0
    BY <1>2 DEF RegionsToEncode, InTheLoop
  <2>2. CASE opt.kind = "region"
    <3>1. RegionsToEncode \in Nat
      BY <1>1, PoolFacts DEF RegionsToEncode, Typed, ControlTypes
    <3>2. Len(job) + RegionsToEncode <= LastRegion * FramesRead
      BY <2>2 DEF Typed, JobsCount
    <3>3. FramesRead' = FramesRead /\ job' = job
      BY <1>2 DEF FramesRead
    <3> QED  BY <2>1, <2>2, <3>1, <3>2, <3>3, <1>1 DEF JobsCount
  <2>3. CASE opt.kind # "region"
    <3>1. ToEncode \in Nat
      BY DEF ToEncode, Typed, JobTypes
    <3>2. Len(job) + ToEncode <= FramesRead + IF "double" \in seen THEN 1 ELSE 0
      BY <2>3 DEF Typed, JobsCount
    <3>3. FramesRead' = FramesRead /\ job' = job /\ seen' = seen /\ ToEncode' = 0
      BY <2>3, <1>1, <1>2 DEF FramesRead, ToEncode
    <3>4. Len(job) + 0 <= FramesRead + IF "double" \in seen THEN 1 ELSE 0
      BY <3>1, <3>2, <1>1
    <3> QED  BY <2>3, <3>3, <3>4, <1>1 DEF JobsCount
  <2> QED  BY <2>2, <2>3
<1> QED  BY <1>3, <1>4, <1>5 DEF Typed

LEMMA TypedStep == IInv /\ Typed /\ [Next \/ Terminated]_vars => Typed'
  BY PipelineTyped, RegionTyped, SharedTyped, RecoverTyped DEF Next, Terminated

LEMMA TypedInitially == SessionInit => Typed
<1> SUFFICES ASSUME SessionInit PROVE Typed
    OBVIOUS
<1> DEFINE e == <<>>
<1>1. /\ opt \in Configurations /\ phase = "main" /\ region = 0 /\ pCurrentTask = 0
      /\ nEncSurfIdx = 1 /\ pc = (IF opt.kind = "region" THEN "frame" ELSE "task")
      /\ processed = 0 /\ skipLoading = FALSE /\ syncing = 0 /\ pos = 0 /\ passes = 1
      /\ m_bFileWriterReset = FALSE /\ m_bInsertIDR = FALSE
      /\ content = [s \in Surfaces |-> 0] /\ vppHeld = e /\ encIn = [p \in Pools |-> e]
      /\ fresh = Pools /\ job = e /\ reading = {} /\ locks = {} /\ seen = {}
    BY DEF SessionInit
<1>2. /\ 0 \in Pools /\ 0 \in Slots(0) /\ 1 \in Surfaces /\ NumFrames \in Nat /\ LastRegion \in Nat
      /\ MaxPasses \in Nat \ {0}
    BY <1>1, PoolFacts, OptFacts DEF Slots, Surfaces
<1>3. ControlTypes
  <2>1. pCurrentTask \in UNION {Slots(p) : p \in Pools}
    BY <1>1, <1>2
  <2>2. passes \in 1..MaxPasses /\ pos \in 0..NumFrames /\ syncing \in 0..(LastRegion + 1)
    BY <1>1, <1>2
  <2> HIDE DEF e
  <2> QED  BY <2>1, <2>2, <1>1, <1>2 DEF ControlTypes
<1>4. PipelineControl /\ RegionControl
  <2> HIDE DEF e
  <2> QED  BY <1>1 DEF PipelineControl, RegionControl, InTheLoop
<1>5. e \in Seq(1..Len(e)) /\ e \in Seq(1..NumFrames) /\ Len(e) = 0
      /\ e \in Seq([frame : 0..NumFrames, surf : Surfaces, pool : UsedPools, idr : BOOLEAN])
    OBVIOUS
<1> HIDE DEF e
<1>6. JobTypes
    BY <1>1, <1>2, <1>5 DEF JobTypes
<1>7. JobsCount
  <2>1. FramesRead = 0
    BY <1>1, <1>2 DEF FramesRead
  <2>2. opt.kind = "region" => RegionsToEncode = 0
    BY <1>1 DEF RegionsToEncode, InTheLoop
  <2>3. opt.kind # "region" => ToEncode = 0
    BY <1>1, <1>5 DEF ToEncode
  <2> QED  BY <1>1, <1>2, <1>5, <2>1, <2>2, <2>3 DEF JobsCount
<1> QED  BY <1>3, <1>4, <1>6, <1>7 DEF Typed

-----------------------------------------------------------------------------
(* The steps of the program as steps of the tasks and of the jobs.         *)
Quiet == UNCHANGED <<encVars, lockVars, poolVars>>

Synchronized(p) ==
    LET j == m_pTasks[p][m_nTaskBufferStart[p]] IN
      /\ SynchronizeFirstTask(p)
      /\ reading' = reading \ {j} /\ locks' = locks \ {j}
      /\ DependentVppTasks' \subseteq DependentVppTasks
      /\ UNCHANGED encVars

FrameGiven ==
    /\ pc = "encode" /\ phase # "enc_drain" /\ region \in UsedPools /\ nEncSurfIdx \in Surfaces
    /\ EncodeFrame(region, nEncSurfIdx) /\ UNCHANGED <<seen, surfVars>>

JobDrained ==
    /\ pc = "encode" /\ region = 0 /\ opt.kind # "region" /\ DrainEncoder(0)

TasksCleared ==
    /\ opt.kind # "region"
    /\ \E f \in {"hang", "vpp_hang"} : f \notin seen /\ seen' = seen \cup {f}
    /\ ClearTasks({0}) /\ reading' = reading \ InTasks /\ locks' = {}
    /\ DependentVppTasks' = {} /\ m_bInsertIDR' = TRUE /\ UNCHANGED encVars

JobStep ==
    \/ Quiet \/ FrameGiven \/ JobDrained \/ TasksCleared \/ RecoverDevice \/ EncoderFinishes
    \/ \E p \in UsedPools : Synchronized(p)

LEMMA SyncFailsIs ==
    ASSUME NEW late, SyncFails(late), opt.kind # "region", UNCHANGED encVars
    PROVE  Quiet \/ TasksCleared
<1>1. CASE TaskHung /\ opt.robust /\ GpuHangRecovery
  <2>1. \E f \in {"hang", "vpp_hang"} : f \notin seen /\ seen' = seen \cup {f}
    BY <1>1 DEF TaskHung, Fault
  <2> QED  BY <1>1, <2>1 DEF GpuHangRecovery, TasksCleared
<1>2. CASE ~ (TaskHung /\ opt.robust /\ GpuHangRecovery)
    BY <1>2 DEF SyncFails, Quiet
<1> QED  BY <1>1, <1>2

LEMMA StepIsJobStep ==
    ASSUME Typed, [Next \/ Terminated]_vars
    PROVE  JobStep /\ opt' = opt
<1>0. /\ opt.kind # "region" => region = 0 /\ UsedPools = {0}
      /\ opt.kind = "region" => UsedPools = Regions
      /\ nEncSurfIdx \in Surfaces
    BY OptFacts DEF Typed, ControlTypes, PipelineControl, JobTypes
<1>1. CASE EncodeStep
  <2>0. opt.kind # "region" /\ region = 0 /\ UsedPools = {0} /\ region \in UsedPools
    BY <1>0, <1>1 DEF EncodeStep
  <2>1. CASE GetFreeTask
    <3>1. opt' = opt /\ UNCHANGED encVars
      BY <2>1 DEF GetFreeTask
    <3>2. CASE SyncSucceeds(0, WritersReset)
      BY <2>0, <3>1, <3>2 DEF SyncSucceeds, Synchronized, JobStep
    <3>3. CASE SyncFails("failed")
      BY <2>0, <3>1, <3>3, SyncFailsIs DEF JobStep
    <3>4. CASE UNCHANGED <<lockVars, poolVars>>
      BY <3>1, <3>4 DEF Quiet, JobStep
    <3> QED  BY <2>1, <3>1, <3>2, <3>3, <3>4 DEF GetFreeTask
  <2>2. CASE StopAtLimit \/ ReadFrame \/ EndOfFile \/ RunVpp \/ DrainVpp
    BY <2>2 DEF StopAtLimit, ReadFrame, EndOfFile, RunVpp, DrainVpp, Quiet, JobStep
  <2>3. CASE Encode
    <3>1. opt' = opt /\ pc = "encode" /\ phase # "enc_drain" /\ UNCHANGED surfVars
      BY <2>3 DEF Encode
    <3>2. CASE EncodeFrame(0, nEncSurfIdx) /\ UNCHANGED seen
      BY <1>0, <2>0, <3>1, <3>2 DEF FrameGiven, JobStep
    <3>3. CASE UNCHANGED <<encVars, lockVars, poolVars>>
      BY <3>1, <3>3 DEF Quiet, JobStep
    <3> QED  BY <2>3, <3>1, <3>2, <3>3 DEF Encode
  <2>4. CASE EncodeDrained
    <3>1. opt' = opt /\ pc = "encode"
      BY <2>4 DEF EncodeDrained
    <3>2. CASE DrainEncoder(0)
      BY <2>0, <3>1, <3>2 DEF JobDrained, JobStep
    <3>3. CASE UNCHANGED <<encVars, lockVars, poolVars>>
      BY <3>1, <3>3 DEF Quiet, JobStep
    <3> QED  BY <2>4, <3>1, <3>2, <3>3 DEF EncodeDrained
  <2>5. CASE SynchronizeAll
    <3>1. opt' = opt /\ UNCHANGED encVars
      BY <2>5 DEF SynchronizeAll
    <3>2. CASE SyncSucceeds(0, file)
      BY <2>0, <3>1, <3>2 DEF SyncSucceeds, Synchronized, JobStep
    <3>3. CASE SyncFails("done")
      BY <2>0, <3>1, <3>3, SyncFailsIs DEF JobStep
    <3>4. CASE UNCHANGED <<lockVars, poolVars>>
      BY <3>1, <3>4 DEF Quiet, JobStep
    <3> QED  BY <2>5, <3>1, <3>2, <3>3, <3>4 DEF SynchronizeAll
  <2> QED  BY <1>1, <2>1, <2>2, <2>3, <2>4, <2>5 DEF EncodeStep
<1>2. CASE RegionStep
  <2>0. opt.kind = "region" /\ UsedPools = Regions
    BY <1>0, <1>2 DEF RegionStep
  <2>1. CASE RegionReadFrame \/ RegionEndOfFile \/ RegionGetFreeTask \/ RegionDrain
    BY <2>1 DEF RegionReadFrame, RegionEndOfFile, RegionGetFreeTask, RegionDrain, Quiet, JobStep
  <2>2. CASE RegionSynchronize
    <3>1. opt' = opt /\ UNCHANGED encVars /\ syncing \in UsedPools
      BY <2>0, <2>2 DEF RegionSynchronize, Typed, RegionControl
    <3>2. CASE SyncSucceeds(syncing, file)
      BY <3>1, <3>2 DEF SyncSucceeds, Synchronized, JobStep
    <3>3. CASE UNCHANGED <<lockVars, poolVars>>
      BY <3>1, <3>3 DEF Quiet, JobStep
    <3> QED  BY <2>2, <3>1, <3>2, <3>3 DEF RegionSynchronize
  <2>3. CASE RegionEncode
    <3>1. opt' = opt /\ pc = "encode" /\ phase # "enc_drain" /\ UNCHANGED surfVars /\ region \in UsedPools
      BY <2>0, <2>3 DEF RegionEncode, Typed, RegionControl, InTheLoop
    <3>2. CASE EncodeFrame(region, nEncSurfIdx) /\ UNCHANGED seen
      BY <1>0, <3>1, <3>2 DEF FrameGiven, JobStep
    <3>3. CASE UNCHANGED <<encVars, lockVars, poolVars>>
      BY <3>1, <3>3 DEF Quiet, JobStep
    <3> QED  BY <2>3, <3>1, <3>2, <3>3 DEF RegionEncode
  <2> QED  BY <1>2, <2>1, <2>2, <2>3 DEF RegionStep
<1>3. CASE NoFreeSurface \/ EncoderBusy \/ RecoverDevice \/ EncoderFinishes
    BY <1>3 DEF NoFreeSurface, EncoderBusy, RecoverDevice, EncoderFinishes, Quiet, JobStep
<1>4. CASE UNCHANGED vars
    BY <1>4 DEF vars, Quiet, JobStep
<1> QED  BY <1>1, <1>2, <1>3, <1>4 DEF Next, Terminated

(* The program uses its pools as PoolNext allows: the task it fills is the *)
(* one GetFreeTask would give now, whatever has been done since it was     *)
(* given.                                                                  *)
LEMMA PoolStep ==
    ASSUME IInv, Typed, TaskGiven, JobStep, opt' = opt, Typed'
    PROVE  [PoolNext]_poolVars
<1>0. UsedPools \subseteq Pools /\ region \in Pools /\ 0 \in Pools
    BY OptFacts DEF Typed, ControlTypes
<1>1. CASE Quiet \/ EncoderFinishes
    BY <1>1 DEF Quiet, EncoderFinishes
<1>2. ASSUME NEW p \in UsedPools, Synchronized(p) PROVE PoolNext
    BY <1>0, <1>2 DEF Synchronized, PoolNext
<1>3. CASE TasksCleared \/ RecoverDevice
    BY <1>0, <1>3 DEF TasksCleared, RecoverDevice, PoolNext
<1>4. CASE JobDrained
  <2>1. Head(encIn[0]) \in Jobs
    BY <1>0, <1>4, DrainEncoderTypes, JobsSuffice DEF JobDrained, NumbersSuffice
  <2>2. Submit(0, GetFreeTaskIndex(0), Head(encIn[0])) /\ ~Full(0)
    BY <1>4 DEF JobDrained, DrainEncoder, TaskGiven, Holding
  <2> QED  BY <1>0, <2>1, <2>2 DEF PoolNext
<1>5. CASE FrameGiven
  <2> DEFINE q == Append(encIn[region], Len(job) + 1)
  <2>1. CASE UNCHANGED poolVars
    BY <2>1
  <2>2. CASE Submit(region, pCurrentTask, Head(q))
    <3>1. /\ Len(job) \in Nat /\ Len(job') = Len(job) + 1 /\ encIn \in [Pools -> Seq(1..Len(job))]
      BY <1>5, EncodeFrameTypes DEF FrameGiven, Typed, JobTypes
    <3>2. encIn[region] \in Seq(1..Len(job')) /\ Len(job) + 1 \in 1..Len(job')
      <4>1. 1..Len(job) \subseteq 1..Len(job') /\ Len(job) + 1 \in 1..Len(job')
        BY <3>1
      <4> QED  BY <1>0, <3>1, <4>1, SeqMonotonic
    <3>3. q \in Seq(1..Len(job')) /\ q # <<>>
      BY SMTT(40), <3>2, AppendProperties
    <3> HIDE DEF q
    <3>4. Head(q) \in 1..Len(job')
      BY <3>3, TailElements
    <3>5. 1..Len(job') \subseteq Jobs
      <4>1. NumbersSuffice'
        BY JobsSuffice, PTL
      <4> QED  BY <4>1 DEF NumbersSuffice
    <3>6. ~Full(region) /\ pCurrentTask = GetFreeTaskIndex(region)
      BY <1>5 DEF FrameGiven, TaskGiven, Holding
    <3> QED  BY <1>0, <2>2, <3>4, <3>5, <3>6 DEF PoolNext
  <2> QED  BY <1>5, <2>1, <2>2 DEF FrameGiven, EncodeFrame
<1> QED  BY <1>1, <1>2, <1>3, <1>4, <1>5 DEF JobStep

(* GetFreeTask's task stays the free one until a frame is encoded.         *)
LEMMA TaskGivenStep ==
    ASSUME IInv, Typed, TaskGiven, [Next \/ Terminated]_vars
    PROVE  TaskGiven'
<1> USE DEF loopVars, inVars, surfVars, encVars, lockVars
<1>0. opt' = opt
    BY StepIsJobStep
<1>1. ASSUME UNCHANGED <<poolVars, region, pCurrentTask>>, Holding' => Holding
      PROVE  TaskGiven'
  <2>1. Full(region)' = Full(region) /\ GetFreeTaskIndex(region)' = GetFreeTaskIndex(region)
    BY <1>1 DEF poolVars, Full, GetFreeTaskIndex, InExecution, At
  <2> QED  BY <2>1, <1>1 DEF TaskGiven
<1>2. ASSUME ~Holding' PROVE TaskGiven'
    BY <1>2 DEF TaskGiven
<1>3. CASE EncodeStep
  <2>0. opt.kind # "region" /\ region = 0
    BY <1>3 DEF EncodeStep, Typed, PipelineControl
  <2>1. CASE GetFreeTask /\ ~Full(0)
    <3>1. UNCHANGED <<poolVars, region>> /\ pCurrentTask' = GetFreeTaskIndex(0)
      BY <2>1 DEF GetFreeTask
    <3>2. Full(region)' = Full(0) /\ GetFreeTaskIndex(region)' = GetFreeTaskIndex(0)
      BY <2>0, <3>1 DEF poolVars, Full, GetFreeTaskIndex, InExecution, At
    <3> QED  BY <2>1, <3>1, <3>2 DEF TaskGiven
  <2>2. CASE GetFreeTask /\ Full(0)
    <3>1. pc' \in {"task", "failed", "undefined", "device"}
      <4>1. CASE SyncFails("failed")
        BY <2>2, <4>1, <1>0, SyncFailsTypes DEF GetFreeTask
      <4> QED  BY <2>2, <4>1 DEF GetFreeTask
    <3> QED  BY <3>1, <1>2 DEF Holding
  <2>3. CASE StopAtLimit \/ EndOfFile \/ DrainVpp
    BY <2>3, <1>2 DEF StopAtLimit, EndOfFile, DrainVpp, VppFails, Drain, Holding
  <2>4. CASE ReadFrame
    BY <2>0, <2>4, <1>1 DEF ReadFrame, Holding
  <2>5. CASE RunVpp
    <3>1. UNCHANGED <<poolVars, region, pCurrentTask>> /\ Holding
      BY <2>0, <2>5 DEF RunVpp, Holding, Typed, PipelineControl
    <3> QED  BY <3>1, <1>1
  <2>6. CASE Encode
    BY <2>6, <1>2 DEF Encode, Holding
  <2>7. CASE EncodeDrained
    BY <2>7, <1>2 DEF EncodeDrained, Holding
  <2>8. CASE SynchronizeAll
    <3>1. pc' \in {"sync", "failed", "undefined", "device", "done"}
      <4>1. CASE SyncFails("done")
        BY <2>8, <4>1, <1>0, SyncFailsTypes DEF SynchronizeAll
      <4> QED  BY <2>8, <4>1 DEF SynchronizeAll
    <3> QED  BY <3>1, <1>2 DEF Holding
  <2> QED  BY <1>3, <2>1, <2>2, <2>3, <2>4, <2>5, <2>6, <2>7, <2>8 DEF EncodeStep
<1>4. CASE RegionStep
  <2>0. opt.kind = "region"
    BY <1>4 DEF RegionStep
  <2>1. CASE RegionReadFrame \/ RegionEndOfFile
    BY <2>0, <2>1, <1>0, <1>2 DEF RegionReadFrame, RegionEndOfFile, Holding
  <2>2. CASE RegionGetFreeTask /\ ~Full(region)
    <3>1. UNCHANGED <<poolVars, region>> /\ pCurrentTask' = GetFreeTaskIndex(region)
      BY <2>2 DEF RegionGetFreeTask
    <3>2. Full(region)' = Full(region) /\ GetFreeTaskIndex(region)' = GetFreeTaskIndex(region)
      BY <3>1 DEF poolVars, Full, GetFreeTaskIndex, InExecution, At
    <3> QED  BY <2>2, <3>1, <3>2 DEF TaskGiven
  <2>3. CASE RegionGetFreeTask /\ Full(region)
    BY <2>0, <2>3, <1>0, <1>2 DEF RegionGetFreeTask, Holding
  <2>4. CASE RegionSynchronize
    BY <2>0, <2>4, <1>0, <1>2 DEF RegionSynchronize, NextPool, Holding
  <2>5. CASE RegionEncode
    <3>1. pc' \in {"task", "frame", "failed", "device"}
      BY <2>5 DEF RegionEncode, NextRegion
    <3> QED  BY <2>0, <3>1, <1>0, <1>2 DEF Holding
  <2>6. CASE RegionDrain
    <3>1. pc' \in {"task", "done", "failed", "device"}
      BY <2>6 DEF RegionDrain, NextRegion
    <3> QED  BY <2>0, <3>1, <1>0, <1>2 DEF Holding
  <2> QED  BY <1>4, <2>1, <2>2, <2>3, <2>4, <2>5, <2>6 DEF RegionStep
<1>5. CASE RecoverDevice
    BY <1>5, <1>0, <1>2 DEF RecoverDevice, Holding
<1>6. CASE NoFreeSurface \/ EncoderBusy \/ EncoderFinishes \/ UNCHANGED vars
    BY <1>6, <1>1 DEF NoFreeSurface, EncoderBusy, EncoderFinishes, vars, Holding
<1> QED  BY <1>3, <1>4, <1>5, <1>6 DEF Next, Terminated

-----------------------------------------------------------------------------
(* Only where VPP is used have tasks VPP tasks to wait for.                *)
VppTasks ==
    DependentVppTasks \subseteq IF opt.vpp THEN UNION {Slots(p) : p \in Pools} ELSE {}

LEMMA VppTasksStep ==
    ASSUME Typed, VppTasks, JobStep, opt' = opt
    PROVE  VppTasks'
<1>1. ASSUME DependentVppTasks' \subseteq DependentVppTasks PROVE VppTasks'
    BY <1>1, opt' = opt DEF VppTasks, Slots
<1>2. CASE FrameGiven
  <2>1. DependentVppTasks' = DependentVppTasks \cup (IF opt.vpp THEN {pCurrentTask} ELSE {})
    BY <1>2 DEF FrameGiven, EncodeFrame
  <2>2. pCurrentTask \in UNION {Slots(p) : p \in Pools}
    BY DEF Typed, ControlTypes
  <2> QED  BY <2>1, <2>2, opt' = opt DEF VppTasks, Slots
<1>3. CASE ~ FrameGiven
  <2>1. DependentVppTasks' \subseteq DependentVppTasks
    BY <1>3 DEF JobStep, Quiet, JobDrained, DrainEncoder, TasksCleared, RecoverDevice,
                EncoderFinishes, Synchronized, lockVars
  <2> QED  BY <2>1, <1>1
<1> QED  BY <1>2, <1>3

(* In the program, too, every pool is a queue.                             *)
PoolUse == IInv /\ Typed /\ TaskGiven /\ VppTasks

LEMMA PoolUseInitially == SessionInit => PoolUse /\ TaskQueue!Init
<1> SUFFICES ASSUME SessionInit PROVE PoolUse /\ TaskQueue!Init
    OBVIOUS
<1>1. PoolInit /\ pc = (IF opt.kind = "region" THEN "frame" ELSE "task")
    BY DEF SessionInit
<1>2. IInv /\ TaskQueue!Init
    BY <1>1, InitHolds
<1>3. TaskGiven
    BY <1>1 DEF TaskGiven, Holding
<1>4. VppTasks
    BY DEF SessionInit, VppTasks
<1> QED  BY <1>2, <1>3, <1>4, TypedInitially DEF PoolUse

LEMMA PoolUseStep ==
    PoolUse /\ [Next \/ Terminated]_vars => PoolUse' /\ [TaskQueue!Next]_(TaskQueue!qvars)
<1> SUFFICES ASSUME PoolUse, [Next \/ Terminated]_vars
             PROVE  PoolUse' /\ [TaskQueue!Next]_(TaskQueue!qvars)
    OBVIOUS
<1>1. IInv /\ Typed /\ TaskGiven /\ VppTasks
    BY DEF PoolUse
<1>2. Typed' /\ TaskGiven' /\ VppTasks'
    BY <1>1, TypedStep, TaskGivenStep, StepIsJobStep, VppTasksStep
<1>3. [PoolNext]_poolVars
    BY <1>1, <1>2, StepIsJobStep, PoolStep
<1> QED  BY <1>1, <1>2, <1>3, StepPreserves DEF PoolUse

THEOREM PoolUseHolds == Spec => []PoolUse
<1>1. SessionInit => PoolUse
    BY PoolUseInitially
<1>2. PoolUse /\ [Next \/ Terminated]_vars => PoolUse'
    BY PoolUseStep
<1> QED  BY <1>1, <1>2, PTL DEF Spec

(* The tasks in execution follow each other around the ring in every pool  *)
(* of the program.                                                         *)
THEOREM TasksContiguous == Spec => []RingIsContiguous
<1>1. PoolUse => RingIsContiguous
    BY DEF PoolUse, IInv
<1> QED  BY <1>1, PoolUseHolds, PTL

(* The pools of sample_encode implement AbstractTaskQueue in the hands of  *)
(* the pipelines: what they submit, synchronize and clear is what a caller *)
(* of the queue may do.                                                    *)
THEOREM PipelinesUseAQueue == Spec => RingImplementsQueue
<1>1. SessionInit => PoolUse /\ TaskQueue!Init
    BY PoolUseInitially
<1>2. PoolUse /\ [Next \/ Terminated]_vars => PoolUse' /\ [TaskQueue!Next]_(TaskQueue!qvars)
    BY PoolUseStep
<1> QED  BY <1>1, <1>2, PTL DEF Spec, RingImplementsQueue, TaskQueue!Spec

(* Everything has its type, and no step needs more than that; the current  *)
(* task is one of a pool and the surface to encode one of the encoder's.   *)
THEOREM EncodeTypeCorrect == Spec => []EncodeTypeOK
<1>1. PoolUse => EncodeTypeOK
  <2> SUFFICES ASSUME PoolUse PROVE EncodeTypeOK
    OBVIOUS
  <2>1. PoolTypeOK /\ ControlTypes /\ JobTypes /\ VppTasks
    BY DEF PoolUse, IInv, Typed
  <2>2. Len(job) \in Nat /\ DOMAIN job = 1..Len(job)
        /\ \A j \in DOMAIN job : /\ job[j].frame \in 0..NumFrames /\ job[j].surf \in Surfaces
                                 /\ job[j].pool \in UsedPools /\ job[j].idr \in BOOLEAN
    BY <2>1, JobFacts
  <2>3. processed <= Len(job)
    BY <2>1, <2>2 DEF JobTypes
  <2> QED  BY <2>1, <2>2, <2>3 DEF EncodeTypeOK, ControlTypes, JobTypes, VppTasks, LastRegion
<1> QED  BY <1>1, PoolUseHolds, PTL

-----------------------------------------------------------------------------
(* Frames and the surfaces they are in.  An encoder that keeps nothing     *)
(* back has everything it reads in the tasks.                              *)
NothingKeptBack ==
    opt.delay = 0 => /\ \A p \in Pools : encIn[p] = <<>>
                     /\ reading \subseteq InTasks

SurfacesSafe ==
    (seen \cap {"hang", "vpp_hang"} # {} => opt.delay = 0) =>
        /\ reading = locks
        /\ \A j \in reading : content[job[j].surf] = job[j].frame
        /\ pc = "vpp" => nEncSurfIdx \in FreeSurfaces

(* Only a surface that is not locked is written, and VPP is given one.     *)
LEMMA ContentSafe ==
    ASSUME Typed, [Next \/ Terminated]_vars, ~RecoverDevice,
           pc = "vpp" => nEncSurfIdx \in FreeSurfaces
    PROVE  /\ \A s \in Surfaces \ FreeSurfaces : content'[s] = content[s]
           /\ seen \subseteq seen' /\ opt' = opt
           /\ pc' = "vpp" => nEncSurfIdx' \in FreeSurfaces /\ job' = job /\ locks' \subseteq locks
<1> USE DEF loopVars, inVars, surfVars, encVars, lockVars
<1>0. opt' = opt /\ content \in [Surfaces -> 0..NumFrames]
    BY StepIsJobStep DEF Typed, JobTypes
<1>1. FreeSurfaces # {} => FreeSurface \in FreeSurfaces
    BY FreeSurfaceFacts
<1>2. ASSUME content' = content, seen \subseteq seen', pc' # "vpp" PROVE
           /\ \A s \in Surfaces \ FreeSurfaces : content'[s] = content[s]
           /\ seen \subseteq seen' /\ opt' = opt
           /\ pc' = "vpp" => nEncSurfIdx' \in FreeSurfaces /\ job' = job /\ locks' \subseteq locks
    BY <1>2, <1>0
<1>3. CASE EncodeStep
  <2>1. CASE GetFreeTask
    <3>1. CASE SyncFails("failed")
      BY <2>1, <3>1, <1>0, <1>2, SyncFailsTypes DEF GetFreeTask
    <3> QED  BY <2>1, <3>1, <1>2 DEF GetFreeTask
  <2>2. CASE StopAtLimit \/ EndOfFile
    BY <2>2, <1>2 DEF StopAtLimit, EndOfFile, Drain
  <2>3. CASE ReadFrame
    <3>1. /\ FreeSurface \in FreeSurfaces /\ nEncSurfIdx' = FreeSurface
          /\ seen' = seen /\ job' = job /\ locks' = locks
          /\ content' = content \/ content' = [content EXCEPT ![FreeSurface] = pos']
      BY <2>3, <1>1 DEF ReadFrame
    <3> QED  BY <3>1, <1>0
  <2>4. CASE RunVpp
    <3>1. /\ nEncSurfIdx \in FreeSurfaces /\ pc' # "vpp" /\ seen \subseteq seen'
          /\ content' = content \/ content' = [content EXCEPT ![nEncSurfIdx] = Head(vppHeld)]
      BY <2>4 DEF RunVpp, VppKeeps, VppOutputs, VppFails, Fault
    <3> QED  BY <3>1, <1>0
  <2>5. CASE DrainVpp
    <3>1. /\ FreeSurface \in FreeSurfaces /\ pc' # "vpp" /\ seen \subseteq seen'
          /\ content' = content \/ content' = [content EXCEPT ![FreeSurface] = Head(vppHeld)]
      BY <2>5, <1>1 DEF DrainVpp, VppFails, Fault
    <3> QED  BY <3>1, <1>0
  <2>6. CASE Encode \/ EncodeDrained
    BY <2>6, <1>2 DEF Encode, EncodeDrained, Fault
  <2>7. CASE SynchronizeAll
    <3>1. CASE SyncFails("done")
      BY <2>7, <3>1, <1>0, <1>2, SyncFailsTypes DEF SynchronizeAll
    <3> QED  BY <2>7, <3>1, <1>2 DEF SynchronizeAll
  <2> QED  BY <1>3, <2>1, <2>2, <2>3, <2>4, <2>5, <2>6, <2>7 DEF EncodeStep
<1>4. CASE RegionStep
  <2>1. CASE RegionReadFrame
    <3>1. /\ FreeSurface \in FreeSurfaces /\ pc' # "vpp" /\ seen' = seen
          /\ content' = [content EXCEPT ![FreeSurface] = pos']
      BY <2>1, <1>1 DEF RegionReadFrame
    <3> QED  BY <3>1, <1>0
  <2>2. CASE RegionEndOfFile \/ RegionGetFreeTask
    BY <2>2, <1>2 DEF RegionEndOfFile, RegionGetFreeTask
  <2>3. CASE RegionSynchronize
    BY <2>3, <1>2 DEF RegionSynchronize, NextPool, Fault
  <2>4. CASE RegionEncode \/ RegionDrain
    BY <2>4, <1>2 DEF RegionEncode, RegionDrain, NextRegion, Fault
  <2> QED  BY <1>4, <2>1, <2>2, <2>3, <2>4 DEF RegionStep
<1>5. CASE NoFreeSurface \/ EncoderBusy \/ EncoderFinishes \/ UNCHANGED vars
    BY <1>5, <1>0 DEF NoFreeSurface, EncoderBusy, EncoderFinishes, vars, Fault
<1> QED  BY <1>3, <1>4, <1>5 DEF Next, Terminated

InATask(j) == j # NoTask /\ \E p \in UsedPools : \E i \in Slots(p) : m_pTasks[p][i] = j

LEMMA InTasksIs == \A j : j \in InTasks <=> InATask(j)
<1> SUFFICES ASSUME NEW j PROVE j \in InTasks <=> InATask(j)
    OBVIOUS
<1> DEFINE T(p) == {m_pTasks[p][i] : i \in Slots(p)}
           U == UNION {T(p) : p \in UsedPools}
<1>1. \A p : j \in T(p) <=> \E i \in Slots(p) : m_pTasks[p][i] = j
    OBVIOUS
<1>2. InTasks = U \ {NoTask}
    BY Zenon DEF InTasks
<1>3. j \in U <=> \E p \in UsedPools : j \in T(p)
  <2> HIDE DEF T
  <2> QED  OBVIOUS
<1> HIDE DEF T, U
<1>5. j \in InTasks <=> j # NoTask /\ j \in U
    BY <1>2
<1> QED  BY Zenon, <1>1, <1>3, <1>5 DEF InATask

LEMMA NothingKeptBackStep ==
    ASSUME IInv, Typed, NothingKeptBack, JobStep, opt' = opt, Typed'
    PROVE  NothingKeptBack'
<1> SUFFICES ASSUME opt.delay = 0
             PROVE  /\ \A p \in Pools : encIn'[p] = <<>>
                    /\ \A j \in reading' : j \in InTasks'
    BY DEF NothingKeptBack
<1>0. /\ \A p \in Pools : encIn[p] = <<>>
      /\ \A j \in reading : j \in InTasks
      /\ UsedPools' = UsedPools /\ UsedPools \subseteq Pools
      /\ \A p \in Pools : m_pTasks[p] \in [Slots(p) -> Jobs \cup {NoTask}]
      /\ DOMAIN m_pTasks = Pools
      /\ \A j : j \in InTasks <=> InATask(j)
      /\ \A j : (j \in InTasks)' <=> InATask(j)'
  <2>1. (\A j : j \in InTasks <=> InATask(j)) /\ (\A j : j \in InTasks <=> InATask(j))'
    BY InTasksIs, PTL
  <2> QED
    BY <2>1, OptFacts DEF NothingKeptBack, UsedPools, Typed, ControlTypes, IInv, PoolTypeOK
<1>1. ASSUME UNCHANGED <<encIn, m_pTasks>>, reading' \subseteq reading
      PROVE  /\ \A p \in Pools : encIn'[p] = <<>>
             /\ \A j \in reading' : j \in InTasks'
    BY <1>0, <1>1 DEF InATask, Slots
<1>2. CASE Quiet \/ EncoderFinishes
    BY <1>1, <1>2 DEF Quiet, EncoderFinishes, encVars, lockVars, poolVars
<1>3. CASE TasksCleared
    BY <1>0, <1>3 DEF TasksCleared, encVars
<1>4. CASE RecoverDevice
    BY <1>4 DEF RecoverDevice
<1>5. CASE JobDrained
    BY <1>0, <1>5, OptFacts DEF JobDrained, DrainEncoder, Typed, ControlTypes
<1>6. ASSUME NEW p \in UsedPools, Synchronized(p)
      PROVE  /\ \A q \in Pools : encIn'[q] = <<>>
             /\ \A j \in reading' : j \in InTasks'
  <2> DEFINE i == m_nTaskBufferStart[p]
  <2>1. /\ encIn' = encIn /\ reading' = reading \ {m_pTasks[p][i]}
        /\ m_pTasks' = [m_pTasks EXCEPT ![p][i] = NoTask]
    BY <1>6 DEF Synchronized, SynchronizeFirstTask, encVars
  <2>2. ASSUME NEW j \in reading' PROVE j \in InTasks'
    <3>1. j \in InTasks /\ j # m_pTasks[p][i]
      BY <2>1, <2>2, <1>0
    <3>2. PICK q \in UsedPools : \E k \in Slots(q) : m_pTasks[q][k] = j
      BY <3>1, <1>0 DEF InATask
    <3>3. PICK k \in Slots(q) : m_pTasks[q][k] = j
      BY <3>2
    <3>4. m_pTasks'[q][k] = j /\ j # NoTask
      BY <2>1, <3>1, <3>3, <1>0 DEF InATask
    <3> QED  BY <3>4, <1>0 DEF InATask, Slots
  <2> QED  BY <2>1, <2>2, <1>0
<1>7. CASE FrameGiven
  <2> DEFINE p == region
             n == Len(job) + 1
             q == Append(encIn[p], n)
  <2>1. /\ EncodeFrame(p, nEncSurfIdx) /\ p \in UsedPools /\ p \in Pools /\ Len(job) \in Nat
    BY <1>0, <1>7 DEF FrameGiven, Typed, JobTypes
  <2>2. encIn[p] = <<>>
    BY <2>1, <1>0
  <2>3. Len(q) = 1 /\ Head(q) = n /\ Tail(q) = <<>>
    BY <2>2
  <2>4. /\ Submit(p, pCurrentTask, n) /\ encIn' = [encIn EXCEPT ![p] = <<>>]
        /\ reading' = reading \cup {n}
    <3> HIDE DEF n
    <3> QED  BY <2>1, <2>3 DEF EncodeFrame, n
  <2>5. n \in Jobs /\ n # NoTask
    <3>1. NumbersSuffice'
      BY JobsSuffice, PTL
    <3>2. Len(job') = n
      BY <2>1, <1>7, EncodeFrameTypes DEF FrameGiven
    <3> QED  BY <3>1, <3>2, <2>1, PoolAssumption DEF NumbersSuffice
  <2> HIDE DEF n
  <2>6. /\ pCurrentTask \in Slots(p) /\ m_pTasks[p][pCurrentTask] = NoTask
        /\ m_pTasks' = [m_pTasks EXCEPT ![p][pCurrentTask] = n]
    BY <2>4 DEF Submit, InExecution
  <2>7. ASSUME NEW j \in reading' PROVE j \in InTasks'
    <3>1. CASE j = n
      <4>1. m_pTasks'[p][pCurrentTask] = n
        BY <2>1, <2>6, <1>0
      <4> QED  BY <3>1, <4>1, <2>1, <2>5, <2>6, <1>0 DEF InATask, Slots
    <3>2. CASE j # n
      <4>1. j \in InTasks
        BY <2>4, <2>7, <3>2, <1>0
      <4>2. PICK r \in UsedPools : \E k \in Slots(r) : m_pTasks[r][k] = j
        BY <4>1, <1>0 DEF InATask
      <4>3. PICK k \in Slots(r) : m_pTasks[r][k] = j
        BY <4>2
      <4>4. m_pTasks'[r][k] = j /\ j # NoTask
        BY <2>6, <4>1, <4>3, <1>0 DEF InATask
      <4> QED  BY <4>4, <1>0 DEF InATask, Slots
    <3> QED  BY <3>1, <3>2
  <2> QED  BY <2>1, <2>4, <2>7, <1>0
<1> QED  BY <1>2, <1>3, <1>4, <1>5, <1>6, <1>7 DEF JobStep

(* The failures that have happened stay.                                   *)
LEMMA SeenGrows ==
    ASSUME Typed, [Next \/ Terminated]_vars
    PROVE  seen \subseteq seen'
<1>1. CASE EncodeStep
  <2>1. CASE GetFreeTask \/ SynchronizeAll
    <3>1. CASE SyncFails("failed") \/ SyncFails("done")
      BY <3>1 DEF SyncFails, TaskHung, Fault, GpuHangRecovery
    <3> QED  BY <2>1, <3>1 DEF GetFreeTask, SynchronizeAll
  <2>2. CASE StopAtLimit \/ ReadFrame \/ EndOfFile \/ RunVpp \/ DrainVpp
    BY <2>2 DEF StopAtLimit, ReadFrame, EndOfFile, RunVpp, VppKeeps, VppOutputs, VppFails,
                   DrainVpp, Fault
  <2>3. CASE Encode \/ EncodeDrained
    BY <2>3 DEF Encode, EncodeDrained, Fault
  <2> QED  BY <1>1, <2>1, <2>2, <2>3 DEF EncodeStep
<1>2. CASE RegionStep
  <2>1. CASE RegionReadFrame \/ RegionEndOfFile \/ RegionGetFreeTask
    BY <2>1 DEF RegionReadFrame, RegionEndOfFile, RegionGetFreeTask
  <2>2. CASE RegionSynchronize
    BY <2>2 DEF RegionSynchronize, Fault
  <2>3. CASE RegionEncode \/ RegionDrain
    BY <2>3 DEF RegionEncode, RegionDrain, Fault
  <2> QED  BY <1>2, <2>1, <2>2, <2>3 DEF RegionStep
<1>3. CASE NoFreeSurface \/ EncoderBusy \/ EncoderFinishes \/ RecoverDevice \/ UNCHANGED vars
    BY <1>3 DEF NoFreeSurface, EncoderBusy, EncoderFinishes, RecoverDevice, vars, Fault
<1> QED  BY <1>1, <1>2, <1>3 DEF Next, Terminated

LEMMA SurfacesSafeStep ==
    ASSUME Typed, NothingKeptBack, SurfacesSafe, [Next \/ Terminated]_vars
    PROVE  SurfacesSafe'
<1>1. CASE RecoverDevice
    BY <1>1 DEF RecoverDevice, SurfacesSafe
<1>2. CASE ~RecoverDevice
  <2>0. JobStep /\ opt' = opt /\ seen \subseteq seen'
    BY StepIsJobStep, <1>2, SeenGrows
  <2> SUFFICES ASSUME seen' \cap {"hang", "vpp_hang"} # {} => opt.delay = 0
               PROVE  /\ reading' = locks'
                      /\ \A j \in reading' : content'[job'[j].surf] = job'[j].frame
                      /\ pc' = "vpp" => nEncSurfIdx' \in FreeSurfaces'
    BY <2>0 DEF SurfacesSafe
  <2>1. /\ reading = locks
        /\ \A j \in reading : content[job[j].surf] = job[j].frame
        /\ pc = "vpp" => nEncSurfIdx \in FreeSurfaces
    BY <2>0 DEF SurfacesSafe
  <2>2. /\ \A s \in Surfaces \ FreeSurfaces : content'[s] = content[s]
        /\ pc' = "vpp" => nEncSurfIdx' \in FreeSurfaces /\ job' = job /\ locks' \subseteq locks
    BY <1>2, <2>1, ContentSafe
  <2>3. pc' = "vpp" => nEncSurfIdx' \in FreeSurfaces'
    BY <2>2 DEF FreeSurfaces
  <2>4. \A j \in reading : j \in 1..Len(job) /\ job[j].surf \in Surfaces \ FreeSurfaces
    BY <2>1, JobFacts DEF Typed, JobTypes, FreeSurfaces
  <2>5. \A j \in reading : content'[job[j].surf] = job[j].frame
    BY <2>1, <2>2, <2>4
  <2>6. ASSUME job' = job, reading' \subseteq reading, reading' = locks'
        PROVE  /\ reading' = locks'
               /\ \A j \in reading' : content'[job'[j].surf] = job'[j].frame
    BY <2>5, <2>6
  <2>7. CASE Quiet \/ EncoderFinishes \/ JobDrained
    BY <2>1, <2>3, <2>6, <2>7 DEF Quiet, EncoderFinishes, JobDrained, DrainEncoder, encVars, lockVars
  <2>8. CASE \E p \in UsedPools : Synchronized(p)
    BY <2>1, <2>3, <2>6, <2>8 DEF Synchronized, encVars
  <2>9. CASE TasksCleared
    <3>1. reading \subseteq InTasks
      BY <2>0, <2>9 DEF TasksCleared, NothingKeptBack
    <3>2. reading' = {} /\ locks' = {} /\ job' = job
      BY <3>1, <2>9 DEF TasksCleared, encVars
    <3> QED  BY <2>3, <3>2
  <2>10. CASE FrameGiven
    <3> DEFINE n == Len(job')
               r == [frame |-> content[nEncSurfIdx], surf |-> nEncSurfIdx, pool |-> region,
                     idr |-> m_bInsertIDR \/ region \in fresh]
    <3>1. /\ \A j \in 1..Len(job) : job'[j] = job[j]
          /\ job'[n] = r
          /\ reading' = reading \cup {n} /\ locks' = locks \cup {n} /\ content' = content
      BY <2>0, <2>10, EncodeFrameTypes DEF FrameGiven, surfVars
    <3>2. r.frame = content[nEncSurfIdx] /\ r.surf = nEncSurfIdx
      OBVIOUS
    <3> HIDE DEF n, r
    <3>3. \A j \in reading' : content'[job'[j].surf] = job'[j].frame
      BY <3>1, <3>2, <2>4, <2>5
    <3> QED  BY <2>1, <2>3, <3>1, <3>3
  <2> QED  BY <2>0, <1>2, <2>7, <2>8, <2>9, <2>10 DEF JobStep
<1> QED  BY <1>1, <1>2

(* No frame is read, and no VPP output put, into a surface from which a    *)
(* frame has yet to be encoded: GetFreeSurface skips the locked ones, the  *)
(* lock lasts as long as the encoder reads, and the surface a frame was    *)
(* found for is still free when VPP is run.                                *)
THEOREM NothingOverwrittenUnencoded == Spec => []NoOverwrite
<1> DEFINE Inv == NothingKeptBack /\ SurfacesSafe
<1>1. SessionInit => Inv
  <2> SUFFICES ASSUME SessionInit PROVE Inv
    OBVIOUS
  <2>1. /\ reading = {} /\ locks = {} /\ encIn = [p \in Pools |-> <<>>]
        /\ pc = (IF opt.kind = "region" THEN "frame" ELSE "task")
    BY DEF SessionInit
  <2> QED  BY <2>1 DEF NothingKeptBack, SurfacesSafe
<1>2. Inv /\ PoolUse /\ PoolUse' /\ [Next \/ Terminated]_vars => Inv'
  <2> SUFFICES ASSUME Inv, PoolUse, PoolUse', [Next \/ Terminated]_vars PROVE Inv'
    OBVIOUS
  <2>1. IInv /\ Typed /\ Typed'
    BY DEF PoolUse
  <2>2. JobStep /\ opt' = opt
    BY <2>1, StepIsJobStep
  <2> QED  BY <2>1, <2>2, NothingKeptBackStep, SurfacesSafeStep
<1>3. Inv => NoOverwrite
    BY DEF SurfacesSafe, NoOverwrite
<1> QED  BY <1>1, <1>2, <1>3, PoolUseHolds, PTL DEF Spec

-----------------------------------------------------------------------------
(* Jobs in ascending order, none above n.                                  *)
Ascends(q, n) ==
    /\ q \in Seq(1..n)
    /\ \A i, k \in 1..Len(q) : i < k => q[i] < q[k]

Before(p, q) == \A i \in 1..Len(p), k \in 1..Len(q) : p[i] < q[k]

Ordered(a, b, c, n) ==
    /\ Ascends(a, n) /\ Ascends(b, n) /\ Ascends(c, n)
    /\ Before(a, b) /\ Before(a, c) /\ Before(b, c)

LEMMA Empties ==
    ASSUME NEW n \in Nat
    PROVE  /\ Ascends(<<>>, n)
           /\ \A q : Before(<<>>, q) /\ Before(q, <<>>)
<1> DEFINE e == <<>>
<1>1. e \in Seq(1..n) /\ Len(e) = 0
    OBVIOUS
<1> HIDE DEF e
<1>2. Ascends(e, n) /\ \A q : Before(e, q) /\ Before(q, e)
    BY <1>1 DEF Ascends, Before
<1> QED  BY <1>2 DEF e

(* A new job is after all others.                                          *)
LEMMA AppendNewest ==
    ASSUME NEW n \in Nat, NEW q, Ascends(q, n)
    PROVE  /\ Ascends(q, n + 1) /\ Ascends(Append(q, n + 1), n + 1)
           /\ \A p : Ascends(p, n) /\ Before(p, q) => Before(p, Append(q, n + 1))
<1> DEFINE r == Append(q, n + 1)
<1>1. /\ q \in Seq(1..n) /\ \A i, k \in 1..Len(q) : i < k => q[i] < q[k]
      /\ 1..n \subseteq 1..(n + 1) /\ n + 1 \in 1..(n + 1)
    BY DEF Ascends
<1>2. q \in Seq(1..(n + 1))
    BY <1>1, SeqMonotonic
<1>3. /\ r \in Seq(1..(n + 1)) /\ Len(q) \in Nat /\ Len(r) = Len(q) + 1
      /\ \A i \in 1..Len(q) : r[i] = q[i]
      /\ r[Len(q) + 1] = n + 1
    BY <1>1, <1>2, AppendElements
<1>4. \A i \in 1..Len(q) : q[i] \in 1..n
    BY <1>1, LenProperties
<1> HIDE DEF r
<1>5. Ascends(q, n + 1) /\ Ascends(r, n + 1)
  <2>1. ASSUME NEW i \in 1..Len(r), NEW k \in 1..Len(r), i < k PROVE r[i] < r[k]
    <3>1. i \in 1..Len(q) /\ q[i] \in 1..n /\ r[i] = q[i]
      BY <1>3, <1>4, <2>1
    <3>2. CASE k = Len(q) + 1
      BY <1>3, <3>1, <3>2
    <3>3. CASE k \in 1..Len(q)
      BY <1>1, <1>3, <3>1, <3>3, <2>1
    <3> QED  BY <1>3, <3>2, <3>3
  <2> QED  BY <1>1, <1>2, <1>3, <2>1 DEF Ascends
<1>6. ASSUME NEW p, Ascends(p, n), Before(p, q) PROVE Before(p, r)
  <2>1. \A i \in 1..Len(p) : p[i] \in 1..n
    BY <1>6, LenProperties DEF Ascends
  <2>2. ASSUME NEW i \in 1..Len(p), NEW k \in 1..Len(r) PROVE p[i] < r[k]
    <3>1. k \in 1..Len(q) \/ k = Len(q) + 1
      BY <1>3
    <3>2. p[i] \in 1..n
      BY <2>1
    <3> QED  BY <1>3, <1>6, <3>1, <3>2 DEF Before
  <2> QED  BY <2>2 DEF Before
<1> QED  BY <1>5, <1>6 DEF r

(* The first of q goes to the end of p.                                    *)
LEMMA MoveFirst ==
    ASSUME NEW n \in Nat, NEW p, NEW q, Ascends(p, n), Ascends(q, n), Before(p, q), q # <<>>
    PROVE  /\ Ascends(Append(p, Head(q)), n) /\ Ascends(Tail(q), n)
           /\ Before(Append(p, Head(q)), Tail(q))
           /\ \A r : Before(p, r) /\ Before(q, r) =>
                        Before(Append(p, Head(q)), r) /\ Before(Tail(q), r)
           /\ \A r : Before(r, p) /\ Before(r, q) =>
                        Before(r, Append(p, Head(q))) /\ Before(r, Tail(q))
<1> DEFINE h == Head(q)
           a == Append(p, h)
           b == Tail(q)
<1>1. p \in Seq(1..n) /\ q \in Seq(1..n)
    BY DEF Ascends
<1>2. /\ h = q[1] /\ h \in 1..n /\ b \in Seq(1..n) /\ Len(q) \in Nat \ {0} /\ Len(b) = Len(q) - 1
      /\ \A i \in 1..Len(b) : b[i] = q[i + 1]
    BY <1>1, TailElements
<1> HIDE DEF h
<1>3. /\ a \in Seq(1..n) /\ Len(p) \in Nat /\ Len(a) = Len(p) + 1
      /\ \A i \in 1..Len(p) : a[i] = p[i]
      /\ a[Len(p) + 1] = h
    BY <1>1, <1>2, AppendElements
<1>4. /\ \A i, k \in 1..Len(p) : i < k => p[i] < p[k]
      /\ \A i, k \in 1..Len(q) : i < k => q[i] < q[k]
      /\ \A i \in 1..Len(p), k \in 1..Len(q) : p[i] < q[k]
    BY DEF Ascends, Before
<1> HIDE DEF a, b
<1>5. \A i \in 1..Len(p) : p[i] < h
    BY <1>2, <1>4
<1>6. \A k \in 1..Len(b) : h < b[k] /\ k + 1 \in 1..Len(q)
    BY SMTT(40), <1>2, <1>4
<1>7. Ascends(a, n)
  <2>1. ASSUME NEW i \in 1..Len(a), NEW k \in 1..Len(a), i < k PROVE a[i] < a[k]
    <3>1. i \in 1..Len(p) /\ a[i] = p[i]
      BY <1>3, <2>1
    <3>2. CASE k = Len(p) + 1
      BY <1>3, <1>5, <3>1, <3>2
    <3>3. CASE k \in 1..Len(p)
      BY <1>3, <1>4, <3>1, <3>3, <2>1
    <3> QED  BY <1>3, <3>2, <3>3
  <2> QED  BY <1>3, <2>1 DEF Ascends
<1>8. Ascends(b, n)
  <2>1. ASSUME NEW i \in 1..Len(b), NEW k \in 1..Len(b), i < k PROVE b[i] < b[k]
    <3>1. i + 1 \in 1..Len(q) /\ k + 1 \in 1..Len(q) /\ i + 1 < k + 1
      BY <1>2, <2>1
    <3> QED  BY <1>2, <1>4, <3>1
  <2> QED  BY <1>2, <2>1 DEF Ascends
<1>9. \A i \in 1..Len(a) : i \in 1..Len(p) \/ i = Len(p) + 1
    BY <1>3
<1>10. Before(a, b)
  <2> SUFFICES ASSUME NEW i \in 1..Len(a), NEW k \in 1..Len(b) PROVE a[i] < b[k]
    BY DEF Before
  <2>1. CASE i \in 1..Len(p)
    BY <2>1, <1>2, <1>3, <1>4, <1>6
  <2>2. CASE i = Len(p) + 1
    BY <2>2, <1>3, <1>6
  <2> QED  BY <2>1, <2>2, <1>9
<1>11. 1 \in 1..Len(q)
    BY <1>2
<1>12. ASSUME NEW r, Before(p, r), Before(q, r) PROVE Before(a, r) /\ Before(b, r)
    BY <1>2, <1>3, <1>6, <1>9, <1>11, <1>12 DEF Before
<1>13. ASSUME NEW r, Before(r, p), Before(r, q) PROVE Before(r, a) /\ Before(r, b)
    BY <1>2, <1>3, <1>6, <1>9, <1>11, <1>13 DEF Before
<1> QED  BY <1>7, <1>8, <1>10, <1>12, <1>13 DEF a, b, h

LEMMA OrderedSteps ==
    ASSUME NEW n \in Nat, NEW a, NEW b, NEW c, Ordered(a, b, c, n)
    PROVE  /\ Ordered(a, b, Append(c, n + 1), n + 1)
           /\ c # <<>> => Ordered(a, Append(b, Head(c)), Tail(c), n)
           /\ b # <<>> => Ordered(Append(a, Head(b)), Tail(b), c, n)
           /\ Ordered(a, <<>>, c, n) /\ Ordered(a, <<>>, <<>>, n)
  BY Empties, AppendNewest, MoveFirst DEF Ordered

(* The order of the jobs in a pipeline with one pool: written, in the      *)
(* tasks, kept back by the encoder.                                        *)
PipelineOrder ==
    opt.kind # "region" => Ordered(delivered, QueueOf(0), encIn[0], Len(job))

(* What a step does with the jobs of a pipeline with one pool: those that  *)
(* are written, in the tasks, and kept back by the encoder.                *)
JobsStay ==
    /\ delivered' = delivered /\ QueueOf(0)' = QueueOf(0)
    /\ encIn'[0] = encIn[0] /\ job' = job

JobWritten ==
    /\ QueueOf(0) # <<>> /\ delivered' = Append(delivered, Head(QueueOf(0)))
    /\ QueueOf(0)' = Tail(QueueOf(0)) /\ encIn'[0] = encIn[0] /\ job' = job

JobStarted ==
    /\ encIn[0] # <<>> /\ QueueOf(0)' = Append(QueueOf(0), Head(encIn[0]))
    /\ encIn'[0] = Tail(encIn[0]) /\ delivered' = delivered /\ job' = job

JobsCleared ==
    /\ QueueOf(0)' = <<>> /\ encIn'[0] \in {encIn[0], <<>>}
    /\ delivered' = delivered /\ job' = job

JobAdded ==
    LET q == Append(encIn[0], Len(job) + 1) IN
      /\ Len(job') = Len(job) + 1 /\ delivered' = delivered
      /\ \/ Len(q) > opt.delay /\ QueueOf(0)' = Append(QueueOf(0), Head(q)) /\ encIn'[0] = Tail(q)
         \/ ~(Len(q) > opt.delay) /\ QueueOf(0)' = QueueOf(0) /\ encIn'[0] = q

LEMMA PipelineJobs ==
    ASSUME IInv, Typed, TaskGiven, JobStep, opt' = opt, Typed', opt.kind # "region"
    PROVE  /\ TasksCleared \/ RecoverDevice => JobsCleared
           /\ FrameGiven => JobAdded
           /\ ~(TasksCleared \/ RecoverDevice \/ FrameGiven) => JobsStay \/ JobWritten \/ JobStarted
<1> DEFINE n == Len(job)
<1>0. /\ n \in Nat /\ encIn[0] \in Seq(1..n)
      /\ UsedPools = {0} /\ 0 \in Pools /\ DOMAIN encIn = Pools
      /\ DOMAIN m_pTasks = Pools /\ DOMAIN m_nTaskBufferStart = Pools
  <2>1. UsedPools = {0} /\ 0 \in Pools
    BY OptFacts DEF Typed, ControlTypes
  <2>2. n \in Nat /\ encIn \in [Pools -> Seq(1..n)]
    BY DEF Typed, JobTypes
  <2> QED  BY <2>1, <2>2 DEF IInv, PoolTypeOK
<1> USE <1>0
<1> HIDE DEF n
<1>1. CASE Quiet \/ EncoderFinishes
  <2>1. /\ m_pTasks' = m_pTasks /\ m_nTaskBufferStart' = m_nTaskBufferStart
        /\ delivered' = delivered /\ encIn' = encIn /\ job' = job
    BY <1>1 DEF Quiet, EncoderFinishes, encVars, poolVars
  <2>2. QueueOf(0)' = QueueOf(0)
    BY <2>1, PoolUnchanged
  <2> QED  BY <2>1, <2>2 DEF JobsStay
<1>2. ASSUME \E p \in UsedPools : Synchronized(p) PROVE JobWritten
  <2>1. SynchronizeFirstTask(0) /\ encIn' = encIn /\ job' = job
    BY <1>2 DEF Synchronized, encVars
  <2>2. /\ QueueOf(0) # <<>> /\ delivered' = Append(delivered, Head(QueueOf(0)))
        /\ QueueOf(0)' = Tail(QueueOf(0))
    BY <2>1, SyncStep
  <2> QED  BY <2>1, <2>2 DEF JobWritten
<1>3. ASSUME TasksCleared \/ RecoverDevice PROVE JobsCleared
  <2>1. ClearTasks({0}) /\ job' = job /\ encIn'[0] \in {encIn[0], <<>>}
    BY <1>3 DEF TasksCleared, RecoverDevice, encVars
  <2>2. QueueOf(0)' = <<>> /\ delivered' = delivered
    BY <2>1, EmptyPool DEF ClearTasks
  <2> QED  BY <2>1, <2>2 DEF JobsCleared
<1>4. ASSUME JobDrained PROVE JobStarted
  <2>1. /\ encIn[0] # <<>> /\ Submit(0, pCurrentTask, Head(encIn[0]))
        /\ encIn'[0] = Tail(encIn[0]) /\ job' = job
    BY <1>4 DEF JobDrained, DrainEncoder
  <2>2. Head(encIn[0]) \in Jobs
    BY <1>4, DrainEncoderTypes, JobsSuffice DEF JobDrained, NumbersSuffice
  <2>3. ~Full(0) /\ pCurrentTask = GetFreeTaskIndex(0)
    BY <1>4 DEF JobDrained, TaskGiven, Holding
  <2>4. QueueOf(0)' = Append(QueueOf(0), Head(encIn[0])) /\ delivered' = delivered
    BY <2>1, <2>2, <2>3, SubmitStep DEF Submit
  <2> QED  BY <2>1, <2>4 DEF JobStarted
<1>5. ASSUME FrameGiven PROVE JobAdded
  <2> DEFINE q == Append(encIn[0], n + 1)
  <2>1. region = 0 /\ EncodeFrame(0, nEncSurfIdx)
    BY <1>5 DEF FrameGiven
  <2>2. Len(job') = n + 1
    BY <1>5, EncodeFrameTypes DEF FrameGiven, n
  <2>4. \/ Len(q) > opt.delay /\ Submit(0, pCurrentTask, Head(q)) /\ encIn'[0] = Tail(q)
        \/ ~(Len(q) > opt.delay) /\ encIn'[0] = q /\ UNCHANGED poolVars
    BY <2>1 DEF EncodeFrame, n
  <2>5. q \in Seq(1..(n + 1)) /\ q # <<>>
    <3>1. 1..n \subseteq 1..(n + 1) /\ n + 1 \in 1..(n + 1)
      OBVIOUS
    <3>2. encIn[0] \in Seq(1..(n + 1))
      BY <3>1, SeqMonotonic
    <3>3. q # <<>>
      BY AppendNonempty
    <3> QED  BY <3>1, <3>2, <3>3, AppendElements
  <2> HIDE DEF q
  <2>6. CASE Len(q) > opt.delay /\ Submit(0, pCurrentTask, Head(q)) /\ encIn'[0] = Tail(q)
    <3>1. ~Full(0) /\ pCurrentTask = GetFreeTaskIndex(0)
      BY <1>5, <2>1 DEF FrameGiven, TaskGiven, Holding
    <3>2. Head(q) \in Jobs
      <4>1. NumbersSuffice'
        BY JobsSuffice, PTL
      <4>2. Head(q) \in 1..(n + 1)
        BY <2>5, TailElements
      <4> QED  BY <4>1, <4>2, <2>2 DEF NumbersSuffice
    <3>3. QueueOf(0)' = Append(QueueOf(0), Head(q)) /\ delivered' = delivered
      BY <2>6, <3>1, <3>2, SubmitStep DEF Submit
    <3> QED  BY <2>2, <2>6, <3>3 DEF JobAdded, q, n
  <2>7. CASE ~(Len(q) > opt.delay) /\ encIn'[0] = q /\ UNCHANGED poolVars
    <3>1. QueueOf(0)' = QueueOf(0) /\ delivered' = delivered
      BY <2>7, PoolUnchanged DEF poolVars
    <3> QED  BY <2>2, <2>7, <3>1 DEF JobAdded, q, n
  <2> QED  BY <2>4, <2>6, <2>7
<1> QED  BY <1>1, <1>2, <1>3, <1>4, <1>5 DEF JobStep

LEMMA PipelineOrderStep ==
    ASSUME IInv, Typed, TaskGiven, PipelineOrder, JobStep, opt' = opt, Typed'
    PROVE  PipelineOrder'
<1> SUFFICES ASSUME opt.kind # "region"
             PROVE  Ordered(delivered', QueueOf(0)', encIn'[0], Len(job'))
    BY DEF PipelineOrder
<1>1. Len(job) \in Nat /\ Ordered(delivered, QueueOf(0), encIn[0], Len(job))
    BY DEF PipelineOrder, Typed, JobTypes
<1>2. JobsStay \/ JobWritten \/ JobStarted \/ JobsCleared \/ JobAdded
    BY PipelineJobs
<1>3. CASE JobsStay \/ JobWritten \/ JobStarted \/ JobsCleared
    BY <1>1, <1>3, OrderedSteps DEF JobsStay, JobWritten, JobStarted, JobsCleared
<1>4. CASE JobAdded
  <2>1. PICK q : q = Append(encIn[0], Len(job) + 1)
    OBVIOUS
  <2>2. Ordered(delivered, QueueOf(0), q, Len(job) + 1) /\ Len(job) + 1 \in Nat /\ q # <<>>
    <3>1. encIn[0] \in Seq(1..Len(job))
      BY <1>1 DEF Ordered, Ascends
    <3>2. q # <<>>
      BY <2>1, <3>1, AppendNonempty
    <3>3. Ordered(delivered, QueueOf(0), q, Len(job) + 1) /\ Len(job) + 1 \in Nat
      BY <1>1, <2>1, OrderedSteps
    <3> QED  BY <3>2, <3>3
  <2> QED  BY <1>4, <2>1, <2>2, OrderedSteps DEF JobAdded
<1> QED  BY <1>2, <1>3, <1>4

-----------------------------------------------------------------------------
(* The region pipeline.  Its pools have one task each; those in execution  *)
(* are always of neighbouring regions, and hold the jobs in the order of   *)
(* the regions.                                                            *)
Busy(p) == InExecution(p, 0)

RegionsBusy(a, b) == \A p \in Regions : Busy(p) <=> a <= p /\ p < b

NothingPassedOver == seen \cap {"encode_failed", "device", "timeout"} = {}

RegionShape ==
    /\ pc # "device"
    /\ pc = "frame" => RegionsBusy(1, 1) \/ RegionsBusy(1, LastRegion + 1)
    /\ pc \in {"task", "encode"} =>
          \/ RegionsBusy(1, IF phase = "main" THEN region ELSE 1)
          \/ pc = "task" /\ region = 1 /\ RegionsBusy(1, LastRegion + 1)
    /\ pc = "rsync" => region = 1 /\ RegionsBusy(syncing, LastRegion + 1)
    /\ pc = "retry" => region = 1 /\ RegionsBusy(1, 1)

RegionJobs ==
    /\ Ascends(delivered, Len(job))
    /\ \A p \in Regions : Busy(p) =>
          /\ m_pTasks[p][0] \in 1..Len(job)
          /\ \A i \in 1..Len(delivered) : delivered[i] < m_pTasks[p][0]
          /\ \A q \in Regions : Busy(q) /\ p < q => m_pTasks[p][0] < m_pTasks[q][0]

RegionOrder == opt.kind = "region" /\ NothingPassedOver => RegionShape /\ RegionJobs

LEMMA RegionPoolFacts ==
    ASSUME IInv, NEW p \in Regions
    PROVE  /\ Slots(p) = {0} /\ m_nTaskBufferStart[p] = 0 /\ p \in Pools
           /\ m_pTasks[p] \in [{0} -> Jobs \cup {NoTask}]
           /\ Full(p) <=> Busy(p)
<1>1. p \in Pools /\ PoolSize[p] = 1 /\ PoolTypeOK
    BY PoolFacts DEF Regions, IInv
<1>2. Slots(p) = {0}
    BY <1>1 DEF Slots
<1>3. m_nTaskBufferStart[p] = 0 /\ m_pTasks[p] \in [{0} -> Jobs \cup {NoTask}]
    BY <1>1, <1>2 DEF PoolTypeOK
<1>4. PICK n \in 0..PoolSize[p] : RunOfTasks(p, n)
    BY <1>1 DEF IInv, RingIsContiguous
<1>5. At(p, 0) = 0
    BY <1>1, <1>3, AtFacts
<1>6. Busy(p) <=> 0 < n
    BY <1>2, <1>4, <1>5 DEF RunOfTasks, Busy
<1>7. n = PoolSize[p] => Full(p)
    BY <1>1, <1>4, FreeIndex
<1>8. n < PoolSize[p] => ~Full(p)
    BY <1>1, <1>4, FreeIndex
<1> QED  BY <1>1, <1>2, <1>3, <1>4, <1>6, <1>7, <1>8

(* Tasks that stay, under jobs that stay.                                  *)
LEMMA RegionStays ==
    ASSUME RegionJobs, UNCHANGED poolVars, job' = job
    PROVE  RegionJobs' /\ \A a, b : RegionsBusy(a, b)' <=> RegionsBusy(a, b)
<1>1. \A p : Busy(p)' <=> Busy(p)
    BY DEF poolVars, Busy, InExecution
<1> QED  BY <1>1 DEF RegionJobs, RegionsBusy, poolVars, Ascends

(* The task of region s, the oldest in execution, is synchronized.         *)
LEMMA RegionSynchronized ==
    ASSUME IInv, RegionJobs, NEW s \in Regions, RegionsBusy(s, LastRegion + 1),
           SynchronizeFirstTask(s), job' = job, Len(job) \in Nat
    PROVE  RegionJobs' /\ RegionsBusy(s + 1, LastRegion + 1)'
<1> DEFINE j == m_pTasks[s][0]
           n == Len(job)
<1>0. LastRegion \in Nat /\ Regions = 1..LastRegion /\ DOMAIN m_pTasks = Pools /\ 0 \in {0}
    BY PoolFacts DEF IInv, PoolTypeOK
<1>1. /\ Busy(s) /\ delivered' = Append(delivered, j) /\ s \in Pools
      /\ m_pTasks' = [m_pTasks EXCEPT ![s][0] = NoTask]
    BY RegionPoolFacts DEF SynchronizeFirstTask, Busy
<1>2. \A p \in Regions : p \in Pools /\ m_pTasks[p] \in [{0} -> Jobs \cup {NoTask}]
    BY RegionPoolFacts
<1>3. /\ m_pTasks'[s][0] = NoTask
      /\ \A p \in Regions : p # s => m_pTasks'[p] = m_pTasks[p]
    BY <1>0, <1>1, <1>2
<1>4. ~Busy(s)' /\ \A p \in Regions : p # s => (Busy(p)' <=> Busy(p))
    BY <1>3 DEF Busy, InExecution
<1>5. RegionsBusy(s + 1, LastRegion + 1)'
    BY <1>0, <1>4 DEF RegionsBusy
<1>6. /\ Ascends(delivered, n) /\ j \in 1..n
      /\ \A i \in 1..Len(delivered) : delivered[i] < j
      /\ \A p \in Regions : Busy(p) =>
          /\ m_pTasks[p][0] \in 1..n
          /\ \A i \in 1..Len(delivered) : delivered[i] < m_pTasks[p][0]
          /\ \A q \in Regions : Busy(q) /\ p < q => m_pTasks[p][0] < m_pTasks[q][0]
    BY <1>1 DEF RegionJobs
<1> HIDE DEF j, n
<1>7. /\ delivered' \in Seq(1..n) /\ Len(delivered) \in Nat /\ Len(delivered') = Len(delivered) + 1
      /\ \A i \in 1..Len(delivered) : delivered'[i] = delivered[i] /\ delivered[i] \in 1..n
      /\ delivered'[Len(delivered) + 1] = j
  <2>1. delivered \in Seq(1..n)
    BY <1>6 DEF Ascends
  <2>2. \A i \in 1..Len(delivered) : delivered[i] \in 1..n
    BY <2>1, LenProperties
  <2> QED  BY <1>1, <1>6, <2>1, <2>2, AppendElements
<1>8. Ascends(delivered', n)
  <2>1. ASSUME NEW i \in 1..Len(delivered'), NEW k \in 1..Len(delivered'), i < k
        PROVE  delivered'[i] < delivered'[k]
    <3>1. i \in 1..Len(delivered) /\ delivered'[i] = delivered[i]
      BY <1>7, <2>1
    <3>2. CASE k = Len(delivered) + 1
      BY <1>6, <1>7, <3>1, <3>2
    <3>3. CASE k \in 1..Len(delivered)
      BY <1>6, <1>7, <3>1, <3>3, <2>1 DEF Ascends
    <3> QED  BY <1>7, <3>2, <3>3
  <2> QED  BY <1>7, <2>1 DEF Ascends
<1>9. ASSUME NEW p \in Regions, Busy(p)'
      PROVE  /\ m_pTasks'[p][0] \in 1..n
             /\ \A i \in 1..Len(delivered') : delivered'[i] < m_pTasks'[p][0]
             /\ \A q \in Regions : Busy(q)' /\ p < q => m_pTasks'[p][0] < m_pTasks'[q][0]
  <2>1. p # s /\ Busy(p) /\ m_pTasks'[p] = m_pTasks[p]
    BY <1>3, <1>4, <1>9
  <2>2. s < p
    BY <1>0, <2>1 DEF RegionsBusy
  <2>3. j < m_pTasks[p][0]
    BY <1>1, <1>6, <2>1, <2>2 DEF j, RegionJobs
  <2>4. \A i \in 1..Len(delivered') : delivered'[i] < m_pTasks[p][0]
    <3>1. \A i \in 1..Len(delivered') : i \in 1..Len(delivered) \/ i = Len(delivered) + 1
      BY <1>7
    <3> QED  BY <1>6, <1>7, <2>1, <2>3, <3>1
  <2>5. ASSUME NEW q \in Regions, Busy(q)', p < q PROVE m_pTasks'[p][0] < m_pTasks'[q][0]
    BY <1>3, <1>4, <1>6, <2>1, <2>5
  <2> QED  BY <1>6, <2>1, <2>4, <2>5
<1>10. RegionJobs'
    BY <1>8, <1>9 DEF RegionJobs, n
<1> QED  BY <1>5, <1>10

(* The task of region r, the first not in execution, gets the new job.     *)
LEMMA RegionGiven ==
    ASSUME IInv, RegionJobs, NEW r \in Regions, RegionsBusy(1, r), Len(job) \in Nat,
           Submit(r, pCurrentTask, Len(job) + 1), Len(job') = Len(job) + 1,
           Len(job) + 1 # NoTask
    PROVE  RegionJobs' /\ RegionsBusy(1, r + 1)'
<1> DEFINE n == Len(job)
<1>0. LastRegion \in Nat /\ Regions = 1..LastRegion /\ DOMAIN m_pTasks = Pools /\ n \in Nat
    BY PoolFacts DEF IInv, PoolTypeOK
<1>1. /\ pCurrentTask = 0 /\ delivered' = delivered /\ r \in Pools
      /\ m_pTasks' = [m_pTasks EXCEPT ![r][0] = n + 1]
    BY ZenonT(60), RegionPoolFacts DEF Submit
<1>2. \A p \in Regions : p \in Pools /\ m_pTasks[p] \in [{0} -> Jobs \cup {NoTask}]
    BY RegionPoolFacts
<1>3. /\ m_pTasks'[r][0] = n + 1
      /\ \A p \in Regions : p # r => m_pTasks'[p] = m_pTasks[p]
    BY <1>0, <1>1, <1>2
<1>4. Busy(r)' /\ \A p \in Regions : p # r => (Busy(p)' <=> Busy(p))
    BY <1>3 DEF Busy, InExecution
<1>5. RegionsBusy(1, r + 1)'
    BY <1>0, <1>4 DEF RegionsBusy
<1>6. /\ Ascends(delivered, n)
      /\ \A p \in Regions : Busy(p) =>
          /\ m_pTasks[p][0] \in 1..n
          /\ \A i \in 1..Len(delivered) : delivered[i] < m_pTasks[p][0]
          /\ \A q \in Regions : Busy(q) /\ p < q => m_pTasks[p][0] < m_pTasks[q][0]
    BY DEF RegionJobs
<1> HIDE DEF n
<1>7. Ascends(delivered, n + 1)
    BY <1>0, <1>6, AppendNewest
<1>8. \A i \in 1..Len(delivered) : delivered[i] \in 1..n
    BY <1>6, LenProperties DEF Ascends
<1>9. ASSUME NEW p \in Regions, Busy(p)'
      PROVE  /\ m_pTasks'[p][0] \in 1..(n + 1)
             /\ \A i \in 1..Len(delivered) : delivered[i] < m_pTasks'[p][0]
             /\ \A q \in Regions : Busy(q)' /\ p < q => m_pTasks'[p][0] < m_pTasks'[q][0]
  <2>1. CASE p = r
    <3>1. \A q \in Regions : Busy(q)' => ~(p < q)
      BY <1>0, <1>5, <2>1 DEF RegionsBusy
    <3> QED  BY <1>0, <1>3, <1>8, <2>1, <3>1
  <2>2. CASE p # r
    <3>1. Busy(p) /\ m_pTasks'[p] = m_pTasks[p] /\ m_pTasks[p][0] \in 1..n
      BY <1>3, <1>4, <1>6, <1>9, <2>2
    <3>2. ASSUME NEW q \in Regions, Busy(q)', p < q PROVE m_pTasks'[p][0] < m_pTasks'[q][0]
      <4>1. CASE q = r
        BY <1>0, <1>3, <3>1, <4>1
      <4>2. CASE q # r
        BY <1>3, <1>4, <1>6, <3>1, <3>2, <4>2
      <4> QED  BY <4>1, <4>2
    <3> QED  BY <1>0, <1>6, <3>1, <3>2
  <2> QED  BY <2>1, <2>2
<1>10. RegionJobs'
    BY <1>1, <1>7, <1>9 DEF RegionJobs, n
<1> QED  BY <1>5, <1>10

LEMMA RegionOrderStep ==
    ASSUME IInv, Typed, NothingKeptBack, RegionOrder, [Next \/ Terminated]_vars, Typed'
    PROVE  RegionOrder'
<1>0. opt' = opt /\ seen \subseteq seen'
    BY StepIsJobStep, SeenGrows
<1> SUFFICES ASSUME opt.kind = "region", NothingPassedOver' PROVE RegionShape' /\ RegionJobs'
    BY <1>0 DEF RegionOrder
<1>1. /\ RegionShape /\ RegionJobs
      /\ \A f \in {"encode_failed", "device", "timeout"} : ~Fault(f)
    BY <1>0 DEF RegionOrder, NothingPassedOver, Fault
<1>2. /\ LastRegion \in Nat /\ LastRegion >= 1 /\ Regions = 1..LastRegion /\ Len(job) \in Nat
      /\ UsedPools = Regions /\ opt.delay = 0
      /\ InTheLoop => region \in Regions
      /\ pc = "rsync" => syncing \in Regions
  <2>1. LastRegion >= 1 /\ UsedPools = Regions /\ opt.delay = 0
    BY OptFacts DEF Typed, ControlTypes
  <2> QED  BY <2>1, PoolFacts DEF Typed, JobTypes, RegionControl
<1>3. ASSUME UNCHANGED <<poolVars, job>> 
      PROVE  RegionJobs' /\ \A a, b : (RegionsBusy(a, b)' <=> RegionsBusy(a, b))
    BY <1>1, <1>3, RegionStays
<1> USE DEF loopVars, inVars, surfVars, encVars, lockVars
<1>4. CASE RegionStep
  <2>1. CASE RegionReadFrame
    <3>1. /\ pc = "frame" /\ pc' = "task" /\ region' = 1 /\ UNCHANGED <<phase, job, poolVars>>
      BY <2>1 DEF RegionReadFrame, FirstRegion
    <3> QED  BY <1>1, <1>3, <3>1 DEF RegionShape
  <2>2. CASE RegionEndOfFile
    <3>1. /\ pc = "frame" /\ UNCHANGED <<job, poolVars>>
          /\ \/ pc' = "frame"
             \/ pc' = "task" /\ region' = 1 /\ phase' = "enc_drain"
      BY <2>2 DEF RegionEndOfFile, FirstRegion, Rewind
    <3> QED  BY <1>1, <1>3, <3>1 DEF RegionShape
  <2>3. CASE RegionGetFreeTask
    <3>1. /\ pc \in {"task", "retry"} /\ UNCHANGED <<job, poolVars, phase, region>> /\ region \in Regions
          /\ \/ ~Busy(region) /\ pc' = "encode"
             \/ Busy(region) /\ pc = "task" /\ pc' = "rsync" /\ syncing' = 1
             \/ pc' = "failed"
      <4>1. region \in Regions
        BY <1>2, <2>3 DEF RegionGetFreeTask, InTheLoop
      <4>2. Full(region) <=> Busy(region)
        BY <4>1, RegionPoolFacts
      <4> QED  BY <4>1, <4>2, <2>3 DEF RegionGetFreeTask, FirstRegion
    <3>2. RegionsBusy(1, region) => ~Busy(region)
      BY <1>2, <3>1 DEF RegionsBusy
    <3>3. RegionsBusy(1, 1) => ~Busy(region)
      BY <1>2, <3>1 DEF RegionsBusy
    <3>4. RegionsBusy(1, LastRegion + 1) => Busy(region)
      BY <1>2, <3>1 DEF RegionsBusy
    <3>5. RegionJobs' /\ \A a, b : RegionsBusy(a, b)' <=> RegionsBusy(a, b)
      BY <1>3, <3>1
    <3>6. CASE pc = "task"
      BY <1>1, <3>1, <3>2, <3>3, <3>4, <3>5, <3>6 DEF RegionShape
    <3>7. CASE pc = "retry"
      BY <1>1, <3>1, <3>2, <3>3, <3>4, <3>5, <3>7 DEF RegionShape
    <3> QED  BY <3>1, <3>6, <3>7
  <2>4. CASE RegionSynchronize
    <3>0. /\ pc = "rsync" /\ region = 1 /\ region' = region /\ job' = job /\ syncing \in Regions
          /\ RegionsBusy(syncing, LastRegion + 1)
      BY <1>1, <1>2, <2>4 DEF RegionSynchronize, RegionShape
    <3>1. CASE SyncSucceeds(syncing, file) /\ NextPool
      <4>0. PICK s \in Regions : s = syncing
        BY <3>0
      <4>1. RegionJobs' /\ RegionsBusy(s + 1, LastRegion + 1)'
        <5>1. SynchronizeFirstTask(s) /\ RegionsBusy(s, LastRegion + 1)
          BY <3>0, <3>1, <4>0 DEF SyncSucceeds
        <5> QED  BY <1>1, <1>2, <3>0, <5>1, RegionSynchronized
      <4>2. \/ pc' = "rsync" /\ syncing' = s + 1
            \/ pc' = "retry" /\ s = LastRegion
        BY <3>1, <4>0 DEF NextPool
      <4>3. CASE pc' = "rsync" /\ syncing' = s + 1
        <5>1. RegionsBusy(syncing, LastRegion + 1)'
          BY <4>1, <4>3 DEF RegionsBusy
        <5> QED  BY <4>1, <4>3, <5>1, <3>0 DEF RegionShape
      <4>4. CASE pc' = "retry" /\ s = LastRegion
        <5>1. RegionsBusy(1, 1)'
          BY <1>2, <4>1, <4>4 DEF RegionsBusy
        <5> QED  BY <4>1, <4>4, <5>1, <3>0 DEF RegionShape
      <4> QED  BY <4>2, <4>3, <4>4
    <3>2. CASE pc' = "failed" /\ UNCHANGED poolVars
      BY <1>3, <3>0, <3>2 DEF RegionShape
    <3> QED  BY <1>1, <2>4, <3>1, <3>2 DEF RegionSynchronize
  <2>5. CASE RegionEncode
    <3>0. /\ pc = "encode" /\ phase = "main" /\ phase' = phase /\ region \in Regions
          /\ RegionsBusy(1, region)
      BY <1>1, <1>2, <2>5 DEF RegionEncode, RegionShape, InTheLoop
    <3>1. EncodeFrame(region, nEncSurfIdx) /\ NextRegion("frame")
      BY <1>1, <2>5 DEF RegionEncode
    <3>2. /\ region \in Pools /\ encIn[region] = <<>>
      BY <1>2, <3>0, OptFacts DEF NothingKeptBack, Typed, ControlTypes
    <3>3. Submit(region, pCurrentTask, Len(job) + 1) /\ Len(job') = Len(job) + 1
      <4> DEFINE n == Len(job) + 1
                 q == Append(encIn[region], n)
      <4>1. Len(q) = 1 /\ Head(q) = n
        BY <3>2
      <4>2. Len(q) > opt.delay
        BY <4>1, <1>2
      <4>3. Submit(region, pCurrentTask, Head(q))
        <5> HIDE DEF n
        <5> QED  BY <3>1, <4>2 DEF EncodeFrame, n
      <4>4. Len(job') = n
        BY <1>0, <1>2, <3>0, <3>1, EncodeFrameTypes DEF Typed, JobTypes
      <4> HIDE DEF q
      <4> QED  BY <4>1, <4>3, <4>4
    <3>4. Len(job) + 1 # NoTask
      <4>1. NumbersSuffice'
        BY JobsSuffice, PTL
      <4> QED  BY <4>1, <1>2, <3>3, PoolAssumption DEF NumbersSuffice
    <3> PICK r \in Regions : r = region
      BY <3>0
    <3>5. RegionJobs' /\ RegionsBusy(1, r + 1)'
      <4>1. RegionsBusy(1, r) /\ Submit(r, pCurrentTask, Len(job) + 1)
        BY <3>0, <3>3
      <4> QED  BY <1>1, <1>2, <3>3, <3>4, <4>1, RegionGiven
    <3>6. \/ region = LastRegion /\ region' = 1 /\ pc' = "frame"
          \/ region' = region + 1 /\ pc' = "task"
      BY <3>1 DEF NextRegion, FirstRegion
    <3>7. region = LastRegion => RegionsBusy(1, LastRegion + 1)'
      BY <3>5 DEF RegionsBusy
    <3>8. region' = region + 1 => RegionsBusy(1, region)'
      BY <3>5 DEF RegionsBusy
    <3> QED  BY <3>0, <3>5, <3>6, <3>7, <3>8 DEF RegionShape
  <2>6. CASE RegionDrain
    <3>1. /\ pc = "encode" /\ phase = "enc_drain" /\ phase' = phase /\ UNCHANGED <<job, poolVars>>
          /\ pc' \in {"done", "failed", "task"}
      BY <1>1, <2>6 DEF RegionDrain, NextRegion
    <3> QED  BY <1>1, <1>3, <3>1 DEF RegionShape
  <2> QED  BY <1>4, <2>1, <2>2, <2>3, <2>4, <2>5, <2>6 DEF RegionStep
<1>5. CASE NoFreeSurface \/ EncoderBusy \/ EncoderFinishes \/ UNCHANGED vars
  <2>1. UNCHANGED <<job, poolVars, region, phase, syncing>> /\ pc' \in {pc, "failed"}
    BY <1>5 DEF NoFreeSurface, EncoderBusy, EncoderFinishes, vars
  <2>2. RegionJobs' /\ \A a, b : RegionsBusy(a, b)' <=> RegionsBusy(a, b)
    BY <2>1, <1>3
  <2>3. LastRegion' = LastRegion
    BY DEF LastRegion
  <2> QED  BY <1>1, <2>1, <2>2, <2>3 DEF RegionShape
<1>6. CASE RecoverDevice
    BY <1>1, <1>6 DEF RecoverDevice, RegionShape
<1>7. CASE EncodeStep
    BY <1>7 DEF EncodeStep
<1> QED  BY <1>4, <1>5, <1>6, <1>7 DEF Next, Terminated

(* Where the jobs are, and in which order.                                 *)
JobsOrder == NothingKeptBack /\ PipelineOrder /\ RegionOrder

LEMMA OrderHolds == Spec => []JobsOrder
<1>1. SessionInit => JobsOrder
  <2> SUFFICES ASSUME SessionInit PROVE JobsOrder
    OBVIOUS
  <2> DEFINE e == <<>>
  <2>1. /\ reading = {} /\ encIn = [p \in Pools |-> e] /\ job = e /\ PoolInit
        /\ opt \in Configurations
        /\ pc = (IF opt.kind = "region" THEN "frame" ELSE "task")
    BY DEF SessionInit
  <2>2. m_pTasks = [p \in Pools |-> [i \in Slots(p) |-> NoTask]] /\ delivered = e
    BY <2>1 DEF PoolInit
  <2>3. Len(e) = 0
    OBVIOUS
  <2> HIDE DEF e
  <2>4. NothingKeptBack
    BY <2>1 DEF NothingKeptBack, e
  <2>5. Ascends(e, 0) /\ \A q : Before(e, q) /\ Before(q, e)
    BY Empties DEF e
  <2>6. 0 \in Pools
    BY PoolFacts
  <2>7. QueueOf(0) = e
    <3>1. IInv /\ TaskQueue!Init
      BY <2>1, InitHolds
    <3> QED  BY <3>1, <2>6 DEF TaskQueue!Init, e
  <2>8. PipelineOrder
    BY <2>1, <2>2, <2>3, <2>5, <2>6, <2>7 DEF PipelineOrder, Ordered
  <2>9. \A p \in Regions : ~Busy(p)
    <3>1. \A p \in Regions : p \in Pools /\ Slots(p) = {0}
      BY PoolFacts DEF Slots, Regions
    <3> QED  BY <2>2, <3>1 DEF Busy, InExecution
  <2>10. RegionOrder
    BY <2>1, <2>2, <2>3, <2>5, <2>9, PoolFacts DEF RegionOrder, RegionShape, RegionJobs, RegionsBusy
  <2> QED  BY <2>4, <2>8, <2>10 DEF JobsOrder
<1>2. JobsOrder /\ PoolUse /\ PoolUse' /\ [Next \/ Terminated]_vars => JobsOrder'
  <2> SUFFICES ASSUME JobsOrder, PoolUse, PoolUse', [Next \/ Terminated]_vars PROVE JobsOrder'
    OBVIOUS
  <2>1. IInv /\ Typed /\ TaskGiven /\ Typed'
    BY DEF PoolUse
  <2>2. JobStep /\ opt' = opt
    BY <2>1, StepIsJobStep
  <2> QED  BY <2>1, <2>2, NothingKeptBackStep, PipelineOrderStep, RegionOrderStep DEF JobsOrder
<1> QED  BY <1>1, <1>2, PoolUseHolds, PTL DEF Spec

(* Bitstreams are written in the order their frames were given to the      *)
(* encoder, and none twice, through full pools, drains, hangs and lost     *)
(* devices, and in the order of the regions when no region was passed      *)
(* over.                                                                   *)
THEOREM WrittenInOrder == Spec => []BitstreamsInOrder
<1>1. JobsOrder /\ PoolUse => BitstreamsInOrder
  <2> SUFFICES ASSUME JobsOrder, PoolUse,
                      opt.kind = "region" => seen \cap {"encode_failed", "device", "timeout"} = {}
               PROVE  \A i, k \in DOMAIN delivered : i < k => delivered[i] < delivered[k]
    BY DEF BitstreamsInOrder
  <2>1. Ascends(delivered, Len(job))
    BY DEF JobsOrder, PipelineOrder, RegionOrder, RegionJobs, NothingPassedOver, Ordered
  <2>2. DOMAIN delivered = 1..Len(delivered)
    BY DEF PoolUse, IInv, PoolTypeOK
  <2> QED  BY <2>1, <2>2 DEF Ascends
<1> QED  BY <1>1, OrderHolds, PoolUseHolds, PTL

-----------------------------------------------------------------------------
(* Two views.  The encoder is given the views in turn and the tasks belong *)
(* to the writers in turn, so a bitstream goes to the right file as long   *)
(* as the n-th job is put into a task of the parity of n.  The start moves *)
(* to the next task each time, because GetFreeTask synchronizes only a     *)
(* full pool, which has two tasks at least.                                *)
Alike(a, b) == a % 2 = b % 2

TwoFiles == opt.views = 2 /\ seen \cap {"hang", "device"} = {}

\* the parity of the next task and of the next job
StartInTurn ==
    pc \notin {"sync"} \cup Ended =>
        Alike(m_nTaskBufferStart[0] + NumInExecution(0) + Len(encIn[0]), Len(job))

JobsInTurn ==
    /\ \A j \in 1..Len(job) : job[j].frame # 0 /\ Alike(job[j].frame, j)
    /\ \A k \in 1..Len(encIn[0]) : encIn[0][k] = Len(job) - Len(encIn[0]) + k
    /\ \A i \in Slots(0) : InExecution(0, i) =>
           m_pTasks[0][i] \in 1..Len(job) /\ Alike(m_pTasks[0][i], i + 1)

FramesInTurn ==
    /\ phase # "vpp_drain" /\ pc # "device"
    /\ phase = "main" /\ pc \in {"task", "frame"} => Alike(pos, Len(job))
    /\ phase = "main" /\ pc = "encode" =>
           content[nEncSurfIdx] = pos /\ pos # 0 /\ Alike(pos, Len(job) + 1)

FilesInTurn ==
    /\ file \in [{1, 2} -> Seq(1..Len(job))]
    /\ \A w \in {1, 2} : \A k \in 1..Len(file[w]) : Alike(file[w][k], w)

InTurn == TwoFiles => StartInTurn /\ JobsInTurn /\ FramesInTurn /\ FilesInTurn

LEMMA TwoFilesFacts ==
    ASSUME opt \in Configurations, opt.views = 2
    PROVE  /\ opt.kind = "encode" /\ ~opt.vpp /\ 0 \in Pools /\ UsedPools = {0}
           /\ PoolSize[0] \in Nat \ {0} /\ PoolSize[0] % 2 = 0
           /\ NumFrames \in Nat \ {0} /\ NumFrames % 2 = 0
<1>1. 0 \in Pools /\ PoolSize[0] \in Nat \ {0} /\ NumFrames \in Nat \ {0}
    BY PoolFacts
<1>2. opt.kind # "encode" => opt.views = 1
    BY SessionAssumption
<1>3. PoolSize[0] % 2 = 0 /\ NumFrames % 2 = 0 /\ ~opt.vpp
    BY SessionAssumption
<1> QED  BY <1>1, <1>2, <1>3 DEF UsedPools

(* In a ring of an even number of tasks the tasks alternate all the way    *)
(* round.                                                                  *)
LEMMA RingAlternates ==
    ASSUME NEW n \in Nat \ {0}, n % 2 = 0, NEW s \in 0..(n - 1), NEW k \in 0..n
    PROVE  Alike((s + k) % n, s + k) /\ (s + k) % n \in 0..(n - 1)
<1>1. (s + k) % n = Around(n, s, k) /\ Around(n, s, k) \in 0..(n - 1)
    BY ModAround
<1>2. CASE s + k < n
    BY <1>1, <1>2 DEF Around, Alike
<1>3. CASE ~ (s + k < n)
  <2>1. (s + k) % n = s + k - n
    BY <1>1, <1>3 DEF Around
  <2>2. (s + k - n) % 2 = (s + k) % 2
    BY <1>3
  <2> QED  BY <1>1, <2>1, <2>2 DEF Alike
<1> QED  BY <1>2, <1>3

(* The length of the run after the two steps of the ring.                  *)
LEMMA SubmittedRun ==
    ASSUME IInv, NEW p \in Pools, NEW j \in Jobs, ~Full(p), Submit(p, GetFreeTaskIndex(p), j)
    PROVE  /\ NumInExecution(p) \in 0..(PoolSize[p] - 1)
           /\ GetFreeTaskIndex(p) = At(p, NumInExecution(p))
           /\ NumInExecution(p)' = NumInExecution(p) + 1
<1> DEFINE n == NumInExecution(p)
<1>1. n \in 0..PoolSize[p] /\ RunOfTasks(p, n) /\ PoolTypeOK
    BY InvRun DEF IInv
<1>2. PoolSize[p] \in Nat \ {0}
    BY <1>1, SizeFacts
<1> HIDE DEF n
<1>3. n < PoolSize[p] /\ GetFreeTaskIndex(p) = At(p, n)
    BY <1>1, <1>2, FreeIndex
<1>4. PICK m \in 0..PoolSize[p] : RunOfTasks(p, m)'
    BY SubmitStep
<1>5. NumInExecution(p)' = m
    BY <1>4, RunLengthNext
<1>6. QueueOf(p)' = Append(QueueOf(p), j)
    BY SubmitStep
<1>7. QueueOf(p)' = [k \in 1..m |-> m_pTasks'[p][At(p, k - 1)']] /\ Len(QueueOf(p)') = m
    BY <1>2, <1>4, <1>5 DEF QueueOf
<1>8. QueueOf(p) \in Seq(Jobs \cup {NoTask}) /\ Len(QueueOf(p)) = n
  <2>1. \A k \in 1..n : k - 1 \in 0..PoolSize[p]
    BY <1>1, <1>2
  <2>2. \A k \in 1..n : m_pTasks[p][At(p, k - 1)] \in Jobs \cup {NoTask}
    BY <1>1, <2>1, AtFacts, SizeFacts
  <2> QED  BY <1>1, <1>2, <2>2 DEF QueueOf, n
<1>9. Len(Append(QueueOf(p), j)) = n + 1
  <2> DEFINE S == Jobs \cup {NoTask}
  <2>1. QueueOf(p) \in Seq(S) /\ j \in S
    BY <1>8
  <2> HIDE DEF S
  <2> QED  BY <1>8, <2>1, AppendElements
<1> QED  BY <1>1, <1>2, <1>3, <1>5, <1>6, <1>7, <1>9 DEF n

LEMMA SynchronizedRun ==
    ASSUME IInv, NEW p \in Pools, Full(p), PoolSize[p] > 1, SynchronizeFirstTask(p)
    PROVE  /\ NumInExecution(p) = PoolSize[p] /\ NumInExecution(p)' = PoolSize[p] - 1
           /\ m_nTaskBufferStart'[p] = At(p, 1)
<1> DEFINE n == NumInExecution(p)
<1>1. n \in 0..PoolSize[p] /\ RunOfTasks(p, n) /\ PoolTypeOK
    BY InvRun DEF IInv
<1>2. PoolSize[p] \in Nat \ {0}
    BY <1>1, SizeFacts
<1> HIDE DEF n
<1>3. n = PoolSize[p]
    BY <1>1, <1>2, FreeIndex
<1>4. m_nTaskBufferStart'[p] = At(p, 1)
  <2>1. NextStart(p) = At(p, 1)
    BY <1>1, <1>2, <1>3, NextStartIs
  <2> QED  BY <1>1, <2>1 DEF SynchronizeFirstTask, PoolTypeOK
<1>5. PICK m \in 0..PoolSize[p] : RunOfTasks(p, m)'
    BY SyncStep
<1>6. NumInExecution(p)' = m
    BY <1>5, RunLengthNext
<1>7. QueueOf(p)' = Tail(QueueOf(p)) /\ QueueOf(p) # <<>>
    BY SyncStep
<1>8. Len(QueueOf(p)') = m
    BY <1>2, <1>5, <1>6 DEF QueueOf
<1>9. QueueOf(p) \in Seq(Jobs \cup {NoTask}) /\ Len(QueueOf(p)) = n
  <2>1. \A k \in 1..n : k - 1 \in 0..PoolSize[p]
    BY <1>1, <1>2
  <2>2. \A k \in 1..n : m_pTasks[p][At(p, k - 1)] \in Jobs \cup {NoTask}
    BY <1>1, <2>1, AtFacts, SizeFacts
  <2> QED  BY <1>1, <1>2, <2>2 DEF QueueOf, n
<1>10. Len(Tail(QueueOf(p))) = n - 1
    BY <1>7, <1>9, TailElements
<1> QED  BY <1>3, <1>4, <1>6, <1>7, <1>8, <1>10 DEF n

(* What a step may be when there are two files and nothing is cleared: the *)
(* tasks stay, a frame is given to the encoder, a frame it kept back is    *)
(* put into a task, or the oldest task is synchronized.                    *)
FileTurn == file' \in {file, WritersReset} /\ UNCHANGED <<encVars, poolVars>>

FrameTurn ==
    /\ pc = "encode" /\ phase = "main" /\ pc' = "task"
    /\ EncodeFrame(0, nEncSurfIdx) /\ file' = file

DrainTurn == pc = "encode" /\ pc' = "task" /\ DrainEncoder(0) /\ file' = file

SyncTurn ==
    /\ (pc = "task" /\ Full(0)) \/ pc = "sync"
    /\ \E f \in {file, WritersReset} : SyncSucceeds(0, f)
    /\ pc' = pc /\ UNCHANGED encVars

LEMMA TwoFilesTurn ==
    ASSUME Typed, InTurn, TwoFiles', [Next \/ Terminated]_vars
    PROVE  /\ TwoFiles /\ StartInTurn /\ JobsInTurn /\ FramesInTurn /\ FilesInTurn
           /\ opt.kind = "encode" /\ ~opt.vpp /\ opt' = opt
           /\ \/ GetFreeTask \/ StopAtLimit \/ ReadFrame \/ EndOfFile \/ Encode
              \/ EncodeDrained \/ SynchronizeAll \/ NoFreeSurface \/ EncoderBusy
              \/ EncoderFinishes \/ UNCHANGED vars
<1>1. opt' = opt /\ seen \subseteq seen' /\ opt \in Configurations
    BY StepIsJobStep, SeenGrows DEF Typed, ControlTypes
<1>2. TwoFiles
    BY <1>1 DEF TwoFiles
<1>3. opt.kind = "encode" /\ ~opt.vpp
    BY <1>1, <1>2, TwoFilesFacts DEF TwoFiles
<1>4. phase # "vpp_drain" /\ pc \notin {"device", "vpp"}
    BY <1>2, <1>3 DEF InTurn, FramesInTurn, Typed, PipelineControl
<1>5. ~RunVpp /\ ~DrainVpp /\ ~RegionStep /\ ~RecoverDevice
    BY <1>3, <1>4 DEF RunVpp, DrainVpp, RegionStep, RecoverDevice
<1> QED  BY <1>1, <1>2, <1>3, <1>5 DEF InTurn, Next, EncodeStep, Terminated

LEMMA FailureTurn ==
    ASSUME TwoFiles', VppTasks, ~opt.vpp, NEW late, SyncFails(late)
    PROVE  UNCHANGED <<m_bInsertIDR, lockVars, poolVars>> /\ pc' \in {"failed", late}
<1>1. "hang" \notin seen' /\ "device" \notin seen'
    BY DEF TwoFiles
<1>2. ~TaskHung /\ ~DependentTaskHung /\ ~Fault("device")
    BY <1>1 DEF VppTasks, TaskHung, DependentTaskHung, Fault
<1> QED  BY <1>2 DEF SyncFails

LEMMA StepIsTurn ==
    ASSUME Typed, VppTasks, InTurn, TwoFiles', [Next \/ Terminated]_vars
    PROVE  /\ FileTurn \/ FrameTurn \/ DrainTurn \/ SyncTurn
           /\ pc \in {"sync"} \cup Ended => pc' \in {"sync"} \cup Ended
<1> USE DEF loopVars, inVars, surfVars, encVars, lockVars
<1>0. /\ ~opt.vpp /\ opt.kind = "encode" /\ phase # "vpp_drain" /\ pc # "device"
      /\ phase \in {"main", "vpp_drain", "enc_drain"}
    BY TwoFilesTurn DEF FramesInTurn, Typed, ControlTypes
<1>1. CASE GetFreeTask
  <2>1. ASSUME SyncFails("failed"), UNCHANGED encVars, file' = WritersReset PROVE FileTurn
    BY <1>0, <2>1, FailureTurn DEF FileTurn
  <2> QED  BY <1>1, <2>1 DEF GetFreeTask, FileTurn, SyncTurn, Ended
<1>2. CASE \/ StopAtLimit \/ ReadFrame \/ EndOfFile \/ NoFreeSurface \/ EncoderBusy
           \/ EncoderFinishes \/ UNCHANGED vars
    BY <1>2 DEF StopAtLimit, ReadFrame, EndOfFile, NoFreeSurface, EncoderBusy, EncoderFinishes,
                vars, FileTurn, Ended
<1>3. CASE Encode
    BY <1>0, <1>3 DEF Encode, FrameTurn, FileTurn, Ended
<1>4. CASE EncodeDrained
    BY <1>4 DEF EncodeDrained, DrainTurn, FileTurn, Ended
<1>5. CASE SynchronizeAll
  <2>1. ASSUME SyncFails("done") PROVE UNCHANGED poolVars /\ pc' \in {"failed", "done"}
    BY <1>0, <2>1, FailureTurn
  <2> QED  BY <1>5, <2>1 DEF SynchronizeAll, FileTurn, SyncTurn, Ended
<1> QED  BY TwoFilesTurn, <1>1, <1>2, <1>3, <1>4, <1>5

(* The frames of the source file and the jobs, in step.                    *)
LEMMA FramesInTurnStep ==
    ASSUME Typed, VppTasks, InTurn, TwoFiles', [Next \/ Terminated]_vars
    PROVE  FramesInTurn'
<1> USE DEF loopVars, inVars, surfVars, encVars, lockVars
<1>0. /\ ~opt.vpp /\ opt.kind = "encode" /\ opt.views = 2 /\ FramesInTurn /\ ~skipLoading
      /\ pos \in 0..NumFrames /\ NumFrames \in Nat \ {0} /\ NumFrames % 2 = 0
      /\ content \in [Surfaces -> 0..NumFrames] /\ nEncSurfIdx \in Surfaces
      /\ phase \in {"main", "vpp_drain", "enc_drain"} /\ Len(job) \in Nat
  <2>1. ~opt.vpp /\ opt.kind = "encode" /\ opt.views = 2 /\ FramesInTurn /\ opt \in Configurations
    BY TwoFilesTurn DEF TwoFiles, Typed, ControlTypes
  <2> QED  BY <2>1, TwoFilesFacts, JobFacts DEF Typed, ControlTypes, PipelineControl, JobTypes
<1>1. CASE GetFreeTask
  <2>1. ASSUME SyncFails("failed") PROVE pc' = "failed"
    BY <1>0, <2>1, FailureTurn
  <2> QED  BY <1>0, <1>1, <2>1 DEF GetFreeTask, FramesInTurn
<1>2. CASE StopAtLimit
    BY <1>0, <1>2 DEF StopAtLimit, Drain, FramesInTurn
<1>3. CASE ReadFrame
  <2>1. /\ pos' = pos + 1 /\ pc' = "encode" /\ phase' = phase /\ phase = "main" /\ pc = "frame"
        /\ nEncSurfIdx' = FreeSurface /\ content' = [content EXCEPT ![FreeSurface] = pos']
        /\ FreeSurfaces # {} /\ job' = job
    BY <1>0, <1>3 DEF ReadFrame, LoadNextFrame
  <2>2. content'[nEncSurfIdx'] = pos'
    BY <1>0, <2>1, FreeSurfaceFacts
  <2>3. Alike(pos, Len(job))
    BY <1>0, <2>1 DEF FramesInTurn
  <2>4. pos' # 0 /\ Alike(pos', Len(job') + 1)
    BY <1>0, <2>1, <2>3 DEF Alike
  <2> QED  BY <2>1, <2>2, <2>4 DEF FramesInTurn
<1>4. CASE EndOfFile
  <2>1. pos = NumFrames /\ pc = "frame" /\ phase = "main" /\ job' = job
    BY <1>4 DEF EndOfFile, Rewind
  <2>2. CASE Rewind /\ pc' = "task" /\ UNCHANGED phase
    <3>1. Alike(pos, Len(job)) /\ pos' = 0
      BY <1>0, <2>1, <2>2 DEF FramesInTurn, Rewind
    <3>2. Alike(pos', Len(job'))
      BY <1>0, <2>1, <3>1 DEF Alike
    <3> QED  BY <1>0, <2>1, <2>2, <3>2 DEF FramesInTurn
  <2>3. CASE Drain
    BY <1>0, <2>3 DEF Drain, FramesInTurn
  <2> QED  BY <1>4, <2>2, <2>3 DEF EndOfFile
<1>5. CASE Encode
  <2>1. CASE EncodeFrame(0, nEncSurfIdx)
    <3>1. Len(job') = Len(job) + 1
      BY <1>0, <2>1, TwoFilesTurn, EncodeFrameTypes DEF UsedPools
    <3>2. pc = "encode" /\ phase = "main" /\ phase' = phase /\ pos' = pos
      BY <1>0, <1>5 DEF Encode, FramesInTurn
    <3>4. pc' = "task" \/ pc' = "failed"
      BY <1>0, <1>5, <3>2 DEF Encode, Fault, TwoFiles
    <3>3. Alike(pos', Len(job'))
      BY <1>0, <3>1, <3>2 DEF FramesInTurn
    <3> QED  BY <3>2, <3>3, <3>4 DEF FramesInTurn
  <2>2. CASE ~EncodeFrame(0, nEncSurfIdx)
    BY <1>0, <1>5, <2>2 DEF Encode, FramesInTurn, Fault, TwoFiles
  <2> QED  BY <2>1, <2>2
<1>6. CASE EncodeDrained
    BY <1>0, <1>6 DEF EncodeDrained, FramesInTurn, Fault, TwoFiles
<1>7. CASE SynchronizeAll
  <2>1. ASSUME SyncFails("done") PROVE pc' \in {"failed", "done"}
    BY <1>0, <2>1, FailureTurn
  <2> QED  BY <1>0, <1>7, <2>1 DEF SynchronizeAll, FramesInTurn
<1>8. CASE NoFreeSurface \/ EncoderBusy \/ EncoderFinishes \/ UNCHANGED vars
    BY <1>0, <1>8 DEF NoFreeSurface, EncoderBusy, EncoderFinishes, vars, FramesInTurn
<1> QED  BY TwoFilesTurn, <1>1, <1>2, <1>3, <1>4, <1>5, <1>6, <1>7, <1>8

LEMMA SameParity ==
    ASSUME NEW a \in Int, NEW c \in Int, NEW l \in Int, NEW n \in Int,
           Alike(a + l, n), Alike(c, a)
    PROVE  Alike(n - l + 1, c + 1)
<1>1. Alike(a, n - l)
    BY DEF Alike
<1> QED  BY <1>1 DEF Alike

LEMMA SameRun ==
    ASSUME IInv, NEW p \in Pools, UNCHANGED poolVars
    PROVE  NumInExecution(p)' = NumInExecution(p)
<1>1. PICK n \in 0..PoolSize[p] : RunOfTasks(p, n)
    BY InvRun
<1>2. RunOfTasks(p, n)'
    BY <1>1 DEF RunOfTasks, InExecution, At, poolVars
<1> QED  BY <1>1, <1>2, RunLength, RunLengthNext DEF IInv

(* The jobs the encoder keeps back are those given to it last, so that the *)
(* one it has had longest has the parity of the next task.                 *)
LEMMA NextInTurn ==
    ASSUME PoolUse, InTurn, TwoFiles', [Next \/ Terminated]_vars,
           NEW q \in Seq(Nat), NEW n \in Nat, q # <<>>,
           \A k \in 1..Len(q) : q[k] = n - Len(q) + k,
           Alike(m_nTaskBufferStart[0] + NumInExecution(0) + Len(q), n),
           Head(q) \in Jobs, Head(q) \in 1..n, pc = "encode", Submit(0, pCurrentTask, Head(q))
    PROVE  /\ Alike(m_nTaskBufferStart'[0] + NumInExecution(0)' + Len(Tail(q)), n)
           /\ \A k \in 1..Len(Tail(q)) : Tail(q)[k] = n - Len(Tail(q)) + k
           /\ \A i \in Slots(0) : InExecution(0, i)' =>
                 \/ InExecution(0, i) /\ m_pTasks'[0][i] = m_pTasks[0][i]
                 \/ m_pTasks'[0][i] \in 1..n /\ Alike(m_pTasks'[0][i], i + 1)
<1> DEFINE s == m_nTaskBufferStart[0]
           r == NumInExecution(0)
           z == PoolSize[0]
<1>0. IInv /\ Typed /\ TaskGiven /\ PoolTypeOK /\ region = 0
    BY TwoFilesTurn DEF PoolUse, IInv, Typed, PipelineControl
<1>1. z \in Nat \ {0} /\ z % 2 = 0 /\ 0 \in Pools
    BY <1>0, TwoFilesTurn, TwoFilesFacts DEF TwoFiles, Typed, ControlTypes
<1>2. s \in 0..(z - 1)
    BY <1>0, <1>1 DEF PoolTypeOK, Slots
<1>3. ~Full(0) /\ pCurrentTask = GetFreeTaskIndex(0)
    BY <1>0 DEF TaskGiven, Holding
<1>4. r \in 0..(z - 1) /\ pCurrentTask = At(0, r) /\ NumInExecution(0)' = r + 1
    BY <1>0, <1>1, <1>3, SubmittedRun
<1>5. Len(q) \in Nat \ {0} /\ Len(Tail(q)) = Len(q) - 1 /\ Head(q) = q[1]
      /\ \A k \in 1..Len(Tail(q)) : Tail(q)[k] = q[k + 1]
    BY TailElements
<1>6. m_nTaskBufferStart'[0] = s
    BY DEF Submit
<1>7. Alike(pCurrentTask, s + r) /\ pCurrentTask \in 0..(z - 1)
  <2>1. pCurrentTask = (s + r) % z
    BY <1>4 DEF At
  <2> HIDE DEF s, r, z
  <2>2. r \in 0..z
    BY <1>1, <1>4
  <2> QED  BY <1>1, <1>2, <2>1, <2>2, RingAlternates
<1>8. Head(q) = n - Len(q) + 1
    BY <1>5
<1>9. Alike(Head(q), pCurrentTask + 1)
  <2> DEFINE l == Len(q)
             c == pCurrentTask
  <2>1. Alike(s + r + l, n) /\ Alike(c, s + r) /\ Head(q) = n - l + 1
    BY <1>7, <1>8
  <2> HIDE DEF s, r, z, l, c
  <2>2. s \in Int /\ r \in Int /\ l \in Int /\ c \in Int
    BY <1>1, <1>2, <1>4, <1>5, <1>7 DEF l, c
  <2>3. Alike(n - l + 1, c + 1)
    <3> DEFINE a == s + r
    <3>1. a \in Int /\ n \in Int /\ Alike(a + l, n) /\ Alike(c, a)
      BY <2>1, <2>2
    <3> HIDE DEF a
    <3> QED  BY <2>2, <3>1, SameParity
  <2> QED  BY <2>1, <2>3 DEF c
<1>10. Alike(m_nTaskBufferStart'[0] + NumInExecution(0)' + Len(Tail(q)), n)
  <2>1. Alike(s + r + Len(q), n)
    OBVIOUS
  <2> HIDE DEF s, r, z
  <2>2. s + (r + 1) + (Len(q) - 1) = s + r + Len(q)
    BY <1>1, <1>2, <1>4, <1>5
  <2> QED  BY <1>4, <1>5, <1>6, <2>1, <2>2
<1>11. ASSUME NEW k \in 1..Len(Tail(q))
       PROVE  Tail(q)[k] = n - Len(Tail(q)) + k
  <2>1. k + 1 \in 1..Len(q) /\ Tail(q)[k] = q[k + 1]
    BY <1>5
  <2> QED  BY <1>5, <2>1
<1>12. ASSUME NEW i \in Slots(0), InExecution(0, i)'
       PROVE  \/ InExecution(0, i) /\ m_pTasks'[0][i] = m_pTasks[0][i]
              \/ m_pTasks'[0][i] \in 1..n /\ Alike(m_pTasks'[0][i], i + 1)
  <2>1. m_pTasks'[0][i] = IF i = pCurrentTask THEN Head(q) ELSE m_pTasks[0][i]
    BY <1>0, <1>1 DEF Submit, PoolTypeOK
  <2> QED  BY <1>9, <1>12, <2>1 DEF InExecution
<1> QED  BY <1>10, <1>11, <1>12

LEMMA JobsInTurnStep ==
    ASSUME PoolUse, PoolUse', InTurn, TwoFiles', [Next \/ Terminated]_vars
    PROVE  StartInTurn' /\ JobsInTurn'
<1> DEFINE n == Len(job)
           e == encIn[0]
           s == m_nTaskBufferStart[0]
           r == NumInExecution(0)
           z == PoolSize[0]
<1>0. /\ IInv /\ Typed /\ VppTasks /\ PoolTypeOK /\ PoolUse /\ InTurn /\ TwoFiles'
      /\ StartInTurn /\ JobsInTurn /\ FramesInTurn
      /\ n \in Nat /\ e \in Seq(1..n) /\ 0 \in Pools /\ UsedPools = {0}
      /\ z \in Nat \ {0} /\ z % 2 = 0 /\ s \in 0..(z - 1) /\ r \in 0..z /\ opt' = opt
      /\ encIn \in [Pools -> Seq(1..n)] /\ job' \in Seq([frame : 0..NumFrames, surf : Surfaces, pool : UsedPools', idr : BOOLEAN])
  <2>1. IInv /\ Typed /\ VppTasks /\ PoolTypeOK /\ StartInTurn /\ JobsInTurn /\ FramesInTurn /\ opt' = opt
    BY TwoFilesTurn DEF PoolUse, IInv
  <2>2. opt \in Configurations /\ opt.views = 2
    BY <2>1, TwoFilesTurn DEF Typed, ControlTypes, TwoFiles
  <2>3. n \in Nat /\ encIn \in [Pools -> Seq(1..n)]
    BY <2>1 DEF Typed, JobTypes
  <2>4. 0 \in Pools /\ UsedPools = {0} /\ z \in Nat \ {0} /\ z % 2 = 0
    BY <2>2, TwoFilesFacts
  <2>5. s \in 0..(z - 1) /\ r \in 0..z
    BY <2>1, <2>4, InvRun DEF PoolTypeOK, Slots
  <2>6. Typed'
    BY DEF PoolUse
  <2> QED  BY <2>1, <2>3, <2>4, <2>5, <2>6 DEF Typed, JobTypes
<1>1. CASE FileTurn
  <2>1. UNCHANGED <<encIn, job, m_pTasks, m_nTaskBufferStart>> /\ NumInExecution(0)' = r
    BY <1>0, <1>1, SameRun DEF FileTurn, encVars, poolVars
  <2>2. StartInTurn'
    BY <1>0, <2>1, StepIsTurn DEF StartInTurn
  <2> QED  BY <1>0, <2>1, <2>2 DEF JobsInTurn, InExecution
<1>2. CASE DrainTurn
  <2>1. pc = "encode" /\ Submit(0, pCurrentTask, Head(e)) /\ e # <<>> /\ job' = job
        /\ encIn'[0] = Tail(e)
    BY <1>0, <1>2 DEF DrainTurn, DrainEncoder
  <2>2. Head(e) \in 1..n /\ 1..n \subseteq Jobs /\ e \in Seq(Nat)
    <3>1. 1..n \subseteq Nat
      OBVIOUS
    <3> QED  BY <1>0, <2>1, <3>1, TailElements, SeqMonotonic, JobsSuffice DEF NumbersSuffice
  <2>3. Alike(s + r + Len(e), n) /\ \A k \in 1..Len(e) : e[k] = n - Len(e) + k
    BY <1>0, <2>1 DEF StartInTurn, JobsInTurn, Ended
  <2>4. /\ Alike(m_nTaskBufferStart'[0] + NumInExecution(0)' + Len(Tail(e)), n)
        /\ \A k \in 1..Len(Tail(e)) : Tail(e)[k] = n - Len(Tail(e)) + k
        /\ \A i \in Slots(0) : InExecution(0, i)' =>
              \/ InExecution(0, i) /\ m_pTasks'[0][i] = m_pTasks[0][i]
              \/ m_pTasks'[0][i] \in 1..n /\ Alike(m_pTasks'[0][i], i + 1)
    <3> HIDE DEF e, n
    <3> QED  BY <1>0, <2>1, <2>2, <2>3, NextInTurn DEF s, r
  <2> QED  BY <1>0, <2>1, <2>4 DEF StartInTurn, JobsInTurn
<1>3. CASE FrameTurn
  <2> DEFINE q == Append(e, n + 1)
  <2>1. /\ EncodeFrame(0, nEncSurfIdx) /\ pc = "encode" /\ phase = "main"
        /\ nEncSurfIdx \in Surfaces
    BY <1>0, <1>3 DEF FrameTurn, Typed, JobTypes
  <2>2. /\ Len(job') = n + 1 /\ \A j \in 1..n : job'[j] = job[j]
        /\ job'[n + 1].frame = content[nEncSurfIdx]
    <3> DEFINE x == [frame |-> content[nEncSurfIdx], surf |-> nEncSurfIdx, pool |-> 0,
                     idr |-> m_bInsertIDR \/ 0 \in fresh]
    <3>1. x.frame = content[nEncSurfIdx]
      OBVIOUS
    <3>2. 0 \in UsedPools /\ Typed /\ opt' = opt
      BY <1>0
    <3>3. Len(job') = n + 1 /\ (\A j \in 1..n : job'[j] = job[j]) /\ job'[Len(job')] = x
      BY <2>1, <3>2, EncodeFrameTypes
    <3> HIDE DEF x
    <3> QED  BY <3>1, <3>3
  <2>3. \A j \in 1..Len(job') : job'[j].frame # 0 /\ Alike(job'[j].frame, j)
    <3>1. content[nEncSurfIdx] # 0 /\ Alike(content[nEncSurfIdx], n + 1)
      BY <1>0, <2>1 DEF FramesInTurn
    <3>2. \A j \in 1..Len(job') : j \in 1..n \/ j = n + 1
      BY <1>0, <2>2
    <3>3. \A j \in 1..n : job[j].frame # 0 /\ Alike(job[j].frame, j)
      BY <1>0 DEF JobsInTurn
    <3> QED  BY <2>2, <3>1, <3>2, <3>3
  <2>4. /\ q \in Seq(1..(n + 1)) /\ Len(q) = Len(e) + 1 /\ q # <<>> /\ Len(e) \in Nat
        /\ \A k \in 1..Len(e) : q[k] = e[k]
        /\ q[Len(e) + 1] = n + 1
    <3>1. 1..n \subseteq 1..(n + 1) /\ n + 1 \in 1..(n + 1)
      BY <1>0
    <3>2. e \in Seq(1..(n + 1))
      BY <1>0, <3>1, SeqMonotonic
    <3>3. q # <<>>
      BY <3>2, AppendNonempty
    <3> HIDE DEF q
    <3> QED  BY <3>1, <3>2, <3>3, AppendElements DEF q
  <2>5. \A k \in 1..Len(q) : q[k] = (n + 1) - Len(q) + k
    <3> DEFINE l == Len(e)
    <3>1. (\A k \in 1..l : e[k] = n - l + k) /\ n \in Nat
      BY <1>0 DEF JobsInTurn
    <3>2. Len(q) = l + 1 /\ l \in Nat /\ (\A k \in 1..l : q[k] = e[k]) /\ q[l + 1] = n + 1
      BY <2>4
    <3> HIDE DEF q, e, n, l
    <3> SUFFICES ASSUME NEW k \in 1..(l + 1) PROVE q[k] = (n + 1) - (l + 1) + k
      BY <3>2
    <3>3. CASE k = l + 1
      BY <3>1, <3>2, <3>3
    <3>4. CASE k \in 1..l
      BY <3>1, <3>2, <3>4
    <3> QED  BY <3>2, <3>3, <3>4
  <2>6. Alike(s + r + Len(q), n + 1)
    <3> DEFINE l == Len(e)
    <3>1. Alike(s + r + l, n)
      BY <1>0, <2>1 DEF StartInTurn, Ended
    <3>2. s \in 0..(z - 1) /\ r \in 0..z /\ z \in Nat /\ n \in Nat /\ l \in Nat /\ Len(q) = l + 1
      BY <1>0, <2>4
    <3> HIDE DEF q, e, s, r, n, z, l
    <3>3. s \in Int /\ r \in Int
      BY <3>2
    <3> QED  BY <3>1, <3>2, <3>3 DEF Alike
  <2>7. CASE Submit(0, pCurrentTask, Head(q)) /\ encIn'[0] = Tail(q)
    <3>1. 1..(n + 1) \subseteq Jobs
      <4>1. Typed'
        BY DEF PoolUse
      <4>2. NumbersSuffice'
        BY <4>1, JobsSuffice, PTL
      <4> QED  BY <2>2, <4>2 DEF NumbersSuffice
    <3>2. Head(q) \in 1..(n + 1) /\ q \in Seq(Nat) /\ n + 1 \in Nat
      <4>1. 1..(n + 1) \subseteq Nat /\ n + 1 \in Nat
        BY <1>0
      <4> HIDE DEF q
      <4> QED  BY <2>4, <4>1, TailElements, SeqMonotonic
    <3>3. /\ Alike(m_nTaskBufferStart'[0] + NumInExecution(0)' + Len(Tail(q)), n + 1)
          /\ \A k \in 1..Len(Tail(q)) : Tail(q)[k] = (n + 1) - Len(Tail(q)) + k
          /\ \A i \in Slots(0) : InExecution(0, i)' =>
                \/ InExecution(0, i) /\ m_pTasks'[0][i] = m_pTasks[0][i]
                \/ m_pTasks'[0][i] \in 1..(n + 1) /\ Alike(m_pTasks'[0][i], i + 1)
      <4>1. Head(q) \in Jobs
        BY <3>1, <3>2
      <4> HIDE DEF q, n
      <4> QED  BY <1>0, <2>1, <2>4, <2>5, <2>6, <2>7, <3>2, <4>1, NextInTurn DEF s, r
    <3>4. \A i \in Slots(0) : InExecution(0, i)' =>
             m_pTasks'[0][i] \in 1..(n + 1) /\ Alike(m_pTasks'[0][i], i + 1)
      <4>1. \A i \in Slots(0) : InExecution(0, i) =>
               m_pTasks[0][i] \in 1..n /\ Alike(m_pTasks[0][i], i + 1)
        BY <1>0 DEF JobsInTurn
      <4>2. 1..n \subseteq 1..(n + 1)
        BY <1>0
      <4> QED  BY <3>3, <4>1, <4>2
    <3> HIDE DEF q, n
    <3> QED  BY <2>2, <2>3, <2>7, <3>3, <3>4 DEF StartInTurn, JobsInTurn
  <2>8. CASE UNCHANGED poolVars /\ encIn'[0] = q
    <3>1. UNCHANGED <<m_pTasks, m_nTaskBufferStart>> /\ NumInExecution(0)' = r
      BY <1>0, <2>8, SameRun DEF poolVars
    <3>2. \A i \in Slots(0) : InExecution(0, i)' =>
             m_pTasks'[0][i] \in 1..(n + 1) /\ Alike(m_pTasks'[0][i], i + 1)
      <4>1. \A i \in Slots(0) : InExecution(0, i) =>
               m_pTasks[0][i] \in 1..n /\ Alike(m_pTasks[0][i], i + 1)
        BY <1>0 DEF JobsInTurn
      <4>2. 1..n \subseteq 1..(n + 1)
        BY <1>0
      <4> QED  BY <3>1, <4>1, <4>2 DEF InExecution
    <3> HIDE DEF q, n
    <3> QED  BY <2>2, <2>3, <2>5, <2>6, <2>8, <3>1, <3>2 DEF StartInTurn, JobsInTurn
  <2>9. \/ Submit(0, pCurrentTask, Head(q)) /\ encIn'[0] = Tail(q)
        \/ UNCHANGED poolVars /\ encIn'[0] = q
    BY <1>0, <2>1 DEF EncodeFrame
  <2> QED  BY <2>7, <2>8, <2>9
<1>4. CASE SyncTurn
  <2>1. SynchronizeFirstTask(0) /\ UNCHANGED <<encIn, job>> /\ pc' = pc
    BY <1>4 DEF SyncTurn, SyncSucceeds, encVars
  <2>2. \A i \in Slots(0) : InExecution(0, i)' =>
           InExecution(0, i) /\ m_pTasks'[0][i] = m_pTasks[0][i]
    BY <1>0, <2>1 DEF SynchronizeFirstTask, InExecution, PoolTypeOK
  <2>3. JobsInTurn'
    BY <1>0, <2>1, <2>2 DEF JobsInTurn
  <2>4. CASE pc = "sync"
    BY <2>1, <2>3, <2>4 DEF StartInTurn
  <2>5. CASE pc = "task" /\ Full(0)
    <3>0. /\ z \in Nat \ {0} /\ z % 2 = 0 /\ s \in 0..(z - 1) /\ r \in 0..z
          /\ n \in Nat /\ Len(e) \in Nat
      BY <1>0
    <3>1. z > 1
      <4> HIDE DEF z
      <4> QED  BY <3>0
    <3>2. r = z /\ NumInExecution(0)' = z - 1 /\ m_nTaskBufferStart'[0] = At(0, 1)
      BY <1>0, <2>1, <2>5, <3>1, SynchronizedRun
    <3>3. Alike(At(0, 1), s + 1) /\ At(0, 1) \in 0..(z - 1)
      <4>1. At(0, 1) = (s + 1) % z
        BY DEF At
      <4> HIDE DEF s, z
      <4>2. 1 \in 0..z
        BY <3>0
      <4> QED  BY <3>0, <4>1, <4>2, RingAlternates
    <3>4. Alike(s + r + Len(e), n)
      BY <1>0, <2>5 DEF StartInTurn, Ended
    <3>5. Alike(At(0, 1) + (z - 1) + Len(e), n)
      <4> DEFINE a == At(0, 1)
                 l == Len(e)
      <4>1. r = z /\ Alike(a, s + 1) /\ a \in 0..(z - 1) /\ Alike(s + r + l, n) /\ l \in Nat
        BY <3>0, <3>2, <3>3, <3>4
      <4> HIDE DEF e, s, r, n, z, a, l
      <4>2. a \in Int /\ s \in Int /\ z \in Int /\ r \in Int /\ l \in Int /\ n \in Int
        BY <3>0, <4>1
      <4>3. Alike(a + (z - 1) + l, n)
        BY <4>1, <4>2 DEF Alike
      <4> QED  BY <4>3 DEF a, l
    <3> QED  BY <2>1, <2>3, <3>2, <3>5 DEF StartInTurn
  <2> QED  BY <1>4, <2>4, <2>5 DEF SyncTurn
<1> QED  BY <1>0, <1>1, <1>2, <1>3, <1>4, StepIsTurn

LEMMA FilesInTurnStep ==
    ASSUME PoolUse, PoolUse', InTurn, TwoFiles', [Next \/ Terminated]_vars
    PROVE  FilesInTurn'
<1>0. /\ IInv /\ Typed /\ VppTasks /\ PoolTypeOK /\ JobsInTurn /\ FilesInTurn /\ opt.views = 2
      /\ Len(job) \in Nat /\ 0 \in Pools /\ UsedPools = {0}
  <2>1. IInv /\ Typed /\ VppTasks /\ PoolTypeOK /\ JobsInTurn /\ FilesInTurn /\ opt.views = 2
    BY TwoFilesTurn DEF PoolUse, IInv, TwoFiles
  <2>2. opt \in Configurations /\ Len(job) \in Nat
    BY <2>1, JobFacts DEF Typed, ControlTypes
  <2> QED  BY <2>1, <2>2, TwoFilesFacts
<1> DEFINE Sorted(f) == /\ f \in [{1, 2} -> Seq(1..Len(job))]
                        /\ \A w \in {1, 2} : \A k \in 1..Len(f[w]) : Alike(f[w][k], w)
<1>1. Sorted(file) /\ Sorted(WritersReset)
  <2>1. Sorted(file)
    BY <1>0 DEF FilesInTurn
  <2>2. Sorted([w \in {1, 2} |-> <<>>])
    OBVIOUS
  <2>3. WritersReset = [w \in {1, 2} |-> <<>>] \/ WritersReset = [w \in {1, 2} |-> file[w]]
    BY DEF WritersReset
  <2> QED  BY <2>1, <2>2, <2>3
<1>2. Len(job') \in Nat /\ Len(job) <= Len(job')
  <2>1. CASE FrameTurn
    <3>1. nEncSurfIdx \in Surfaces /\ EncodeFrame(0, nEncSurfIdx) /\ opt' = opt
      BY <1>0, <2>1, TwoFilesTurn DEF FrameTurn, Typed, JobTypes
    <3>2. Len(job') = Len(job) + 1
      BY <1>0, <3>1, EncodeFrameTypes
    <3> QED  BY <1>0, <3>2
  <2>2. CASE ~FrameTurn
    <3>1. job' = job
      BY <1>0, <2>2, StepIsTurn DEF FileTurn, DrainTurn, DrainEncoder, SyncTurn, encVars
    <3> QED  BY <1>0, <3>1
  <2> QED  BY <2>1, <2>2
<1>3. Sorted(file')
  <2>1. CASE FileTurn \/ FrameTurn \/ DrainTurn
    BY <1>1, <2>1 DEF FileTurn, FrameTurn, DrainTurn
  <2>2. CASE SyncTurn
    <3> DEFINE i == m_nTaskBufferStart[0]
               j == m_pTasks[0][i]
               w == (i % 2) + 1
    <3>1. PICK f \in {file, WritersReset} : SyncSucceeds(0, f)
      BY <2>2 DEF SyncTurn
    <3>2. i \in Slots(0) /\ InExecution(0, i) /\ file' = [f EXCEPT ![w] = Append(@, j)]
      BY <1>0, <3>1 DEF SyncSucceeds, SynchronizeFirstTask, PoolTypeOK, Writer
    <3>3. j \in 1..Len(job) /\ Alike(j, i + 1) /\ i \in Int
      BY <1>0, <3>2, SizeFacts DEF JobsInTurn, Slots
    <3>4. w \in {1, 2} /\ Alike(j, w)
      BY <3>3 DEF Alike
    <3>5. Sorted(f)
      BY <1>1, <3>1
    <3> HIDE DEF i, j, w
    <3>6. /\ Append(f[w], j) \in Seq(1..Len(job))
          /\ \A k \in 1..Len(Append(f[w], j)) : Alike(Append(f[w], j)[k], w)
      <4> DEFINE S == 1..Len(job)
                 a == Append(f[w], j)
      <4>1. f[w] \in Seq(S) /\ j \in S /\ \A k \in 1..Len(f[w]) : Alike(f[w][k], w)
        BY <3>3, <3>4, <3>5
      <4>2. /\ a \in Seq(S) /\ Len(f[w]) \in Nat /\ Len(a) = Len(f[w]) + 1
            /\ \A k \in 1..Len(f[w]) : a[k] = f[w][k]
            /\ a[Len(f[w]) + 1] = j
        <5> HIDE DEF S
        <5> QED  BY <4>1, AppendElements
      <4>3. \A k \in 1..Len(a) : k \in 1..Len(f[w]) \/ k = Len(f[w]) + 1
        BY <4>2
      <4> HIDE DEF S, a
      <4>4. \A k \in 1..Len(a) : Alike(a[k], w)
        BY <3>4, <4>1, <4>2, <4>3
      <4> QED  BY <4>2, <4>4 DEF a, S
    <3> QED  BY <3>2, <3>4, <3>5, <3>6
  <2> QED  BY <1>0, <2>1, <2>2, StepIsTurn
<1>4. Seq(1..Len(job)) \subseteq Seq(1..Len(job'))
  <2>1. 1..Len(job) \subseteq 1..Len(job')
    BY <1>0, <1>2
  <2> QED  BY <2>1, SeqMonotonic
<1> QED  BY <1>3, <1>4 DEF FilesInTurn

(* With a file for each view, every bitstream goes to the file of its      *)
(* view, though the writer belongs to the task and not to the frame: the   *)
(* n-th job is of the view of n, and it is put into a task of the writer   *)
(* of that view, whatever the encoder keeps back, as long as no task is    *)
(* cleared and no synchronization but the last one empties the pool.       *)
THEOREM ViewsStayApart == Spec => []ViewsToTheirWriter
<1>1. SessionInit => InTurn
  <2> SUFFICES ASSUME SessionInit, TwoFiles PROVE InTurn
    BY DEF InTurn
  <2>1. /\ opt \in Configurations /\ opt.views = 2 /\ phase = "main" /\ pos = 0
        /\ file = [w \in {1, 2} |-> <<>>] /\ encIn = [p \in Pools |-> <<>>] /\ job = <<>>
        /\ PoolInit
    BY DEF SessionInit, TwoFiles
  <2>2. opt.kind = "encode" /\ 0 \in Pools /\ PoolSize[0] \in Nat \ {0}
    BY <2>1, TwoFilesFacts
  <2>3. pc = "task"
    BY <2>2 DEF SessionInit
  <2>4. IInv
    BY <2>1, InitHolds
  <2>5. \A i \in Slots(0) : ~InExecution(0, i)
    BY <2>1, <2>2 DEF PoolInit, InExecution
  <2>6. NumInExecution(0) = 0 /\ m_nTaskBufferStart[0] = 0
    <3>1. m_nTaskBufferStart[0] = 0 /\ PoolTypeOK
      BY <2>1, <2>2, <2>4 DEF PoolInit, IInv
    <3>2. RunOfTasks(0, 0)
      <4>1. \A k \in Slots(0) : At(0, k) \in Slots(0)
        BY <2>2, <3>1, AtFacts DEF Slots
      <4> QED  BY <2>5, <4>1 DEF RunOfTasks, Slots
    <3> QED  BY <2>2, <3>1, <3>2, RunLength
  <2>7. Len(job) = 0 /\ Len(encIn[0]) = 0 /\ <<>> \in Seq(1..Len(job))
        /\ Len(file[1]) = 0 /\ Len(file[2]) = 0
    BY <2>1, <2>2
  <2>8. StartInTurn
    BY <2>6, <2>7 DEF StartInTurn, Alike
  <2>9. JobsInTurn
    BY <2>5, <2>7 DEF JobsInTurn
  <2>10. FramesInTurn
    BY <2>1, <2>3, <2>7 DEF FramesInTurn, Alike
  <2>11. FilesInTurn
    BY <2>1, <2>7 DEF FilesInTurn
  <2> QED  BY <2>8, <2>9, <2>10, <2>11 DEF InTurn
<1>2. InTurn /\ PoolUse /\ PoolUse' /\ [Next \/ Terminated]_vars => InTurn'
  <2> SUFFICES ASSUME InTurn, PoolUse, PoolUse', [Next \/ Terminated]_vars, TwoFiles'
               PROVE  StartInTurn' /\ JobsInTurn' /\ FramesInTurn' /\ FilesInTurn'
    BY DEF InTurn
  <2> QED  BY JobsInTurnStep, FramesInTurnStep, FilesInTurnStep DEF PoolUse
<1>3. InTurn /\ PoolUse => ViewsToTheirWriter
  <2> SUFFICES ASSUME InTurn, PoolUse, TwoFiles, NEW w \in {1, 2}, NEW k \in DOMAIN file[w]
               PROVE  ViewOf(job[file[w][k]].frame) = w
    BY DEF ViewsToTheirWriter, TwoFiles
  <2> DEFINE j == file[w][k]
             f == job[j].frame
  <2>1. JobTypes /\ JobsInTurn /\ FilesInTurn /\ opt.views = 2
    BY DEF PoolUse, Typed, InTurn, TwoFiles
  <2>2. file[w] \in Seq(1..Len(job))
    BY <2>1 DEF FilesInTurn
  <2>3. j \in 1..Len(job) /\ Alike(j, w)
    <3>1. k \in 1..Len(file[w])
      BY <2>2
    <3> QED  BY <2>1, <2>2, <3>1 DEF FilesInTurn
  <2>4. f # 0 /\ Alike(f, j)
    BY <2>1, <2>3 DEF JobsInTurn
  <2>5. f \in Nat \ {0}
    BY <2>1, <2>3, <2>4, JobFacts, PoolFacts
  <2> HIDE DEF f, j
  <2>6. ViewOf(f) = w
    BY <2>1, <2>3, <2>4, <2>5 DEF ViewOf, Alike
  <2> QED  BY <2>6 DEF f, j
<1> QED  BY <1>1, <1>2, <1>3, PoolUseHolds, PTL DEF Spec

-----------------------------------------------------------------------------
(* Nothing is lost.  While nothing fails but a busy encoder and a GPU hang *)
(* the frames that were read are given to each encoder, wait in the        *)
(* surface to encode, or are with VPP, in the order they were read in; and *)
(* the jobs are written, in a task, or kept back by an encoder, all but    *)
(* those that were in the tasks when the GPU hung.                         *)
Sound == seen \subseteq {"busy", "hang"}

\* the surface to encode holds a frame for the encoder of pool p
Waits(p) ==
    IF opt.kind = "region" THEN phase = "main" /\ InTheLoop /\ region <= p
    ELSE (pc = "encode" /\ phase # "enc_drain") \/ (pc = "task" /\ phase = "vpp_drain")

Due(p) == IF Waits(p) THEN 1 ELSE 0

Given(p) == Cardinality(GivenTo(p, Len(job)))

AllGiven == \A p \in UsedPools : Given(p) + Due(p) + Len(vppHeld) = FramesRead

JobsAsRead ==
    \A p \in UsedPools : \A j \in GivenTo(p, Len(job)) :
        job[j].frame = ReadAs(Cardinality(GivenTo(p, j)))

FramesAsRead ==
    \A p \in UsedPools :
        /\ Waits(p) => content[nEncSurfIdx] = ReadAs(Given(p) + 1)
        /\ \A i \in 1..Len(vppHeld) : vppHeld[i] = ReadAs(Given(p) + Due(p) + i)

\* where VPP and the encoder have nothing left
Emptied ==
    /\ skipLoading = FALSE
    /\ opt.kind = "region" /\ pc = "frame" => phase = "main"
    /\ ~opt.vpp \/ phase = "enc_drain" => vppHeld = <<>>
    /\ opt.kind # "region" /\ pc \in {"sync", "done"} => phase = "enc_drain" /\ encIn[0] = <<>>

\* each frame read was given to each encoder, or is on its way to it
FramesPlaced == AllGiven /\ (opt.kind # "user" => JobsAsRead /\ FramesAsRead)

FramesAccounted == FramesPlaced /\ Emptied

\* job j is written, kept back or in a task
Accounted(j) ==
    \/ \E i \in 1..Len(delivered) : delivered[i] = j
    \/ \E p \in UsedPools : \E i \in 1..Len(encIn[p]) : encIn[p][i] = j
    \/ InATask(j)

Missing == {j \in 1..Len(job) : ~Accounted(j)}

MissingBound ==
    /\ IsFiniteSet(Missing) /\ Cardinality(Missing) <= PoolSize[0]
    /\ "hang" \notin seen => Missing = {}

TasksEmptied == pc = "done" => \A j : ~InATask(j)

LossInv ==
    Sound =>
        /\ pc # "device" /\ MissingBound /\ TasksEmptied
        /\ pc \notin {"failed", "undefined"} => FramesAccounted

(* The remainder of a multiple and a bit.                                  *)
LEMMA ModOfMultiple ==
    ASSUME NEW n \in Nat \ {0}, NEW k \in Nat, NEW r \in 0..(n - 1)
    PROVE  (k * n + r) % n = r
<1> DEFINE a == k * n + r
           q == a \div n
           s == a % n
<1>1. k * n \in Nat /\ a \in Nat
    OBVIOUS
<1>2. a = n * q + s /\ q \in Int /\ s \in 0..(n - 1)
  <2> HIDE DEF a
  <2> QED  BY <1>1, Z3
<1>3. n * q + s = k * n + r
    BY <1>2
<1> HIDE DEF a, q, s
<1>4. CASE q > k
  <2>1. PICK d \in Nat : q = k + 1 + d
    BY <1>2, <1>4
  <2>2. n * q = k * n + n + n * d /\ n * d \in Nat
    BY <2>1
  <2> QED  BY <1>1, <1>2, <1>3, <2>2
<1>5. CASE q < k
  <2>1. PICK d \in Nat : k = q + 1 + d
    BY <1>2, <1>5
  <2>2. k * n = n * q + n + n * d /\ n * d \in Nat
    BY <1>2, <2>1
  <2> QED  BY <1>1, <1>2, <1>3, <2>2
<1>6. CASE q = k
  <2>1. n * q = k * n
    BY <1>6
  <2> QED  BY <1>1, <1>2, <1>3, <2>1 DEF a, s
<1> QED  BY <1>2, <1>4, <1>5, <1>6

(* The frame that is read next.                                            *)
LEMMA NextIsReadAs ==
    ASSUME Typed, LoadNextFrame
    PROVE  pos' = ReadAs(FramesRead + 1)
<1>1. /\ pos \in 0..(NumFrames - 1) /\ passes - 1 \in Nat /\ NumFrames \in Nat \ {0} /\ pos' = pos + 1
    BY PoolFacts DEF Typed, ControlTypes, LoadNextFrame
<1> DEFINE k == passes - 1
<1>2. (k * NumFrames + pos) % NumFrames = pos
  <2> HIDE DEF k
  <2> QED  BY <1>1, ModOfMultiple DEF k
<1>3. PICK m \in Nat : m = k * NumFrames + pos /\ FramesRead = m
  <2>1. k * NumFrames + pos \in Nat
    BY <1>1
  <2> QED  BY <2>1 DEF FramesRead
<1>4. ReadAs(m + 1) = (m % NumFrames) + 1
    BY <1>1, m \in Nat DEF ReadAs
<1>5. m % NumFrames = pos
    BY <1>2, <1>3
<1> HIDE DEF k
<1> QED  BY <1>1, <1>3, <1>4, <1>5

(* How many frames each encoder was given, and as which.                   *)
LEMMA GivenFacts ==
    ASSUME JobTypes, NEW p, NEW n \in Nat
    PROVE  IsFiniteSet(GivenTo(p, n)) /\ Cardinality(GivenTo(p, n)) \in Nat
<1>1. IsFiniteSet(1..n)
    BY FS_Interval
<1>2. GivenTo(p, n) \subseteq 1..n
    BY DEF GivenTo
<1> QED  BY <1>1, <1>2, FS_Subset, FS_CardinalityType

LEMMA GivenStays ==
    ASSUME job' = job, opt' = opt
    PROVE  /\ UsedPools' = UsedPools
           /\ \A p : Given(p)' = Given(p)
           /\ JobsAsRead' <=> JobsAsRead
  BY DEF UsedPools, Given, GivenTo, JobsAsRead, ReadAs

LEMMA GivenMore ==
    ASSUME Typed, FrameGiven, opt' = opt
    PROVE  /\ UsedPools' = UsedPools /\ region \in UsedPools
           /\ \A p : Given(p)' = IF p = region THEN Given(p) + 1 ELSE Given(p)
           /\ JobsAsRead /\ content[nEncSurfIdx] = ReadAs(Given(region) + 1) => JobsAsRead'
<1> DEFINE x == [frame |-> content[nEncSurfIdx], surf |-> nEncSurfIdx, pool |-> region,
                  idr |-> m_bInsertIDR \/ region \in fresh]
<1>0. PICK n \in Nat : n = Len(job)
    BY JobFacts DEF Typed
<1>1. region \in UsedPools /\ UsedPools' = UsedPools /\ JobTypes /\ n \in Nat
    BY DEF FrameGiven, UsedPools, Typed
<1>2. /\ Len(job') = n + 1 /\ (\A j \in 1..n : job'[j] = job[j]) /\ job'[n + 1] = x
    BY <1>0, EncodeFrameTypes DEF FrameGiven
<1>3. x.frame = content[nEncSurfIdx] /\ x.pool = region
    OBVIOUS
<1> HIDE DEF x
<1>4. ASSUME NEW p, NEW m \in 0..n PROVE GivenTo(p, m)' = GivenTo(p, m)
  <2>1. \A j \in 1..m : job'[j] = job[j]
    BY <1>1, <1>2
  <2> QED  BY <2>1 DEF GivenTo
<1>5. \A p : GivenTo(p, n + 1)' = IF p = region THEN GivenTo(p, n) \cup {n + 1} ELSE GivenTo(p, n)
  <2> SUFFICES ASSUME NEW p
               PROVE  GivenTo(p, n + 1)'
                        = IF p = region THEN GivenTo(p, n) \cup {n + 1} ELSE GivenTo(p, n)
    OBVIOUS
  <2>1. 1..(n + 1) = (1..n) \cup {n + 1}
    BY <1>1
  <2>2. job'[n + 1].pool = region
    BY <1>2, <1>3
  <2>3. \A j \in 1..n : job'[j].pool = job[j].pool
    BY <1>2
  <2>4. \A j : j \in GivenTo(p, n + 1)' <=> j \in GivenTo(p, n) \/ (j = n + 1 /\ p = region)
    BY <2>1, <2>2, <2>3 DEF GivenTo
  <2> QED  BY <2>4
<1>6. \A p, m : GivenTo(p, m) \subseteq 1..m
    BY DEF GivenTo
<1>7. \A p : n + 1 \notin GivenTo(p, n)
    BY <1>1, <1>6
<1>8. \A p : Cardinality(GivenTo(p, n) \cup {n + 1}) = Cardinality(GivenTo(p, n)) + 1
  <2>1. \A p : IsFiniteSet(GivenTo(p, n))
    BY <1>1, GivenFacts
  <2> QED  BY <1>7, <2>1, FS_AddElement
<1>9. \A p : Given(p)' = Cardinality(GivenTo(p, n + 1)')
    BY <1>2 DEF Given
<1>10. \A p : Given(p)' = IF p = region THEN Given(p) + 1 ELSE Given(p)
    BY <1>0, <1>5, <1>8, <1>9 DEF Given
<1>11. ASSUME JobsAsRead, content[nEncSurfIdx] = ReadAs(Given(region) + 1) PROVE JobsAsRead'
  <2> SUFFICES ASSUME NEW p \in UsedPools, NEW j \in GivenTo(p, n + 1)'
               PROVE  job'[j].frame = ReadAs(Cardinality(GivenTo(p, j)'))
    BY <1>1, <1>2 DEF JobsAsRead, ReadAs, GivenTo
  <2>1. CASE j = n + 1
    <3>1. p = region
      <4> SUFFICES ASSUME p # region PROVE FALSE
        OBVIOUS
      <4>1. j \in GivenTo(p, n)
        BY Zenon, <1>5
      <4>2. j \in 1..n
        BY <1>6, <4>1
      <4> QED  BY <2>1, <4>2
    <3>2. Cardinality(GivenTo(p, n + 1)') = Given(region) + 1
      BY <1>0, <1>5, <1>8, <3>1 DEF Given
    <3> QED  BY <1>2, <1>3, <1>11, <2>1, <3>2
  <2>2. CASE j # n + 1
    <3>1. j \in GivenTo(p, n)
      BY <1>5, <2>2
    <3>3. j \in 1..n
      BY <1>6, <3>1
    <3>2. GivenTo(p, j)' = GivenTo(p, j)
      BY <1>4, <3>1, <3>3
    <3> QED  BY <1>0, <1>2, <1>11, <3>1, <3>2, <3>3 DEF JobsAsRead
  <2> QED  BY <2>1, <2>2
<1> QED  BY <1>1, <1>10, <1>11

(* A job that is accounted for stays so, in every step that clears no      *)
(* task.                                                                   *)
LEMMA SubmitKeepsTasks ==
    ASSUME PoolTypeOK, UsedPools' = UsedPools, NEW p \in UsedPools, p \in Pools, NEW h,
           Submit(p, pCurrentTask, h), h # NoTask
    PROVE  InATask(h)' /\ \A j : InATask(j) => InATask(j)'
<1>1. PICK t \in Slots(p) : t = pCurrentTask
    BY DEF Submit
<1>2. /\ DOMAIN m_pTasks = Pools /\ DOMAIN m_pTasks[p] = Slots(p) /\ m_pTasks[p][t] = NoTask
      /\ m_pTasks' = [m_pTasks EXCEPT ![p][t] = h]
    BY <1>1 DEF PoolTypeOK, Submit, InExecution
<1>3. m_pTasks'[p][t] = h
    BY <1>1, <1>2
<1>4. ASSUME NEW j, j # NoTask, NEW q \in UsedPools, NEW i \in Slots(q), m_pTasks[q][i] = j
      PROVE  m_pTasks'[q][i] = j
    BY <1>2, <1>4
<1> QED  BY <1>1, <1>3, <1>4 DEF InATask, Slots

LEMMA AppendKeeps ==
    ASSUME NEW S, NEW q \in Seq(S), NEW x \in S
    PROVE  /\ \E i \in 1..Len(Append(q, x)) : Append(q, x)[i] = x
           /\ \A j : (\E i \in 1..Len(q) : q[i] = j)
                        => \E i \in 1..Len(Append(q, x)) : Append(q, x)[i] = j
<1> DEFINE a == Append(q, x)
<1>1. /\ Len(q) \in Nat /\ Len(a) = Len(q) + 1 /\ a[Len(q) + 1] = x
      /\ \A i \in 1..Len(q) : a[i] = q[i]
    BY AppendElements
<1> HIDE DEF a
<1>2. Len(q) + 1 \in 1..Len(a) /\ \A i \in 1..Len(q) : i \in 1..Len(a)
    BY <1>1
<1> QED  BY <1>1, <1>2 DEF a

LEMMA TailLeaves ==
    ASSUME NEW S, NEW q \in Seq(S), q # <<>>
    PROVE  \A j : (\E i \in 1..Len(q) : q[i] = j)
                     => j = Head(q) \/ \E i \in 1..Len(Tail(q)) : Tail(q)[i] = j
<1> DEFINE b == Tail(q)
<1> SUFFICES ASSUME NEW j, NEW i \in 1..Len(q), q[i] = j
             PROVE  j = Head(q) \/ \E k \in 1..Len(b) : b[k] = j
    OBVIOUS
<1>1. /\ Head(q) = q[1] /\ Len(q) \in Nat \ {0} /\ Len(b) = Len(q) - 1
      /\ \A k \in 1..Len(b) : b[k] = q[k + 1]
    BY TailElements
<1> HIDE DEF b
<1>2. CASE i = 1
    BY <1>1, <1>2
<1>3. CASE i # 1
  <2>1. i - 1 \in 1..Len(b) /\ i - 1 + 1 = i
    BY <1>1, <1>3
  <2> QED  BY <1>1, <2>1
<1> QED  BY <1>2, <1>3

LEMMA NoneGoesMissing ==
    ASSUME IInv, Typed, JobStep, opt' = opt, Typed', ~TasksCleared, ~RecoverDevice
    PROVE  Missing' \subseteq Missing
<1>0. /\ UsedPools \subseteq Pools /\ UsedPools' = UsedPools /\ region \in Pools /\ 0 \in Pools
      /\ opt.kind # "region" => UsedPools = {0}
    BY OptFacts DEF Typed, ControlTypes, UsedPools
<1>1. /\ PoolTypeOK /\ delivered \in Seq(Jobs) /\ DOMAIN m_pTasks = Pools
      /\ encIn \in [Pools -> Seq(1..Len(job))] /\ Len(job) \in Nat
    BY DEF Typed, JobTypes, IInv, PoolTypeOK
<1>2. NumbersSuffice /\ NumbersSuffice'
    BY JobsSuffice, PTL
<1>3. ASSUME job' = job, \A j \in 1..Len(job) : Accounted(j) => Accounted(j)'
      PROVE  Missing' \subseteq Missing
    BY <1>3 DEF Missing
<1>4. CASE Quiet \/ EncoderFinishes
  <2>1. UNCHANGED <<delivered, encIn, m_pTasks, job>>
    BY <1>4 DEF Quiet, EncoderFinishes, encVars, poolVars
  <2>2. \A j : Accounted(j)' <=> Accounted(j)
    BY <1>0, <2>1 DEF Accounted, InATask, Slots
  <2> QED  BY <1>3, <2>1, <2>2
<1>5. ASSUME NEW p \in UsedPools, Synchronized(p) PROVE Missing' \subseteq Missing
  <2>1. PICK i \in Slots(p) : i = m_nTaskBufferStart[p]
    BY <1>0, <1>1, <1>5 DEF PoolTypeOK
  <2>2. PICK h \in Jobs : h = m_pTasks[p][i] /\ h # NoTask
    BY <1>0, <1>1, <1>5, <2>1 DEF Synchronized, SynchronizeFirstTask, InExecution, PoolTypeOK
  <2>3. /\ delivered' = Append(delivered, h) /\ p \in Pools
        /\ m_pTasks' = [m_pTasks EXCEPT ![p][i] = NoTask] /\ UNCHANGED <<encIn, job>>
    BY <1>0, <1>5, <2>1, <2>2 DEF Synchronized, SynchronizeFirstTask, encVars
  <2>4. \A q \in UsedPools : \A k \in Slots(q) :
           m_pTasks[q][k] # h => m_pTasks'[q][k] = m_pTasks[q][k]
    <3>1. \A q \in Pools : m_pTasks[q] \in [Slots(q) -> Jobs \cup {NoTask}]
      BY <1>1 DEF PoolTypeOK
    <3> QED  BY <1>0, <1>1, <2>2, <2>3, <3>1
  <2>5. PICK d \in Seq(Jobs) : d = delivered
    BY <1>1
  <2>6. /\ \E k \in 1..Len(Append(d, h)) : Append(d, h)[k] = h
        /\ \A j : (\E k \in 1..Len(d) : d[k] = j)
                     => \E k \in 1..Len(Append(d, h)) : Append(d, h)[k] = j
    BY AppendKeeps
  <2>7. /\ \E k \in 1..Len(delivered') : delivered'[k] = h
        /\ \A j : (\E k \in 1..Len(delivered) : delivered[k] = j)
                     => \E k \in 1..Len(delivered') : delivered'[k] = j
    BY Zenon, <2>3, <2>5, <2>6
  <2>8. \A j : InATask(j) => InATask(j)' \/ j = h
    BY <1>0, <2>4 DEF InATask, Slots
  <2> QED  BY <1>0, <1>3, <2>3, <2>7, <2>8 DEF Accounted
<1>6. CASE JobDrained
  <2>1. /\ encIn[0] # <<>> /\ Submit(0, pCurrentTask, Head(encIn[0]))
        /\ encIn' = [encIn EXCEPT ![0] = Tail(encIn[0])] /\ job' = job /\ delivered' = delivered
        /\ UsedPools = {0}
    BY <1>0, <1>6 DEF JobDrained, DrainEncoder, Submit
  <2>2. PICK q \in Seq(1..Len(job)) : q = encIn[0]
    BY <1>0, <1>1
  <2>3. PICK h \in 1..Len(job) : h = Head(q)
    BY <2>1, <2>2, TailElements
  <2>4. InATask(h)' /\ \A j : InATask(j) => InATask(j)'
    <3>1. h # NoTask
      BY <1>2, PoolAssumption DEF NumbersSuffice
    <3>2. Submit(0, pCurrentTask, h)
      BY <2>1, <2>2, <2>3
    <3> QED  BY <1>0, <1>1, <2>1, <3>1, <3>2, SubmitKeepsTasks
  <2>5. encIn'[0] = Tail(q)
    BY <1>0, <1>1, <2>1, <2>2
  <2>6. \A j : (\E k \in 1..Len(q) : q[k] = j)
                 => j = h \/ \E k \in 1..Len(Tail(q)) : Tail(q)[k] = j
    <3>1. \A j : (\E k \in 1..Len(q) : q[k] = j)
                   => j = Head(q) \/ \E k \in 1..Len(Tail(q)) : Tail(q)[k] = j
      <4>1. q \in Seq(1..Len(job)) /\ q # <<>>
        BY <2>1, <2>2
      <4> QED  BY ZenonT(40), <4>1, TailLeaves
    <3> QED  BY Zenon, <2>3, <3>1
  <2>7. ASSUME NEW j, Accounted(j) PROVE Accounted(j)'
    <3>1. CASE \E k \in 1..Len(delivered) : delivered[k] = j
      BY <2>1, <3>1 DEF Accounted
    <3>2. CASE InATask(j)
      BY <2>4, <3>2 DEF Accounted
    <3>3. CASE \E k \in 1..Len(q) : q[k] = j
      <4>1. CASE j = h
        BY <2>4, <4>1 DEF Accounted
      <4>2. CASE \E k \in 1..Len(Tail(q)) : Tail(q)[k] = j
        <5>1. \E k \in 1..Len(encIn'[0]) : encIn'[0][k] = j
          BY Zenon, <2>5, <4>2
        <5>2. 0 \in UsedPools'
          BY <1>0, <2>1
        <5> QED  BY <5>1, <5>2 DEF Accounted
      <4> QED  BY <2>6, <3>3, <4>1, <4>2
    <3> QED  BY <2>1, <2>2, <2>7, <3>1, <3>2, <3>3 DEF Accounted
  <2> QED  BY <1>3, <2>1, <2>7
<1>7. CASE FrameGiven
  <2>0. PICK p \in UsedPools : p = region
    BY <1>7 DEF FrameGiven
  <2>1. p \in Pools /\ EncodeFrame(p, nEncSurfIdx) /\ nEncSurfIdx \in Surfaces
    BY <1>0, <1>7, <2>0 DEF FrameGiven
  <2>2. PICK n \in Nat \ {0} : n = Len(job) + 1
    BY <1>1
  <2>3. Len(job') = n
    BY <2>1, <2>2, EncodeFrameTypes
  <2>4. 1..Len(job) \subseteq 1..n /\ n \in 1..n
    BY <1>1, <2>2
  <2>5. PICK e \in Seq(1..n) : e = encIn[p]
    <3>1. encIn[p] \in Seq(1..n)
      BY <1>1, <2>1, <2>4, SeqMonotonic
    <3> QED  BY <3>1
  <2>6. PICK a \in Seq(1..n) : a = Append(e, n) /\ a # <<>>
    <3>1. Append(e, n) \in Seq(1..n)
      BY <2>4, AppendElements
    <3>2. Append(e, n) # <<>>
      BY AppendNonempty
    <3> QED  BY <3>1, <3>2
  <2>7. /\ \E k \in 1..Len(a) : a[k] = n
        /\ \A j : (\E k \in 1..Len(e) : e[k] = j) => \E k \in 1..Len(a) : a[k] = j
    <3>1. PICK m \in 1..n : m = n
      BY <2>4
    <3>2. /\ \E k \in 1..Len(Append(e, m)) : Append(e, m)[k] = m
          /\ \A j : (\E k \in 1..Len(e) : e[k] = j)
                       => \E k \in 1..Len(Append(e, m)) : Append(e, m)[k] = j
      BY AppendKeeps
    <3> QED  BY Zenon, <2>6, <3>1, <3>2
  <2>8. PICK h \in 1..n : h = Head(a)
    BY <2>6, TailElements
  <2>9. h # NoTask
    BY <1>2, <2>3, PoolAssumption DEF NumbersSuffice
  <2>10. \/ Submit(p, pCurrentTask, h) /\ encIn' = [encIn EXCEPT ![p] = Tail(a)]
         \/ encIn' = [encIn EXCEPT ![p] = a] /\ UNCHANGED poolVars
    BY <2>1, <2>2, <2>5, <2>6, <2>8 DEF EncodeFrame
  <2>11. p \in UsedPools' /\ delivered' = delivered
    BY <1>0, <2>10 DEF Submit, poolVars
  <2>12. \A j : InATask(j) => InATask(j)'
    <3>1. CASE Submit(p, pCurrentTask, h)
      BY <1>0, <1>1, <2>1, <2>9, <3>1, SubmitKeepsTasks
    <3>2. CASE UNCHANGED poolVars
      BY <1>0, <3>2 DEF poolVars, InATask, Slots
    <3> QED  BY <2>10, <3>1, <3>2
  <2>13. ASSUME NEW j, \E k \in 1..Len(a) : a[k] = j PROVE Accounted(j)'
    <3>1. CASE Submit(p, pCurrentTask, h) /\ encIn' = [encIn EXCEPT ![p] = Tail(a)]
      <4>1. InATask(h)'
        BY <1>0, <1>1, <2>1, <2>9, <3>1, SubmitKeepsTasks
      <4>2. j = h \/ \E k \in 1..Len(Tail(a)) : Tail(a)[k] = j
        <5>1. \A i : (\E k \in 1..Len(a) : a[k] = i)
                         => i = Head(a) \/ \E k \in 1..Len(Tail(a)) : Tail(a)[k] = i
          <6>1. a \in Seq(1..n) /\ a # <<>>
            BY <2>6
          <6> QED  BY ZenonT(40), <6>1, TailLeaves
        <5> QED  BY Zenon, <2>8, <2>13, <5>1
      <4>3. encIn'[p] = Tail(a)
        BY <1>1, <2>1, <3>1
      <4>5. CASE j = h
        BY <4>1, <4>5 DEF Accounted
      <4>6. CASE \E k \in 1..Len(Tail(a)) : Tail(a)[k] = j
        <5>1. \E k \in 1..Len(encIn'[p]) : encIn'[p][k] = j
          BY Zenon, <4>3, <4>6
        <5> QED  BY <2>11, <5>1 DEF Accounted
      <4> QED  BY <4>2, <4>5, <4>6
    <3>2. CASE encIn' = [encIn EXCEPT ![p] = a]
      <4>1. encIn'[p] = a
        BY <1>1, <2>1, <3>2
      <4>2. \E k \in 1..Len(encIn'[p]) : encIn'[p][k] = j
        BY Zenon, <2>13, <4>1
      <4> QED  BY <2>11, <4>2 DEF Accounted
    <3> QED  BY <2>10, <3>1, <3>2
  <2>14. ASSUME NEW j, Accounted(j) PROVE Accounted(j)'
    <3>1. CASE \E k \in 1..Len(delivered) : delivered[k] = j
      BY <2>11, <3>1 DEF Accounted
    <3>2. CASE InATask(j)
      BY <2>12, <3>2 DEF Accounted
    <3>3. ASSUME NEW q \in UsedPools, NEW k \in 1..Len(encIn[q]), encIn[q][k] = j
          PROVE  Accounted(j)'
      <4>1. CASE q = p
        BY <2>5, <2>7, <2>13, <3>3, <4>1
      <4>2. CASE q # p
        <5>1. encIn'[q] = encIn[q]
          BY <1>0, <1>1, <2>10, <3>3, <4>2
        <5> QED  BY <1>0, <3>3, <5>1 DEF Accounted
      <4> QED  BY <4>1, <4>2
    <3> QED  BY <2>14, <3>1, <3>2, <3>3 DEF Accounted
  <2>15. \A j \in 1..n : j \in 1..Len(job) \/ j = n
    BY <1>1, <2>2
  <2> QED  BY <2>3, <2>7, <2>13, <2>14, <2>15 DEF Missing
<1> QED  BY <1>4, <1>5, <1>6, <1>7 DEF JobStep

(* What a hang costs.                                                      *)
LEMMA ClearedTasksMissing ==
    ASSUME IInv, Typed, TasksCleared, opt' = opt, Missing = {}
    PROVE  IsFiniteSet(Missing') /\ Cardinality(Missing') <= PoolSize[0]
<1> DEFINE f == m_pTasks[0]
           S == Slots(0)
           T == {f[i] : i \in S}
<1>1. /\ UsedPools = {0} /\ UsedPools' = {0} /\ PoolSize[0] \in Nat \ {0}
      /\ f \in [S -> Jobs \cup {NoTask}]
  <2>1. UsedPools = {0} /\ 0 \in Pools
    BY OptFacts DEF TasksCleared, Typed, ControlTypes
  <2>2. UsedPools' = UsedPools
    BY DEF UsedPools
  <2> QED  BY <2>1, <2>2, PoolFacts DEF IInv, PoolTypeOK
<1>2. UNCHANGED <<delivered, encIn, job>>
    BY DEF TasksCleared, ClearTasks, encVars
<1>3. Missing' \subseteq T
  <2> SUFFICES ASSUME NEW j \in Missing' PROVE j \in T
    OBVIOUS
  <2>1. j \in 1..Len(job) /\ ~Accounted(j)'
    BY <1>2 DEF Missing
  <2>2. Accounted(j)
    BY <2>1 DEF Missing
  <2>3. InATask(j)
    BY <1>1, <1>2, <2>1, <2>2 DEF Accounted
  <2> QED  BY <1>1, <2>3 DEF InATask
<1>4. IsFiniteSet(S) /\ Cardinality(S) = PoolSize[0]
  <2> HIDE DEF T, f
  <2> QED  BY <1>1, FS_Interval DEF Slots
<1>5. f \in Surjection(S, T)
  <2>1. f \in [S -> T]
    BY <1>1
  <2> QED  BY <2>1 DEF Surjection
<1> HIDE DEF f, S, T
<1>6. IsFiniteSet(T) /\ Cardinality(T) <= Cardinality(S)
    BY <1>4, <1>5, FS_Surjection
<1>7. IsFiniteSet(Missing') /\ Cardinality(Missing') <= Cardinality(T)
  <2>1. ASSUME NEW M, M \subseteq T PROVE IsFiniteSet(M) /\ Cardinality(M) <= Cardinality(T)
    BY <1>6, <2>1, FS_Subset
  <2> QED  BY <1>3, <2>1
<1>8. Cardinality(Missing') \in Nat /\ Cardinality(T) \in Nat
    BY <1>6, <1>7, FS_CardinalityType
<1> QED  BY <1>1, <1>4, <1>6, <1>7, <1>8

LEMMA MissingBoundStep ==
    ASSUME IInv, Typed, MissingBound, Sound', [Next \/ Terminated]_vars, Typed', ~RecoverDevice
    PROVE  MissingBound'
<1>0. JobStep /\ opt' = opt /\ seen \subseteq seen' /\ PoolSize[0] \in Nat
    BY StepIsJobStep, SeenGrows, PoolFacts
<1>1. CASE TasksCleared
  <2>1. "hang" \notin seen /\ "hang" \in seen'
    BY <1>1 DEF TasksCleared, Sound
  <2> QED  BY <1>0, <1>1, <2>1, ClearedTasksMissing DEF MissingBound
<1>2. CASE ~TasksCleared
  <2>1. Missing' \subseteq Missing
    BY <1>0, <1>2, NoneGoesMissing
  <2>2. IsFiniteSet(Missing') /\ Cardinality(Missing') <= Cardinality(Missing)
    <3>1. ASSUME NEW M, M \subseteq Missing
          PROVE  IsFiniteSet(M) /\ Cardinality(M) <= Cardinality(Missing)
      BY <3>1, FS_Subset DEF MissingBound
    <3> QED  BY <2>1, <3>1
  <2>3. Cardinality(Missing') \in Nat /\ Cardinality(Missing) \in Nat
    BY <2>2, FS_CardinalityType DEF MissingBound
  <2> QED  BY <1>0, <2>1, <2>2, <2>3 DEF MissingBound
<1> QED  BY <1>1, <1>2

(* How frames move: they stay where they are; one is read into the surface *)
(* to encode, or to VPP; VPP outputs one; and one is given to an encoder.  *)
LEMMA PlaceFacts ==
    ASSUME Typed
    PROVE  /\ FramesRead \in Nat /\ Len(vppHeld) \in Nat /\ vppHeld \in Seq(1..NumFrames)
           /\ \A p : Given(p) \in Nat
<1>1. FramesRead \in Nat
    BY FramesReadFacts DEF Typed, ControlTypes
<1>2. vppHeld \in Seq(1..NumFrames) /\ Len(vppHeld) \in Nat /\ Len(job) \in Nat /\ JobTypes
    BY DEF Typed, JobTypes
<1> QED  BY <1>1, <1>2, GivenFacts DEF Given

LEMMA FramesStay ==
    ASSUME FramesPlaced, UNCHANGED <<opt, job, vppHeld>>, FramesRead' = FramesRead,
           \A p \in UsedPools : /\ Waits(p)' <=> Waits(p)
                                /\ Waits(p) => UNCHANGED <<content, nEncSurfIdx>>
    PROVE  FramesPlaced'
<1>1. /\ UsedPools' = UsedPools /\ \A p : Given(p)' = Given(p)
      /\ JobsAsRead' <=> JobsAsRead
    BY GivenStays
<1>2. \A p \in UsedPools : Due(p)' = Due(p)
    BY DEF Due
<1> QED  BY <1>1, <1>2 DEF FramesPlaced, AllGiven, FramesAsRead, ReadAs

LEMMA FrameReadIn ==
    ASSUME Typed, FramesPlaced, UNCHANGED <<opt, job, vppHeld>>, LoadNextFrame, vppHeld = <<>>,
           \A p \in UsedPools : ~Waits(p) /\ Waits(p)',
           opt.kind # "user" => content'[nEncSurfIdx'] = pos'
    PROVE  FramesPlaced'
<1>1. /\ UsedPools' = UsedPools /\ \A p : Given(p)' = Given(p)
      /\ JobsAsRead' <=> JobsAsRead
    BY GivenStays
<1>2. \A p \in UsedPools : Due(p)' = 1 /\ Due(p) = 0
    BY DEF Due
<1>3. FramesRead' = FramesRead + 1 /\ pos' = ReadAs(FramesRead + 1) /\ FramesRead \in Nat
    BY LoadNextFrameCounts, NextIsReadAs
<1>4. Len(vppHeld) = 0 /\ Len(vppHeld') = 0
    OBVIOUS
<1>5. \A p \in UsedPools : Given(p) = FramesRead /\ Given(p)' + 1 + 0 = FramesRead'
    BY <1>1, <1>2, <1>3, <1>4, PlaceFacts DEF FramesPlaced, AllGiven
<1>6. AllGiven'
    BY <1>1, <1>2, <1>4, <1>5 DEF AllGiven
<1>7. ASSUME opt.kind # "user" PROVE FramesAsRead'
  <2>1. \A p \in UsedPools : content'[nEncSurfIdx'] = ReadAs(Given(p)' + 1)
    BY <1>1, <1>3, <1>5, <1>7
  <2> QED  BY <1>1, <1>4, <2>1 DEF FramesAsRead, ReadAs
<1> QED  BY <1>1, <1>6, <1>7 DEF FramesPlaced

LEMMA FrameToVpp ==
    ASSUME Typed, FramesPlaced, UNCHANGED <<opt, job>>, LoadNextFrame,
           vppHeld' = Append(vppHeld, pos'), \A p \in UsedPools : ~Waits(p) /\ ~Waits(p)'
    PROVE  FramesPlaced'
<1>1. /\ UsedPools' = UsedPools /\ \A p : Given(p)' = Given(p)
      /\ JobsAsRead' <=> JobsAsRead
    BY GivenStays
<1>2. \A p \in UsedPools : Due(p)' = 0 /\ Due(p) = 0
    BY DEF Due
<1>3. /\ FramesRead' = FramesRead + 1 /\ pos' = ReadAs(FramesRead + 1) /\ FramesRead \in Nat
      /\ pos' \in 1..NumFrames
    BY LoadNextFrameCounts, NextIsReadAs
<1>4. PICK v \in Seq(1..NumFrames), n \in Nat : v = vppHeld /\ n = Len(v)
    BY PlaceFacts
<1>5. PICK f \in 1..NumFrames : f = pos'
    BY <1>3
<1>6. /\ Len(Append(v, f)) = n + 1 /\ Append(v, f)[n + 1] = f
      /\ \A i \in 1..n : Append(v, f)[i] = v[i]
    BY <1>4, AppendElements
<1>7. /\ Len(vppHeld') = n + 1 /\ vppHeld'[n + 1] = f /\ \A i \in 1..n : vppHeld'[i] = v[i]
    BY <1>4, <1>5, <1>6
<1>8. \A p \in UsedPools : Given(p) \in Nat /\ Given(p) + n = FramesRead
    BY <1>2, <1>4, PlaceFacts DEF FramesPlaced, AllGiven
<1>9. AllGiven'
    BY <1>1, <1>2, <1>3, <1>7, <1>8 DEF AllGiven
<1>10. ASSUME opt.kind # "user" PROVE FramesAsRead'
  <2>1. \A p \in UsedPools : \A i \in 1..n : v[i] = ReadAs(Given(p) + i)
    BY <1>2, <1>4, <1>8, <1>10 DEF FramesPlaced, FramesAsRead
  <2>2. \A p \in UsedPools : f = ReadAs(Given(p) + (n + 1))
    <3>1. \A p \in UsedPools : Given(p) + (n + 1) = FramesRead + 1
      BY <1>4, <1>8
    <3>2. f = ReadAs(FramesRead + 1)
      BY <1>3, <1>5
    <3> QED  BY <3>1, <3>2
  <2>3. \A i \in 1..(n + 1) : i \in 1..n \/ i = n + 1
    BY <1>4
  <2>4. \A p \in UsedPools : \A i \in 1..(n + 1) : vppHeld'[i] = ReadAs(Given(p) + i)
    BY <1>7, <2>1, <2>2, <2>3
  <2>5. \A p \in UsedPools : \A i \in 1..(n + 1) : vppHeld'[i] = ReadAs(Given(p)' + Due(p)' + i)
    BY <1>1, <1>2, <1>4, <1>8, <2>4
  <2> QED  BY <1>1, <1>7, <2>5 DEF FramesAsRead, ReadAs
<1> QED  BY <1>1, <1>9, <1>10 DEF FramesPlaced

LEMMA FrameFromVpp ==
    ASSUME Typed, FramesPlaced, UNCHANGED <<opt, job>>, FramesRead' = FramesRead,
           vppHeld # <<>>, vppHeld' = Tail(vppHeld), content'[nEncSurfIdx'] = Head(vppHeld),
           \A p \in UsedPools : ~Waits(p) /\ Waits(p)'
    PROVE  FramesPlaced'
<1>1. /\ UsedPools' = UsedPools /\ \A p : Given(p)' = Given(p)
      /\ JobsAsRead' <=> JobsAsRead
    BY GivenStays
<1>2. \A p \in UsedPools : Due(p)' = 1 /\ Due(p) = 0
    BY DEF Due
<1>4. PICK v \in Seq(1..NumFrames), n \in Nat : v = vppHeld /\ n = Len(v)
    BY PlaceFacts
<1>5. n \in Nat \ {0} /\ Head(v) = v[1] /\ Len(Tail(v)) = n - 1 /\ \A i \in 1..(n - 1) : Tail(v)[i] = v[i + 1]
    BY <1>4, TailElements
<1>6. /\ Len(vppHeld') = n - 1 /\ content'[nEncSurfIdx'] = v[1]
      /\ \A i \in 1..(n - 1) : vppHeld'[i] = v[i + 1]
    BY <1>4, <1>5
<1>7. \A p \in UsedPools : Given(p) \in Nat /\ Given(p) + n = FramesRead
    BY <1>2, <1>4, PlaceFacts DEF FramesPlaced, AllGiven
<1>8. AllGiven'
    BY <1>1, <1>2, <1>5, <1>6, <1>7 DEF AllGiven
<1>9. ASSUME opt.kind # "user" PROVE FramesAsRead'
  <2>1. \A p \in UsedPools : \A i \in 1..n : v[i] = ReadAs(Given(p) + i)
    BY <1>2, <1>4, <1>7, <1>9 DEF FramesPlaced, FramesAsRead
  <2>2. \A p \in UsedPools : v[1] = ReadAs(Given(p) + 1)
    BY <1>5, <2>1
  <2>3. ASSUME NEW p \in UsedPools, NEW i \in 1..(n - 1)
        PROVE  vppHeld'[i] = ReadAs(Given(p)' + Due(p)' + i)
    <3>1. i + 1 \in 1..n /\ Given(p) + (i + 1) = Given(p) + 1 + i
      BY <1>5, <1>7
    <3>2. vppHeld'[i] = ReadAs(Given(p) + (i + 1))
      BY <1>6, <2>1, <3>1
    <3> QED  BY <1>1, <1>2, <3>1, <3>2
  <2> QED  BY <1>1, <1>6, <2>2, <2>3 DEF FramesAsRead, ReadAs
<1> QED  BY <1>1, <1>8, <1>9 DEF FramesPlaced

LEMMA FrameToEncoder ==
    ASSUME Typed, FramesPlaced, FrameGiven, opt' = opt, FramesRead' = FramesRead,
           \A p \in UsedPools : Waits(p)' <=> Waits(p) /\ p # region,
           Waits(region)
    PROVE  FramesPlaced'
<1>1. /\ UsedPools' = UsedPools /\ region \in UsedPools
      /\ \A p : Given(p)' = IF p = region THEN Given(p) + 1 ELSE Given(p)
      /\ JobsAsRead /\ content[nEncSurfIdx] = ReadAs(Given(region) + 1) => JobsAsRead'
    BY GivenMore
<1>2. \A p \in UsedPools : Due(p) \in {0, 1} /\ Due(p)' = IF p = region THEN Due(p) - 1 ELSE Due(p)
    BY DEF Due
<1>3. UNCHANGED <<vppHeld, content, nEncSurfIdx>>
    BY DEF FrameGiven, surfVars
<1>4. \A p \in UsedPools : Given(p) \in Nat /\ Given(p)' + Due(p)' = Given(p) + Due(p)
    BY <1>1, <1>2, PlaceFacts
<1>5. AllGiven'
    BY <1>1, <1>3, <1>4 DEF AllGiven, FramesPlaced
<1>6. ASSUME opt.kind # "user" PROVE JobsAsRead' /\ FramesAsRead'
  <2>1. JobsAsRead'
    BY <1>1, <1>6 DEF FramesPlaced, FramesAsRead
  <2>2. \A p \in UsedPools : Waits(p)' => content'[nEncSurfIdx'] = ReadAs(Given(p)' + 1)
    BY <1>1, <1>3, <1>6 DEF FramesPlaced, FramesAsRead
  <2>3. \A p \in UsedPools : \A i \in 1..Len(vppHeld') :
           vppHeld'[i] = ReadAs(Given(p)' + Due(p)' + i)
    BY <1>3, <1>4, <1>6 DEF FramesPlaced, FramesAsRead
  <2> QED  BY <1>1, <2>1, <2>2, <2>3 DEF FramesAsRead, ReadAs
<1> QED  BY <1>5, <1>6 DEF FramesPlaced

(* No frame gets lost on its way to the encoders.                          *)
LEMMA NoOtherFault ==
    ASSUME Sound', NEW f \in {"vpp_hang", "aborted", "timeout", "device", "encode_failed",
                              "vpp_failed", "double", "more_surface"}
    PROVE  ~Fault(f)
  BY DEF Sound, Fault

LEMMA SyncKeeps ==
    ASSUME Sound', NEW late, SyncFails(late), pc' # "failed"
    PROVE  pc' = pc
  BY NoOtherFault DEF SyncFails, TaskHung, GpuHangRecovery

LEMMA FramesAccountedStep ==
    ASSUME IInv, Typed, Sound', FramesAccounted, pc # "device", [Next \/ Terminated]_vars,
           pc' \notin {"failed", "undefined"}
    PROVE  FramesAccounted' /\ pc' # "device"
<1> DEFINE Goal == FramesAccounted' /\ pc' # "device"
<1> USE DEF loopVars, inVars, surfVars, encVars
<1>0. opt' = opt
    BY StepIsJobStep
<1>1. /\ FramesPlaced /\ skipLoading = FALSE
      /\ opt.kind = "region" /\ pc = "frame" => phase = "main"
      /\ ~opt.vpp \/ phase = "enc_drain" => vppHeld = <<>>
      /\ opt.kind # "region" /\ pc \in {"sync", "done"} => phase = "enc_drain" /\ encIn[0] = <<>>
    BY DEF FramesAccounted, Emptied
<1>2. /\ ~Fault("vpp_hang") /\ ~Fault("aborted") /\ ~Fault("timeout") /\ ~Fault("device")
      /\ ~Fault("encode_failed") /\ ~Fault("double") /\ ~Fault("more_surface") /\ ~VppFails
    BY NoOtherFault DEF VppFails
<1>3. ASSUME FramesPlaced', skipLoading' = FALSE, pc' # "device",
             opt.kind = "region" /\ pc' = "frame" => phase' = "main",
             ~opt.vpp \/ phase' = "enc_drain" => vppHeld' = <<>>,
             opt.kind # "region" /\ pc' \in {"sync", "done"} =>
                 phase' = "enc_drain" /\ encIn'[0] = <<>>
      PROVE  Goal
    BY <1>0, <1>3 DEF FramesAccounted, Emptied
<1>4. ASSUME opt.kind # "region"
      PROVE  /\ UsedPools = {0} /\ region = 0
             /\ \A p \in UsedPools : Waits(p) <=> \/ pc = "encode" /\ phase # "enc_drain"
                                                  \/ pc = "task" /\ phase = "vpp_drain"
             /\ \A p \in UsedPools : Waits(p)' <=> \/ pc' = "encode" /\ phase' # "enc_drain"
                                                   \/ pc' = "task" /\ phase' = "vpp_drain"
    BY <1>0, <1>1, <1>4, OptFacts DEF Waits, Typed, ControlTypes, PipelineControl
<1>5. ASSUME opt.kind = "region"
      PROVE  /\ UsedPools = Regions /\ ~opt.vpp /\ vppHeld = <<>>
             /\ \A p \in UsedPools : Waits(p) <=> phase = "main" /\ InTheLoop /\ region <= p
             /\ \A p \in UsedPools : Waits(p)' <=> phase' = "main" /\ InTheLoop' /\ region' <= p
    BY <1>0, <1>1, <1>5, OptFacts DEF Waits, Typed, ControlTypes
<1>6. CASE EncodeStep
  <2>0. opt.kind # "region"
    BY <1>6 DEF EncodeStep
  <2>1. CASE GetFreeTask
    <3>1. /\ UNCHANGED <<job, vppHeld, content, nEncSurfIdx, phase, skipLoading, pos, passes, encIn>>
          /\ pc = "task" /\ pc' \in {"task", "frame", "encode"}
          /\ pc' = "encode" => phase # "main"
          /\ pc' = "frame" => phase = "main"
      BY <2>1, SyncKeeps DEF GetFreeTask
    <3>2. \A p \in UsedPools : Waits(p)' <=> Waits(p)
      <4>1. phase = "vpp_drain" \/ phase = "enc_drain" \/ phase = "main"
        BY DEF Typed, ControlTypes
      <4> QED  BY <1>4, <2>0, <3>1, <4>1
    <3>3. FramesPlaced'
      BY <1>0, <1>1, <3>1, <3>2, FramesStay DEF FramesRead
    <3> QED  BY <1>1, <1>3, <2>0, <3>1, <3>3
  <2>2. CASE StopAtLimit \/ EndOfFile
    <3>1. /\ UNCHANGED <<job, vppHeld, content, skipLoading, encIn>>
          /\ pc \in {"task", "frame"} /\ phase = "main" /\ FramesRead' = FramesRead
          /\ \/ pc' = "task" /\ phase' = phase
             \/ pc' = "task" /\ ~opt.vpp /\ phase' = "enc_drain"
             \/ pc' = "frame" /\ opt.vpp /\ phase' = "vpp_drain"
      <4>1. CASE StopAtLimit
        BY <4>1 DEF StopAtLimit, LimitReached, Drain, FramesRead
      <4>2. CASE EndOfFile
        <5>1. FramesRead' = FramesRead
          BY <4>2, RewindCounts DEF EndOfFile, FramesRead
        <5> QED  BY <4>2, <5>1 DEF EndOfFile, Drain
      <4> QED  BY <2>2, <4>1, <4>2
    <3>2. \A p \in UsedPools : ~Waits(p)' /\ ~Waits(p)
      BY <1>4, <2>0, <3>1
    <3>3. FramesPlaced'
      BY <1>0, <1>1, <3>1, <3>2, FramesStay
    <3> QED  BY <1>1, <1>3, <2>0, <3>1, <3>3
  <2>3. CASE ReadFrame
    <3>1. /\ UNCHANGED <<job, phase, encIn, skipLoading>> /\ pc = "frame" /\ phase = "main"
          /\ LoadNextFrame /\ nEncSurfIdx' = FreeSurface /\ FreeSurface \in Surfaces
          /\ content' = (IF opt.vpp \/ opt.kind = "user" THEN content
                         ELSE [content EXCEPT ![FreeSurface] = pos'])
          /\ vppHeld' = (IF opt.vpp THEN Append(vppHeld, pos') ELSE vppHeld)
          /\ pc' = (IF opt.vpp THEN "vpp" ELSE "encode")
      BY <1>1, <2>3, FreeSurfaceFacts DEF ReadFrame
    <3>2. CASE opt.vpp
      <4>1. \A p \in UsedPools : ~Waits(p)' /\ ~Waits(p)
        BY <1>4, <2>0, <3>1, <3>2
      <4>2. FramesPlaced'
        BY <1>0, <1>1, <3>1, <3>2, <4>1, FrameToVpp
      <4> QED  BY <1>1, <1>3, <2>0, <3>1, <3>2, <4>2
    <3>3. CASE ~opt.vpp
      <4>1. \A p \in UsedPools : ~Waits(p) /\ Waits(p)'
        BY <1>4, <2>0, <3>1, <3>3
      <4>2. opt.kind # "user" => content'[nEncSurfIdx'] = pos'
        BY <3>1, <3>3 DEF Typed, JobTypes
      <4>3. vppHeld' = vppHeld /\ vppHeld = <<>>
        BY <1>1, <3>1, <3>3
      <4>4. FramesPlaced'
        BY <1>0, <1>1, <3>1, <4>1, <4>2, <4>3, FrameReadIn
      <4> QED  BY <1>1, <1>3, <2>0, <3>1, <3>3, <4>3, <4>4
    <3> QED  BY <3>2, <3>3
  <2>4. CASE RunVpp
    <3>1. /\ UNCHANGED <<job, phase, encIn, nEncSurfIdx, pos, passes>> /\ pc = "vpp" /\ skipLoading' = FALSE
          /\ opt.vpp /\ phase = "main"
          /\ \/ pc' = "task" /\ UNCHANGED <<content, vppHeld>>
             \/ /\ vppHeld # <<>> /\ vppHeld' = Tail(vppHeld) /\ pc' = "encode"
                /\ content' = [content EXCEPT ![nEncSurfIdx] = Head(vppHeld)]
      BY <1>2, <2>0, <2>4 DEF RunVpp, VppKeeps, VppOutputs, Typed, PipelineControl
    <3>2. CASE pc' = "task" /\ UNCHANGED <<content, vppHeld>>
      <4>1. \A p \in UsedPools : ~Waits(p)' /\ ~Waits(p)
        BY <1>4, <2>0, <3>1, <3>2
      <4>2. FramesPlaced'
        BY <1>0, <1>1, <3>1, <3>2, <4>1, FramesStay DEF FramesRead
      <4> QED  BY <1>1, <1>3, <2>0, <3>1, <3>2, <4>2
    <3>3. CASE /\ vppHeld # <<>> /\ vppHeld' = Tail(vppHeld) /\ pc' = "encode"
               /\ content' = [content EXCEPT ![nEncSurfIdx] = Head(vppHeld)]
      <4>1. \A p \in UsedPools : ~Waits(p) /\ Waits(p)'
        BY <1>4, <2>0, <3>1, <3>3
      <4>2. content'[nEncSurfIdx'] = Head(vppHeld) /\ FramesRead' = FramesRead
        BY <3>1, <3>3 DEF Typed, JobTypes, FramesRead
      <4>3. FramesPlaced'
        BY <1>0, <1>1, <3>1, <3>3, <4>1, <4>2, FrameFromVpp
      <4> QED  BY <1>1, <1>3, <2>0, <3>1, <3>3, <4>3
    <3> QED  BY <3>1, <3>2, <3>3
  <2>5. CASE DrainVpp
    <3>1. /\ UNCHANGED <<job, encIn, pos, passes, skipLoading>> /\ pc = "frame" /\ phase = "vpp_drain"
          /\ FreeSurface \in Surfaces /\ nEncSurfIdx' = FreeSurface /\ pc' = "task"
          /\ \/ vppHeld = <<>> /\ phase' = "enc_drain" /\ UNCHANGED <<content, vppHeld>>
             \/ /\ vppHeld # <<>> /\ vppHeld' = Tail(vppHeld) /\ phase' = phase
                /\ content' = [content EXCEPT ![FreeSurface] = Head(vppHeld)]
      BY <1>2, <2>5, FreeSurfaceFacts DEF DrainVpp
    <3>2. CASE vppHeld = <<>> /\ phase' = "enc_drain" /\ UNCHANGED <<content, vppHeld>>
      <4>1. \A p \in UsedPools : ~Waits(p)' /\ ~Waits(p)
        BY <1>4, <2>0, <3>1, <3>2
      <4>2. FramesPlaced'
        BY <1>0, <1>1, <3>1, <3>2, <4>1, FramesStay DEF FramesRead
      <4> QED  BY <1>1, <1>3, <2>0, <3>1, <3>2, <4>2
    <3>3. CASE /\ vppHeld # <<>> /\ vppHeld' = Tail(vppHeld) /\ phase' = phase
               /\ content' = [content EXCEPT ![FreeSurface] = Head(vppHeld)]
      <4>1. \A p \in UsedPools : ~Waits(p) /\ Waits(p)'
        BY <1>4, <2>0, <3>1, <3>3
      <4>2. content'[nEncSurfIdx'] = Head(vppHeld) /\ FramesRead' = FramesRead
        BY <3>1, <3>3 DEF Typed, JobTypes, FramesRead
      <4>3. FramesPlaced'
        BY <1>0, <1>1, <3>1, <3>3, <4>1, <4>2, FrameFromVpp
      <4>4. opt.vpp
        BY <1>1, <3>3
      <4> QED  BY <1>1, <1>3, <2>0, <3>1, <3>3, <4>3, <4>4
    <3> QED  BY <3>1, <3>2, <3>3
  <2>6. CASE Encode
    <3>1. /\ pc = "encode" /\ phase # "enc_drain" /\ UNCHANGED <<phase, skipLoading, pos, passes, vppHeld>>
          /\ pc' = (IF phase = "main" THEN "task" ELSE "frame")
          /\ EncodeFrame(0, nEncSurfIdx) /\ UNCHANGED <<seen, surfVars>>
      BY <1>2, <2>6 DEF Encode
    <3>2. FrameGiven
      BY <1>4, <2>0, <3>1 DEF FrameGiven, Typed, JobTypes
    <3>3. \A p \in UsedPools : Waits(p) /\ ~Waits(p)' /\ p = region
      BY <1>4, <2>0, <3>1
    <3>4. FramesPlaced'
      <4>1. Waits(region)
        BY <1>4, <2>0, <3>3
      <4> QED  BY <1>0, <1>1, <3>1, <3>2, <3>3, <4>1, FrameToEncoder DEF FramesRead
    <3> QED  BY <1>1, <1>3, <2>0, <3>1, <3>4
  <2>7. CASE EncodeDrained
    <3>1. /\ pc = "encode" /\ phase = "enc_drain"
          /\ UNCHANGED <<job, phase, skipLoading, pos, passes, vppHeld, content, nEncSurfIdx>>
          /\ \/ pc' = "task"
             \/ pc' = "sync" /\ encIn[0] = <<>> /\ encIn' = encIn
      BY <1>2, <2>7 DEF EncodeDrained, DrainEncoder
    <3>2. \A p \in UsedPools : ~Waits(p)' /\ ~Waits(p)
      BY <1>4, <2>0, <3>1
    <3>3. FramesPlaced'
      BY <1>0, <1>1, <3>1, <3>2, FramesStay DEF FramesRead
    <3> QED  BY <1>1, <1>3, <2>0, <3>1, <3>3
  <2>8. CASE SynchronizeAll
    <3>1. /\ pc = "sync" /\ pc' \in {"sync", "done"}
          /\ UNCHANGED <<job, phase, skipLoading, pos, passes, vppHeld, content, nEncSurfIdx, encIn>>
      BY <1>2, <2>8, SyncKeeps DEF SynchronizeAll
    <3>2. \A p \in UsedPools : ~Waits(p)' /\ ~Waits(p)
      BY <1>4, <2>0, <3>1
    <3>3. FramesPlaced'
      BY <1>0, <1>1, <3>1, <3>2, FramesStay DEF FramesRead
    <3> QED  BY <1>1, <1>3, <2>0, <3>1, <3>3
  <2> HIDE DEF Goal
  <2> QED  BY <1>6, <2>1, <2>2, <2>3, <2>4, <2>5, <2>6, <2>7, <2>8 DEF EncodeStep
<1>7. CASE RegionStep
  <2>0. opt.kind = "region" /\ LastRegion \in Nat /\ Regions = 1..LastRegion /\ ~opt.vpp
    BY <1>5, <1>7, PoolFacts DEF RegionStep
  <2>1. CASE RegionReadFrame
    <3>1. /\ UNCHANGED <<job, phase, encIn, skipLoading, vppHeld>> /\ pc = "frame" /\ phase = "main"
          /\ LoadNextFrame /\ nEncSurfIdx' = FreeSurface /\ FreeSurface \in Surfaces
          /\ content' = [content EXCEPT ![FreeSurface] = pos']
          /\ region' = 1 /\ pc' = "task"
      BY <1>1, <2>0, <2>1, FreeSurfaceFacts DEF RegionReadFrame, FirstRegion
    <3>2. \A p \in UsedPools : ~Waits(p) /\ Waits(p)'
      BY <1>5, <2>0, <3>1 DEF InTheLoop
    <3>3. content'[nEncSurfIdx'] = pos'
      BY <3>1 DEF Typed, JobTypes
    <3>4. FramesPlaced'
      BY <1>0, <1>1, <1>5, <2>0, <3>1, <3>2, <3>3, FrameReadIn
    <3> QED  BY <1>1, <1>3, <1>5, <2>0, <3>1, <3>4
  <2>2. CASE RegionEndOfFile
    <3>1. /\ UNCHANGED <<job, encIn, skipLoading, vppHeld>> /\ pc = "frame" /\ phase = "main"
          /\ FramesRead' = FramesRead
          /\ \/ pc' = pc /\ phase' = phase
             \/ pc' = "task" /\ phase' = "enc_drain"
      <4>1. FramesRead' = FramesRead
        BY <2>2, RewindCounts DEF RegionEndOfFile, FramesRead
      <4> QED  BY <1>1, <2>0, <2>2, <4>1 DEF RegionEndOfFile
    <3>2. \A p \in UsedPools : ~Waits(p) /\ ~Waits(p)'
      BY <1>5, <2>0, <3>1 DEF InTheLoop
    <3>3. FramesPlaced'
      BY <1>0, <1>1, <3>1, <3>2, FramesStay
    <3> QED  BY <1>1, <1>3, <1>5, <2>0, <3>1, <3>3
  <2>3. CASE RegionGetFreeTask \/ RegionSynchronize
    <3>1. /\ UNCHANGED <<job, phase, encIn, skipLoading, vppHeld, content, nEncSurfIdx, pos, passes, region>>
          /\ InTheLoop /\ InTheLoop'
      BY <1>2, <2>3 DEF RegionGetFreeTask, RegionSynchronize, NextPool, InTheLoop
    <3>2. \A p \in UsedPools : Waits(p)' <=> Waits(p)
      BY <1>5, <2>0, <3>1
    <3>3. FramesPlaced'
      BY <1>0, <1>1, <3>1, <3>2, FramesStay DEF FramesRead
    <3> QED  BY <1>1, <1>3, <1>5, <2>0, <3>1, <3>3 DEF InTheLoop
  <2>4. CASE RegionEncode
    <3>1. /\ pc = "encode" /\ phase = "main" /\ UNCHANGED <<phase, skipLoading, pos, passes>>
          /\ EncodeFrame(region, nEncSurfIdx) /\ UNCHANGED <<seen, surfVars>>
          /\ \/ region = LastRegion /\ pc' = "frame"
             \/ region # LastRegion /\ region' = region + 1 /\ pc' = "task"
      BY <1>2, <2>4 DEF RegionEncode, NextRegion
    <3>2. region \in UsedPools /\ FrameGiven
      BY <1>5, <2>0, <3>1 DEF FrameGiven, Typed, JobTypes, RegionControl, InTheLoop
    <3>3. \A p \in UsedPools : Waits(p)' <=> Waits(p) /\ p # region
      BY <1>5, <2>0, <3>1, <3>2 DEF InTheLoop
    <3>4. Waits(region)
      BY <1>5, <2>0, <3>1, <3>2 DEF InTheLoop
    <3>5. FramesPlaced'
      BY <1>0, <1>1, <3>1, <3>2, <3>3, <3>4, FrameToEncoder DEF FramesRead
    <3> QED  BY <1>1, <1>3, <1>5, <2>0, <3>1, <3>5
  <2>5. CASE RegionDrain
    <3>1. /\ UNCHANGED <<job, phase, encIn, skipLoading, vppHeld, content, nEncSurfIdx, pos, passes>>
          /\ phase = "enc_drain" /\ pc' \in {"task", "done"}
      BY <1>2, <2>5 DEF RegionDrain, NextRegion
    <3>2. \A p \in UsedPools : ~Waits(p) /\ ~Waits(p)'
      BY <1>5, <2>0, <3>1
    <3>3. FramesPlaced'
      BY <1>0, <1>1, <3>1, <3>2, FramesStay DEF FramesRead
    <3> QED  BY <1>1, <1>3, <1>5, <2>0, <3>1, <3>3
  <2> HIDE DEF Goal
  <2> QED  BY <1>7, <2>1, <2>2, <2>3, <2>4, <2>5 DEF RegionStep
<1>8. CASE NoFreeSurface \/ EncoderBusy \/ EncoderFinishes \/ UNCHANGED vars
  <2>1. UNCHANGED <<job, phase, encIn, skipLoading, vppHeld, content, nEncSurfIdx, pos, passes, pc, region>>
    BY <1>8 DEF NoFreeSurface, EncoderBusy, EncoderFinishes, vars
  <2>2. \A p \in UsedPools : Waits(p)' <=> Waits(p)
    BY <1>0, <2>1 DEF Waits, InTheLoop
  <2>3. FramesPlaced'
    BY <1>0, <1>1, <2>1, <2>2, FramesStay DEF FramesRead
  <2> QED  BY <1>1, <1>3, <2>1, <2>3
<1>9. CASE RecoverDevice
    BY <1>9 DEF RecoverDevice
<1> HIDE DEF Goal
<1> QED  BY <1>6, <1>7, <1>8, <1>9 DEF Next, Terminated, Goal

(* The program is done when nothing is in execution.                       *)
LEMMA PoolEmpty ==
    ASSUME IInv, NEW p \in Pools, ~InExecution(p, m_nTaskBufferStart[p])
    PROVE  \A i \in Slots(p) : m_pTasks[p][i] = NoTask
<1>1. PICK n \in 0..PoolSize[p] : RunOfTasks(p, n)
    BY DEF IInv, RingIsContiguous
<1>2. PoolTypeOK /\ PoolSize[p] \in Nat \ {0}
    BY PoolFacts DEF IInv
<1>3. At(p, 0) = m_nTaskBufferStart[p] /\ \A i \in Slots(p) : \E k \in Slots(p) : At(p, k) = i
    BY <1>2, AtFacts
<1>4. 0 \in Slots(p) /\ Slots(p) \subseteq Nat
    BY <1>2 DEF Slots
<1>5. n = 0
    BY <1>1, <1>3, <1>4 DEF RunOfTasks
<1>6. \A k \in Slots(p) : ~InExecution(p, At(p, k))
    BY <1>1, <1>4, <1>5 DEF RunOfTasks
<1> QED  BY <1>3, <1>6 DEF InExecution

LEMMA TasksEmptiedStep ==
    ASSUME IInv, Typed, RegionOrder, TasksEmptied, Sound, Sound', [Next \/ Terminated]_vars
    PROVE  TasksEmptied'
<1> SUFFICES ASSUME pc' = "done" PROVE \A j : ~InATask(j)'
    BY DEF TasksEmptied
<1> DEFINE Goal == \A j : ~InATask(j)'
<1>0. UsedPools' = UsedPools /\ UsedPools \subseteq Pools
    BY StepIsJobStep, OptFacts DEF UsedPools, Typed, ControlTypes
<1>1. ASSUME \A p \in UsedPools : \A i \in Slots(p) : m_pTasks'[p][i] = NoTask
      PROVE  Goal
    BY <1>0, <1>1 DEF InATask, Slots
<1>2. ASSUME pc = "done", m_pTasks' = m_pTasks PROVE Goal
    BY <1>0, <1>2 DEF TasksEmptied, InATask, Slots
<1>3. CASE EncodeStep
  <2>1. /\ UsedPools = {0} /\ ~InExecution(0, m_nTaskBufferStart[0]) /\ m_pTasks' = m_pTasks
    <3>1. UsedPools = {0}
      BY <1>3, OptFacts DEF EncodeStep, Typed, ControlTypes
    <3>2. SynchronizeAll
      <4>1. ~ (GetFreeTask /\ pc' = "done")
        <5>1. SyncFails("failed") => pc' = pc \/ pc' = "failed"
          BY SyncKeeps
        <5> QED  BY <5>1 DEF GetFreeTask
      <4>2. ~ (pc' = "done" /\ (StopAtLimit \/ ReadFrame \/ EndOfFile \/ RunVpp \/ DrainVpp))
        BY DEF StopAtLimit, ReadFrame, EndOfFile, RunVpp, DrainVpp, Drain, VppKeeps, VppOutputs,
               VppFails
      <4>3. ~ (pc' = "done" /\ (Encode \/ EncodeDrained))
        BY DEF Encode, EncodeDrained
      <4> QED  BY <1>3, <4>1, <4>2, <4>3 DEF EncodeStep
    <3>3. SyncFails("done") => pc' = pc
      BY SyncKeeps
    <3> QED  BY <3>1, <3>2, <3>3 DEF SynchronizeAll, poolVars
  <2>2. \A i \in Slots(0) : m_pTasks[0][i] = NoTask
    BY <1>0, <2>1, PoolEmpty
  <2>3. \A p \in UsedPools : \A i \in Slots(p) : m_pTasks'[p][i] = NoTask
    BY <2>1, <2>2
  <2> QED  BY ZenonT(20), <1>1, <2>3
<1>4. CASE RegionStep
  <2>1. opt.kind = "region" /\ UsedPools = Regions
    BY <1>4, OptFacts DEF RegionStep, Typed, ControlTypes
  <2>2. RegionDrain
    <3>1. ~ (pc' = "done" /\ (RegionReadFrame \/ RegionEndOfFile \/ RegionGetFreeTask))
      BY DEF RegionReadFrame, RegionEndOfFile, RegionGetFreeTask, Rewind
    <3>2. ~ (pc' = "done" /\ (RegionSynchronize \/ RegionEncode))
      BY DEF RegionSynchronize, NextPool, RegionEncode, NextRegion
    <3> QED  BY <1>4, <3>1, <3>2 DEF RegionStep
  <2>3. RegionsBusy(1, 1) /\ m_pTasks' = m_pTasks
    <3>1. RegionShape
      BY <2>1 DEF RegionOrder, NothingPassedOver, Sound
    <3> QED  BY <2>2, <3>1 DEF RegionShape, RegionDrain, poolVars
  <2>4. ASSUME NEW p \in Regions PROVE \A i \in Slots(p) : m_pTasks[p][i] = NoTask
    <3>1. Slots(p) = {0}
      BY RegionPoolFacts
    <3>2. ~Busy(p)
      BY <2>3, PoolFacts DEF RegionsBusy
    <3> QED  BY <3>1, <3>2 DEF Busy, InExecution
  <2>5. \A p \in UsedPools : \A i \in Slots(p) : m_pTasks'[p][i] = NoTask
    BY <2>1, <2>3, <2>4
  <2> QED  BY ZenonT(20), <1>1, <2>5
<1>5. CASE NoFreeSurface \/ EncoderBusy \/ EncoderFinishes \/ UNCHANGED vars
    BY <1>2, <1>5 DEF NoFreeSurface, EncoderBusy, EncoderFinishes, vars, poolVars
<1>6. CASE RecoverDevice
    BY <1>6 DEF RecoverDevice
<1> HIDE DEF Goal
<1> QED  BY <1>3, <1>4, <1>5, <1>6 DEF Next, Terminated, Goal

LEMMA LossInvStep ==
    ASSUME IInv, Typed, RegionOrder, LossInv, [Next \/ Terminated]_vars, Typed'
    PROVE  LossInv'
<1> SUFFICES ASSUME Sound'
             PROVE  /\ pc' # "device" /\ MissingBound' /\ TasksEmptied'
                    /\ pc' \notin {"failed", "undefined"} => FramesAccounted'
    BY DEF LossInv
<1>1. Sound
    BY SeenGrows DEF Sound
<1>2. /\ pc # "device" /\ MissingBound /\ TasksEmptied
      /\ pc \notin {"failed", "undefined"} => FramesAccounted
    BY <1>1 DEF LossInv
<1>3. ~RecoverDevice
    BY <1>2 DEF RecoverDevice
<1>4. MissingBound' /\ TasksEmptied'
    BY <1>1, <1>2, <1>3, MissingBoundStep, TasksEmptiedStep
<1>5. pc' \in {"failed", "undefined"} \/ pc \notin {"failed", "undefined"}
  <2>1. ASSUME pc \in {"failed", "undefined"} PROVE pc' = pc
    <3>1. ~EncodeStep
      <4>1. ~(GetFreeTask \/ StopAtLimit \/ ReadFrame \/ EndOfFile \/ RunVpp)
        BY <2>1 DEF GetFreeTask, StopAtLimit, ReadFrame, EndOfFile, RunVpp
      <4>2. ~(DrainVpp \/ Encode \/ EncodeDrained \/ SynchronizeAll)
        BY <2>1 DEF DrainVpp, Encode, EncodeDrained, SynchronizeAll
      <4> QED  BY <4>1, <4>2 DEF EncodeStep
    <3>2. ~RegionStep
      BY <2>1 DEF RegionStep, RegionReadFrame, RegionEndOfFile, RegionGetFreeTask,
                  RegionSynchronize, RegionEncode, RegionDrain
    <3>3. NoFreeSurface \/ EncoderBusy \/ EncoderFinishes \/ UNCHANGED vars => pc' = pc
      BY <2>1 DEF NoFreeSurface, EncoderBusy, EncoderFinishes, vars
    <3> QED  BY <1>3, <3>1, <3>2, <3>3 DEF Next, Terminated
  <2> QED  BY <2>1
<1>6. CASE pc' \in {"failed", "undefined"}
    BY <1>4, <1>6
<1>7. CASE pc' \notin {"failed", "undefined"}
    BY <1>2, <1>4, <1>5, <1>7, FramesAccountedStep
<1> QED  BY <1>6, <1>7

LEMMA LossInvInitially == SessionInit => LossInv
<1> SUFFICES ASSUME SessionInit PROVE LossInv
    OBVIOUS
<1> DEFINE e == <<>>
<1>1. /\ opt \in Configurations /\ pc \in {"task", "frame"} /\ phase = "main" /\ skipLoading = FALSE
      /\ opt.kind = "region" => pc = "frame"
      /\ pos = 0 /\ passes = 1 /\ vppHeld = e /\ job = e /\ seen = {}
    BY DEF SessionInit
<1>2. Len(e) = 0 /\ 1..0 = {} /\ IsFiniteSet({}) /\ Cardinality({}) = 0
    BY FS_EmptySet
<1> HIDE DEF e
<1>3. 0 \in Pools /\ PoolSize[0] \in Nat \ {0} /\ NumFrames \in Nat
    BY PoolFacts
<1>4. FramesRead = 0
    BY <1>1, <1>3 DEF FramesRead
<1>5. \A p : GivenTo(p, Len(job)) = {}
    BY <1>1, <1>2 DEF GivenTo
<1>6. \A p \in UsedPools : ~Waits(p)
    BY <1>1 DEF Waits, InTheLoop
<1>7. \A p \in UsedPools : Given(p) = 0 /\ Due(p) = 0
    BY <1>2, <1>5, <1>6 DEF Given, Due
<1>8. AllGiven
    BY <1>1, <1>2, <1>4, <1>7 DEF AllGiven
<1>9. JobsAsRead
    BY <1>5 DEF JobsAsRead
<1>10. FramesAsRead
    BY <1>1, <1>2, <1>6 DEF FramesAsRead
<1>11. FramesAccounted
    BY <1>1, <1>8, <1>9, <1>10 DEF FramesAccounted, FramesPlaced, Emptied, e
<1>12. Missing = {}
    BY <1>1, <1>2 DEF Missing
<1> QED  BY <1>1, <1>2, <1>3, <1>11, <1>12 DEF LossInv, MissingBound, TasksEmptied

(* While nothing fails but a busy encoder and a GPU hang, every frame read *)
(* is given to each encoder once and in order, or is on its way to it, and *)
(* every job is written, in a task or kept back, but for at most a pool of *)
(* tasks when the GPU hung.                                                *)
THEOREM LossInvariantHolds == Spec => []LossInv
<1>1. LossInv /\ PoolUse /\ JobsOrder /\ PoolUse' /\ [Next \/ Terminated]_vars => LossInv'
    BY LossInvStep DEF PoolUse, JobsOrder
<1> QED  BY <1>1, LossInvInitially, PoolUseHolds, OrderHolds, PTL DEF Spec

(* When Run ends with no error every frame read has been encoded once, in  *)
(* order, by every encoder, whatever VPP and the encoders kept back, and   *)
(* every bitstream is written; a GPU hang costs at most the tasks that     *)
(* were in execution.                                                      *)
THEOREM NothingIsLost == Spec => []NothingLost
<1>1. LossInv /\ PoolUse /\ JobsOrder => NothingLost
  <2> SUFFICES ASSUME LossInv, PoolUse, JobsOrder, pc = "done", seen \subseteq {"busy", "hang"}
               PROVE  /\ \A p \in UsedPools :
                           /\ Cardinality(GivenTo(p, Len(job))) = FramesRead
                           /\ opt.kind # "user" =>
                                \A j \in GivenTo(p, Len(job)) :
                                    job[j].frame = ReadAs(Cardinality(GivenTo(p, j)))
                      /\ Cardinality(DOMAIN job \ Delivered)
                           <= IF "hang" \in seen THEN PoolSize[0] ELSE 0
    BY DEF NothingLost
  <2>1. MissingBound /\ (\A j : ~InATask(j)) /\ FramesPlaced /\ Emptied
    BY DEF LossInv, Sound, TasksEmptied, FramesAccounted
  <2>2. /\ IInv /\ Typed /\ UsedPools \subseteq Pools /\ PoolSize[0] \in Nat
        /\ opt.kind = "region" => opt.delay = 0 /\ ~opt.vpp
        /\ opt.kind # "region" => UsedPools = {0}
    BY OptFacts, PoolFacts DEF PoolUse, Typed, ControlTypes
  <2>3. Len(vppHeld) = 0 /\ \A p \in UsedPools : encIn[p] = <<>> /\ Due(p) = 0
    <3>1. CASE opt.kind = "region"
      BY <2>1, <2>2, <3>1 DEF Emptied, JobsOrder, NothingKeptBack, Due, Waits, InTheLoop
    <3>2. CASE opt.kind # "region"
      BY <2>1, <2>2, <3>2 DEF Emptied, Due, Waits
    <3> QED  BY <3>1, <3>2
  <2>4. \A p \in UsedPools : Given(p) = FramesRead
    BY <2>1, <2>2, <2>3, PlaceFacts DEF FramesPlaced, AllGiven
  <2>5. opt.kind # "user" => JobsAsRead
    BY <2>1 DEF FramesPlaced
  <2>6. DOMAIN job \ Delivered \subseteq Missing
    <3>1. DOMAIN job = 1..Len(job) /\ DOMAIN delivered = 1..Len(delivered)
      BY <2>2, JobFacts DEF Typed, IInv, PoolTypeOK
    <3>2. \A p \in UsedPools : Len(encIn[p]) = 0
      BY <2>3
    <3>3. ASSUME NEW j \in DOMAIN job \ Delivered PROVE ~Accounted(j)
      BY <2>1, <3>1, <3>2 DEF Accounted, Delivered
    <3> QED  BY <3>1, <3>3 DEF Missing
  <2>7. Cardinality(DOMAIN job \ Delivered) <= Cardinality(Missing)
    BY <2>1, <2>6, FS_Subset DEF MissingBound
  <2>8. Cardinality({}) = 0 /\ Cardinality(DOMAIN job \ Delivered) \in Nat /\ Cardinality(Missing) \in Nat
    <3>1. IsFiniteSet(DOMAIN job \ Delivered) /\ IsFiniteSet(Missing)
      BY <2>1, <2>6, FS_Subset DEF MissingBound
    <3> QED  BY <3>1, FS_EmptySet, FS_CardinalityType
  <2>9. Cardinality(DOMAIN job \ Delivered) <= IF "hang" \in seen THEN PoolSize[0] ELSE 0
    BY <2>1, <2>2, <2>7, <2>8 DEF MissingBound
  <2> QED  BY <2>4, <2>5, <2>9 DEF Given, JobsAsRead
<1> QED  BY <1>1, LossInvariantHolds, PoolUseHolds, OrderHolds, PTL
-----------------------------------------------------------------------------
(* Where bitstreams were lost.  In a pipeline a job that is not written,   *)
(* in a task or kept back stays lost.  When the tasks are cleared, by a    *)
(* GPU hang or with the device, the last of the jobs lost is followed by   *)
(* those the encoder keeps back or by none, and an IDR frame is pending:   *)
(* m_bInsertIDR or a new encoder will make the next frame one.             *)
Among(j, q) == \E i \in 1..Len(q) : q[i] = j

Held(j, a, b, c) == Among(j, a) \/ Among(j, b) \/ Among(j, c)

LEMMA AmongAppend ==
    ASSUME NEW S, NEW q \in Seq(S), NEW x \in S, NEW j
    PROVE  Among(j, Append(q, x)) <=> Among(j, q) \/ j = x
<1> DEFINE a == Append(q, x)
<1>1. /\ Len(q) \in Nat /\ Len(a) = Len(q) + 1 /\ a[Len(q) + 1] = x
      /\ \A i \in 1..Len(q) : a[i] = q[i]
    BY AppendElements
<1> HIDE DEF a
<1>2. \A i : i \in 1..Len(a) <=> i \in 1..Len(q) \/ i = Len(q) + 1
    BY <1>1
<1>3. Among(j, a) <=> Among(j, q) \/ j = x
    BY <1>1, <1>2 DEF Among
<1> QED  BY <1>3 DEF a

LEMMA AmongTail ==
    ASSUME NEW S, NEW q \in Seq(S), q # <<>>, NEW j
    PROVE  Among(j, q) <=> j = Head(q) \/ Among(j, Tail(q))
<1> DEFINE b == Tail(q)
<1>1. /\ Head(q) = q[1] /\ Len(q) \in Nat \ {0} /\ Len(b) = Len(q) - 1
      /\ \A k \in 1..Len(b) : b[k] = q[k + 1]
    BY TailElements
<1> HIDE DEF b
<1>2. ASSUME Among(j, q) PROVE j = Head(q) \/ Among(j, b)
  <2>1. PICK i \in 1..Len(q) : q[i] = j
    BY <1>2 DEF Among
  <2>2. CASE i = 1
    BY <1>1, <2>1, <2>2
  <2>3. CASE i # 1
    <3>1. i - 1 \in 1..Len(b) /\ i - 1 + 1 = i
      BY <1>1, <2>3
    <3> QED  BY <1>1, <2>1, <3>1 DEF Among
  <2> QED  BY <2>2, <2>3
<1>3. ASSUME Among(j, b) PROVE Among(j, q)
  <2>1. PICK i \in 1..Len(b) : b[i] = j
    BY <1>3 DEF Among
  <2>2. i + 1 \in 1..Len(q) /\ q[i + 1] = j
    BY <1>1, <2>1
  <2> QED  BY <2>2 DEF Among
<1>4. ASSUME j = Head(q) PROVE Among(j, q)
  <2>1. 1 \in 1..Len(q) /\ q[1] = j
    BY <1>1, <1>4
  <2> QED  BY <2>1 DEF Among
<1>5. Among(j, q) <=> j = Head(q) \/ Among(j, b)
    BY <1>2, <1>3, <1>4
<1> QED  BY <1>5 DEF b

LEMMA AmongNone == \A j : ~Among(j, <<>>)
<1> DEFINE e == <<>>
<1>1. Len(e) = 0
    OBVIOUS
<1> HIDE DEF e
<1>2. \A j : ~Among(j, e)
    BY <1>1 DEF Among
<1> QED  BY <1>2 DEF e

(* Moving jobs on loses none and brings none back.                         *)
LEMMA HeldWhenMoved ==
    ASSUME NEW n \in Nat, NEW a, NEW b \in Seq(1..n), NEW c \in Seq(1..n), NEW j
    PROVE  /\ b # <<>> /\ a \in Seq(1..n) =>
                (Held(j, Append(a, Head(b)), Tail(b), c) <=> Held(j, a, b, c))
           /\ c # <<>> => (Held(j, a, Append(b, Head(c)), Tail(c)) <=> Held(j, a, b, c))
<1>1. ASSUME b # <<>>, a \in Seq(1..n)
      PROVE  Held(j, Append(a, Head(b)), Tail(b), c) <=> Held(j, a, b, c)
  <2>1. PICK h \in 1..n : h = Head(b)
    BY <1>1, TailElements
  <2>2. Among(j, Append(a, h)) <=> Among(j, a) \/ j = h
    BY <1>1, AmongAppend
  <2>3. Among(j, b) <=> j = Head(b) \/ Among(j, Tail(b))
    BY <1>1, AmongTail
  <2> QED  BY Zenon, <2>1, <2>2, <2>3 DEF Held
<1>2. ASSUME c # <<>>
      PROVE  Held(j, a, Append(b, Head(c)), Tail(c)) <=> Held(j, a, b, c)
  <2>1. PICK h \in 1..n : h = Head(c)
    BY <1>2, TailElements
  <2>2. Among(j, Append(b, h)) <=> Among(j, b) \/ j = h
    BY AmongAppend
  <2>3. Among(j, c) <=> j = Head(c) \/ Among(j, Tail(c))
    BY <1>2, AmongTail
  <2> QED  BY Zenon, <2>1, <2>2, <2>3 DEF Held
<1> QED  BY <1>1, <1>2

(* The encoder keeps back the jobs it was given last.                      *)
Latest(c, n, d) == Len(c) <= d /\ \A i \in 1..Len(c) : c[i] = n - Len(c) + i

LEMMA LatestFacts ==
    ASSUME NEW n \in Nat, NEW d \in Nat, NEW c \in Seq(1..n), Latest(c, n, d)
    PROVE  /\ Latest(<<>>, n, d)
           /\ c # <<>> => Latest(Tail(c), n, d)
           /\ \A j \in 1..n : Among(j, c) => n < j + d
<1> DEFINE b == Tail(c)
           e == <<>>
<1>1. Len(c) \in Nat /\ Len(c) <= d /\ \A i \in 1..Len(c) : c[i] = n - Len(c) + i
    BY DEF Latest
<1>2. Latest(e, n, d)
  <2>1. Len(e) = 0
    OBVIOUS
  <2> HIDE DEF e
  <2> QED  BY <2>1 DEF Latest
<1>3. ASSUME c # <<>> PROVE Latest(b, n, d)
  <2>1. Len(c) \in Nat \ {0} /\ Len(b) = Len(c) - 1 /\ \A k \in 1..Len(b) : b[k] = c[k + 1]
    BY <1>3, TailElements
  <2> HIDE DEF b
  <2>2. ASSUME NEW i \in 1..Len(b) PROVE b[i] = n - Len(b) + i
    <3>1. i + 1 \in 1..Len(c) /\ b[i] = c[i + 1]
      BY <2>1, <2>2
    <3>2. c[i + 1] = n - Len(c) + (i + 1)
      BY <1>1, <3>1
    <3> QED  BY <2>1, <3>1, <3>2
  <2> QED  BY <1>1, <2>1, <2>2 DEF Latest
<1>4. ASSUME NEW j \in 1..n, Among(j, c) PROVE n < j + d
  <2>1. PICK i \in 1..Len(c) : c[i] = j
    BY <1>4 DEF Among
  <2>2. j = n - Len(c) + i
    BY <1>1, <2>1
  <2> QED  BY <1>1, <2>1, <2>2
<1> QED  BY <1>2, <1>3, <1>4 DEF b, e

(* The encoder is given a new job.                                         *)
LEMMA JobComes ==
    ASSUME NEW n \in Nat, NEW a, NEW b, NEW c \in Seq(1..n), NEW j
    PROVE  Held(j, a, b, Append(c, n + 1)) <=> Held(j, a, b, c) \/ j = n + 1
<1>0. PICK m \in Nat : m = n + 1
    OBVIOUS
<1>1. c \in Seq(1..m) /\ m \in 1..m
  <2>1. 1..n \subseteq 1..m /\ m \in 1..m
    BY <1>0
  <2> QED  BY <2>1, SeqMonotonic
<1>2. Among(j, Append(c, m)) <=> Among(j, c) \/ j = m
    BY <1>1, AmongAppend
<1> QED  BY Zenon, <1>0, <1>2 DEF Held

LEMMA JobStarts ==
    ASSUME NEW n \in Nat, NEW a, NEW b \in Seq(1..n), NEW c \in Seq(1..n), NEW j,
           NEW q, q = Append(c, n + 1)
    PROVE  Held(j, a, Append(b, Head(q)), Tail(q)) <=> Held(j, a, b, c) \/ j = n + 1
<1>0. PICK m \in Nat : m = n + 1
    OBVIOUS
<1>1. b \in Seq(1..m) /\ q \in Seq(1..m) /\ q # <<>>
  <2>1. 1..n \subseteq 1..m /\ m \in 1..m
    BY <1>0
  <2>2. b \in Seq(1..m) /\ c \in Seq(1..m)
    BY <2>1, SeqMonotonic
  <2>3. q \in Seq(1..m)
    BY <1>0, <2>1, <2>2, AppendElements
  <2>4. q # <<>>
    BY AppendNonempty
  <2> QED  BY <2>2, <2>3, <2>4
<1>2. Held(j, a, b, q) <=> Held(j, a, b, c) \/ j = n + 1
    BY JobComes
<1>3. Held(j, a, Append(b, Head(q)), Tail(q)) <=> Held(j, a, b, q)
    BY <1>1, HeldWhenMoved
<1> QED  BY <1>2, <1>3

LEMMA LatestWithJob ==
    ASSUME NEW n \in Nat, NEW d \in Nat, NEW c \in Seq(1..n), Latest(c, n, d),
           NEW q, q = Append(c, n + 1)
    PROVE  /\ ~(Len(q) > d) => Latest(q, n + 1, d)
           /\ Len(q) > d => Latest(Tail(q), n + 1, d)
<1> DEFINE t == Tail(q)
<1>0. PICK m \in Nat : m = n + 1
    OBVIOUS
<1>1. c \in Seq(1..m) /\ m \in 1..m
  <2>1. 1..n \subseteq 1..m /\ m \in 1..m
    BY <1>0
  <2> QED  BY <2>1, SeqMonotonic
<1>2. /\ q \in Seq(1..m) /\ q # <<>> /\ Len(c) \in Nat /\ Len(q) = Len(c) + 1
      /\ \A i \in 1..Len(c) : q[i] = c[i]
      /\ q[Len(c) + 1] = m
  <2>1. q # <<>>
    BY AppendNonempty
  <2>2. q = Append(c, m)
    BY <1>0
  <2> QED  BY <1>1, <2>1, <2>2, AppendElements
<1>3. Len(c) <= d /\ \A i \in 1..Len(c) : c[i] = n - Len(c) + i
    BY DEF Latest
<1>4. \A i \in 1..Len(q) : q[i] = m - Len(q) + i
  <2> SUFFICES ASSUME NEW i \in 1..Len(q) PROVE q[i] = m - Len(q) + i
    OBVIOUS
  <2>1. CASE i = Len(c) + 1
    BY <1>0, <1>2, <2>1
  <2>2. CASE i # Len(c) + 1
    <3>1. i \in 1..Len(c)
      BY <1>2, <2>2
    <3>2. q[i] = n - Len(c) + i
      BY <1>2, <1>3, <3>1
    <3> QED  BY <1>0, <1>2, <3>1, <3>2
  <2> QED  BY <2>1, <2>2
<1>5. PICK k \in Nat : k = d + 1
    OBVIOUS
<1>6. Latest(q, m, k) /\ (Len(q) <= d => Latest(q, m, d))
  <2>1. Len(q) <= k
    BY <1>2, <1>3, <1>5
  <2> QED  BY <1>4, <2>1 DEF Latest
<1>7. Latest(t, m, k) /\ Len(t) = Len(q) - 1
    BY <1>2, <1>6, TailElements, LatestFacts
<1> HIDE DEF t
<1>8. Latest(t, m, d)
    BY <1>2, <1>3, <1>7 DEF Latest
<1>9. Len(q) <= d \/ Len(q) > d
    BY <1>2
<1> QED  BY <1>0, <1>6, <1>8, <1>9 DEF t

Gone(j) == j \in 1..Len(job) /\ ~Held(j, delivered, QueueOf(0), encIn[0])

IDRPending ==
    m_bInsertIDR \/ 0 \in fresh \/ phase = "enc_drain" \/ pc \in Ended \cup {"device"}

NextIDR(j) == \E k \in (j + 1)..Len(job) : k <= j + 1 + opt.delay /\ job[k].idr

\* no request for an IDR frame was dropped
RequestsKept == "busy" \notin seen /\ (opt.cut \/ passes = 1)

Met(j) == NextIDR(j) \/ (Len(job) <= j + opt.delay /\ IDRPending)

LossesMet == \A j : Gone(j) /\ ~Gone(j + 1) => Met(j)

Recovering ==
    opt.kind # "region" =>
        Latest(encIn[0], Len(job), opt.delay) /\ (RequestsKept => LossesMet)

(* A pending IDR frame stays so until a frame is given to the encoder.     *)
LEMMA PendingStep ==
    ASSUME Typed, opt.kind # "region", IDRPending, RequestsKept', [Next \/ Terminated]_vars,
           ~FrameGiven, ~RecoverDevice
    PROVE  IDRPending'
<1> USE DEF loopVars, inVars, surfVars, encVars, lockVars
<1>0. /\ opt' = opt /\ region = 0 /\ UsedPools = {0} /\ nEncSurfIdx \in Surfaces
      /\ passes \in Nat \ {0}
  <2>1. opt' = opt
    BY StepIsJobStep
  <2>2. passes \in 1..MaxPasses /\ MaxPasses \in Nat
    BY PoolFacts DEF Typed, ControlTypes
  <2> QED  BY <2>1, <2>2, OptFacts DEF Typed, ControlTypes, PipelineControl, JobTypes
<1>1. CASE EncodeStep
  <2>1. CASE GetFreeTask \/ SynchronizeAll
    <3>1. /\ pc \in {"task", "sync"} /\ UNCHANGED <<fresh, phase>>
          /\ m_bInsertIDR => m_bInsertIDR'
      BY <2>1 DEF GetFreeTask, SynchronizeAll, SyncFails, GpuHangRecovery
    <3> QED  BY <3>1 DEF IDRPending, Ended
  <2>2. CASE StopAtLimit \/ ReadFrame \/ RunVpp \/ DrainVpp
    <3>1. /\ pc \in {"task", "frame", "vpp"} /\ UNCHANGED <<fresh, m_bInsertIDR>>
          /\ phase' = phase \/ phase # "enc_drain"
      BY <2>2 DEF StopAtLimit, LimitReached, ReadFrame, RunVpp, DrainVpp
    <3> QED  BY <3>1 DEF IDRPending, Ended
  <2>3. CASE EndOfFile
    <3>1. pc = "frame" /\ phase = "main" /\ fresh' = fresh
      BY <2>3 DEF EndOfFile
    <3>2. CASE Rewind
      BY <1>0, <3>2 DEF Rewind, RequestsKept, IDRPending
    <3>3. CASE m_bInsertIDR' = m_bInsertIDR
      BY <3>1, <3>3 DEF IDRPending, Ended
    <3> QED  BY <2>3, <3>2, <3>3 DEF EndOfFile
  <2>4. CASE Encode
    <3>1. ~(EncodeFrame(0, nEncSurfIdx) /\ UNCHANGED seen)
      BY <1>0, <2>4 DEF Encode, FrameGiven
    <3> QED  BY <2>4, <3>1 DEF Encode, IDRPending, Ended
  <2>5. CASE EncodeDrained
    BY <2>5 DEF EncodeDrained, IDRPending
  <2> QED  BY <1>1, <2>1, <2>2, <2>3, <2>4, <2>5 DEF EncodeStep
<1>2. CASE NoFreeSurface \/ EncoderFinishes \/ UNCHANGED vars
    BY <1>2 DEF NoFreeSurface, EncoderFinishes, vars, IDRPending, Ended
<1>3. CASE EncoderBusy
    BY <1>3 DEF EncoderBusy, Fault, RequestsKept
<1>4. ~RegionStep
    BY DEF RegionStep
<1> QED  BY <1>1, <1>2, <1>3, <1>4 DEF Next, Terminated

(* A dropped request stays dropped.                                        *)
LEMMA RequestsKeptBefore ==
    ASSUME Typed, opt.kind # "region", [Next \/ Terminated]_vars, RequestsKept'
    PROVE  RequestsKept
<1> USE DEF loopVars, inVars, surfVars, encVars, lockVars
<1>1. opt' = opt /\ seen \subseteq seen' /\ passes \in Nat \ {0}
  <2>1. passes \in 1..MaxPasses /\ MaxPasses \in Nat
    BY PoolFacts DEF Typed, ControlTypes
  <2> QED  BY <2>1, StepIsJobStep, SeenGrows
<1>2. passes' = passes \/ passes' = passes + 1
  <2>1. CASE EncodeStep
    BY <2>1 DEF EncodeStep, GetFreeTask, StopAtLimit, ReadFrame, LoadNextFrame, EndOfFile, Rewind,
                RunVpp, DrainVpp, Encode, EncodeDrained, SynchronizeAll
  <2>2. CASE NoFreeSurface \/ EncoderBusy \/ RecoverDevice \/ EncoderFinishes \/ UNCHANGED vars
    BY <2>2 DEF NoFreeSurface, EncoderBusy, RecoverDevice, EncoderFinishes, vars
  <2>3. ~RegionStep
    BY DEF RegionStep
  <2> QED  BY <2>1, <2>2, <2>3 DEF Next, Terminated
<1> QED  BY <1>1, <1>2 DEF RequestsKept

LEMMA RecoveringStep ==
    ASSUME PoolUse, PipelineOrder, Recovering, [Next \/ Terminated]_vars, PoolUse'
    PROVE  Recovering'
<1>1. /\ IInv /\ Typed /\ TaskGiven /\ Typed' /\ JobStep /\ opt' = opt
    BY StepIsJobStep DEF PoolUse
<1> SUFFICES ASSUME opt.kind # "region"
             PROVE  /\ Latest(encIn'[0], Len(job'), opt.delay)
                    /\ RequestsKept' => LossesMet'
    BY <1>1 DEF Recovering
<1>2. /\ Ordered(delivered, QueueOf(0), encIn[0], Len(job))
      /\ Latest(encIn[0], Len(job), opt.delay) /\ (RequestsKept => LossesMet)
    BY DEF PipelineOrder, Recovering
<1>3. PICK n \in Nat : n = Len(job)
    BY <1>1 DEF Typed, JobTypes
<1>4. PICK d \in Nat : d = opt.delay
    BY <1>1, OptFacts DEF Typed, ControlTypes
<1>5. PICK a \in Seq(1..n) : a = delivered
    BY <1>2, <1>3 DEF Ordered, Ascends
<1>6. PICK b \in Seq(1..n) : b = QueueOf(0)
    BY <1>2, <1>3 DEF Ordered, Ascends
<1>7. PICK c \in Seq(1..n) : c = encIn[0]
    BY <1>2, <1>3 DEF Ordered, Ascends
<1>8. Before(a, b) /\ Before(a, c) /\ Latest(c, n, d)
    BY <1>2, <1>3, <1>4, <1>5, <1>6, <1>7 DEF Ordered
<1>9. \A j : Gone(j) <=> j \in 1..n /\ ~Held(j, a, b, c)
    BY <1>3, <1>5, <1>6, <1>7 DEF Gone
<1>10. /\ TasksCleared \/ RecoverDevice => JobsCleared
       /\ FrameGiven => JobAdded
       /\ ~(TasksCleared \/ RecoverDevice \/ FrameGiven) => JobsStay \/ JobWritten \/ JobStarted
    BY <1>1, PipelineJobs
<1>11. RequestsKept' => LossesMet /\ RequestsKept
    BY <1>1, <1>2, RequestsKeptBefore
<1>12. ASSUME NEW j, job' = job, NextIDR(j) PROVE NextIDR(j)'
    BY <1>1, <1>12 DEF NextIDR
<1> DEFINE Goal == RequestsKept' => LossesMet'
<1>13. CASE ~(TasksCleared \/ RecoverDevice \/ FrameGiven)
  <2>1. JobsStay \/ JobWritten \/ JobStarted
    BY <1>10, <1>13
  <2>2. job' = job /\ Latest(encIn'[0], n, d)
    <3>1. encIn'[0] = c \/ (c # <<>> /\ encIn'[0] = Tail(c))
      BY <2>1, <1>7 DEF JobsStay, JobWritten, JobStarted
    <3> QED  BY <2>1, <3>1, <1>8, LatestFacts DEF JobsStay, JobWritten, JobStarted
  <2>3. ASSUME NEW j PROVE Gone(j)' <=> Gone(j)
    <3>1. Held(j, delivered', QueueOf(0)', encIn'[0]) <=> Held(j, a, b, c)
      <4>1. CASE JobsStay
        BY <4>1, <1>5, <1>6, <1>7 DEF JobsStay
      <4>2. CASE JobWritten
        <5>1. b # <<>> /\ delivered' = Append(a, Head(b)) /\ QueueOf(0)' = Tail(b) /\ encIn'[0] = c
          BY <4>2, <1>5, <1>6, <1>7 DEF JobWritten
        <5>2. Held(j, Append(a, Head(b)), Tail(b), c) <=> Held(j, a, b, c)
          BY <5>1, HeldWhenMoved
        <5> QED  BY Zenon, <5>1, <5>2
      <4>3. CASE JobStarted
        <5>1. c # <<>> /\ delivered' = a /\ QueueOf(0)' = Append(b, Head(c)) /\ encIn'[0] = Tail(c)
          BY <4>3, <1>5, <1>6, <1>7 DEF JobStarted
        <5>2. Held(j, a, Append(b, Head(c)), Tail(c)) <=> Held(j, a, b, c)
          BY <5>1, HeldWhenMoved
        <5> QED  BY Zenon, <5>1, <5>2
      <4> QED  BY <2>1, <4>1, <4>2, <4>3
    <3> QED  BY <2>2, <3>1, <1>3, <1>9 DEF Gone
  <2>4. Goal
    <3> SUFFICES ASSUME RequestsKept', NEW j, Gone(j)', ~Gone(j + 1)' PROVE Met(j)'
      BY DEF LossesMet
    <3>1. Gone(j) /\ ~Gone(j + 1)
      BY <2>3
    <3>2. Met(j)
      BY <1>11, <3>1 DEF LossesMet
    <3>3. CASE NextIDR(j)
      BY <2>2, <3>3, <1>12 DEF Met
    <3>4. CASE Len(job) <= j + opt.delay /\ IDRPending
      <4>1. IDRPending'
        BY <1>1, <1>13, <3>4, PendingStep
      <4> QED  BY <1>1, <2>2, <3>4, <4>1 DEF Met
    <3> QED  BY <3>2, <3>3, <3>4 DEF Met
  <2> QED  BY <2>2, <2>4, <1>3, <1>4
<1>14. CASE FrameGiven
  <2>1. PICK q : q = Append(c, n + 1)
    OBVIOUS
  <2>2. /\ Len(job') = n + 1 /\ delivered' = a
        /\ \/ Len(q) > d /\ QueueOf(0)' = Append(b, Head(q)) /\ encIn'[0] = Tail(q)
           \/ ~(Len(q) > d) /\ QueueOf(0)' = b /\ encIn'[0] = q
    BY <1>3, <1>4, <1>5, <1>6, <1>7, <1>10, <1>14, <2>1 DEF JobAdded
  <2>3. /\ ~(Len(q) > d) => Latest(q, n + 1, d)
        /\ Len(q) > d => Latest(Tail(q), n + 1, d)
    BY <1>8, <2>1, LatestWithJob
  <2>4. Latest(encIn'[0], Len(job'), opt.delay)
    BY <1>4, <2>2, <2>3
  <2>5. ASSUME NEW j PROVE Gone(j)' <=> j \in 1..(n + 1) /\ ~Held(j, a, b, c) /\ j # n + 1
    <3>1. Held(j, a, b, q) <=> Held(j, a, b, c) \/ j = n + 1
      BY <2>1, JobComes
    <3>2. Held(j, a, Append(b, Head(q)), Tail(q)) <=> Held(j, a, b, c) \/ j = n + 1
      BY <2>1, JobStarts
    <3>3. Held(j, delivered', QueueOf(0)', encIn'[0]) <=> Held(j, a, b, c) \/ j = n + 1
      BY <2>2, <3>1, <3>2
    <3> QED  BY <2>2, <3>3 DEF Gone
  <2>6. /\ \A k \in 1..n : job'[k] = job[k]
        /\ job'[n + 1].idr = (m_bInsertIDR \/ region \in fresh)
    <3>1. region \in UsedPools /\ nEncSurfIdx \in Surfaces /\ EncodeFrame(region, nEncSurfIdx)
      BY <1>14 DEF FrameGiven
    <3> DEFINE r == [frame |-> content[nEncSurfIdx], surf |-> nEncSurfIdx, pool |-> region,
                     idr |-> m_bInsertIDR \/ region \in fresh]
    <3>2. (\A k \in 1..n : job'[k] = job[k]) /\ job'[n + 1] = r
      BY <1>1, <1>3, <2>2, <3>1, EncodeFrameTypes
    <3>3. r.idr = (m_bInsertIDR \/ region \in fresh)
      OBVIOUS
    <3> HIDE DEF r
    <3> QED  BY Zenon, <3>2, <3>3
  <2>7. region = 0 /\ pc = "encode" /\ phase # "enc_drain"
    BY <1>1, <1>14 DEF FrameGiven, Typed, PipelineControl
  <2>8. Goal
    <3> SUFFICES ASSUME RequestsKept', NEW j, Gone(j)', ~Gone(j + 1)' PROVE NextIDR(j)'
      BY DEF LossesMet, Met
    <3>1. j \in 1..n /\ Gone(j) /\ ~Gone(j + 1)
      <4>1. j \in 1..n /\ ~Held(j, a, b, c)
        BY <2>5
      <4>2. j + 1 \in 1..n => Held(j + 1, a, b, c)
        <5>1. PICK k \in Nat : k = j + 1
          BY <4>1
        <5>2. ~(k \in 1..(n + 1) /\ ~Held(k, a, b, c) /\ k # n + 1)
          BY <2>5, <5>1
        <5>3. k \in 1..n => Held(k, a, b, c)
          BY <5>2
        <5> QED  BY <5>1, <5>3
      <4> QED  BY <1>9, <4>1, <4>2
    <3>2. Met(j)
      BY <1>11, <3>1 DEF LossesMet
    <3>3. CASE NextIDR(j)
      <4>1. PICK k \in (j + 1)..n : k <= j + 1 + d /\ job[k].idr
        BY <1>3, <1>4, <3>3 DEF NextIDR
      <4>2. k \in (j + 1)..(n + 1) /\ k \in 1..n
        BY <3>1, <4>1
      <4>3. job'[k].idr
        BY <2>6, <4>1, <4>2
      <4> QED  BY <1>1, <1>4, <2>2, <4>1, <4>2, <4>3 DEF NextIDR
    <3>4. CASE Len(job) <= j + opt.delay /\ IDRPending
      <4>1. m_bInsertIDR \/ region \in fresh
        BY <2>7, <3>4 DEF IDRPending, Ended
      <4>2. n + 1 \in (j + 1)..(n + 1) /\ n + 1 <= j + 1 + d
        BY <1>3, <1>4, <3>1, <3>4
      <4>3. job'[n + 1].idr
        BY <2>6, <4>1
      <4> QED  BY <1>1, <1>4, <2>2, <4>2, <4>3 DEF NextIDR
    <3> QED  BY <3>2, <3>3, <3>4 DEF Met
  <2> QED  BY <2>4, <2>8
<1>15. CASE TasksCleared \/ RecoverDevice
  <2>1. /\ job' = job /\ delivered' = a /\ QueueOf(0)' = <<>>
        /\ encIn'[0] = c \/ encIn'[0] = <<>>
    BY <1>5, <1>7, <1>10, <1>15 DEF JobsCleared
  <2>2. IDRPending'
    <3>1. CASE TasksCleared
      BY <3>1 DEF TasksCleared, IDRPending
    <3>2. CASE RecoverDevice
      BY <3>2, PoolFacts DEF RecoverDevice, IDRPending
    <3> QED  BY <1>15, <3>1, <3>2
  <2>3. Latest(encIn'[0], n, d)
    BY <1>8, <2>1, LatestFacts
  <2>4. ASSUME NEW j
        PROVE  Gone(j)' <=> j \in 1..n /\ ~Among(j, a) /\ ~Among(j, encIn'[0])
    BY <1>3, <2>1, AmongNone DEF Gone, Held
  <2>5. Goal
    <3> SUFFICES ASSUME RequestsKept', NEW j, Gone(j)', ~Gone(j + 1)'
                 PROVE  NextIDR(j)' \/ n <= j + d
      BY <1>1, <1>3, <1>4, <2>1, <2>2 DEF LossesMet, Met
    <3>1. j \in 1..n /\ ~Among(j, a) /\ ~Among(j, encIn'[0])
      BY <2>4
    <3>2. CASE j = n
      BY <3>2
    <3>3. CASE j # n
      <4>1. j + 1 \in 1..n
        BY <3>1, <3>3
      <4>2. Among(j + 1, a) \/ Among(j + 1, encIn'[0])
        BY <2>4, <4>1
      <4>3. CASE Among(j + 1, encIn'[0])
        <5>1. Among(j + 1, c)
          BY <2>1, <4>3, AmongNone
        <5>2. n < j + 1 + d
          BY <1>8, <4>1, <5>1, LatestFacts
        <5> QED  BY <3>1, <5>2
      <4>4. CASE Among(j + 1, a) /\ Gone(j)
        <5>1. ~Gone(j + 1)
          BY <1>9, <4>4 DEF Held
        <5>2. Met(j)
          BY <1>11, <4>4, <5>1 DEF LossesMet
        <5> QED  BY <1>3, <1>4, <1>12, <2>1, <5>2 DEF Met
      <4>5. CASE Among(j + 1, a) /\ ~Gone(j)
        <5>1. Among(j, b) \/ Among(j, c)
          BY <1>9, <3>1, <4>5 DEF Held
        <5>2. PICK i \in 1..Len(a) : a[i] = j + 1
          BY <4>5 DEF Among
        <5>3. j + 1 < j
          BY <1>8, <5>1, <5>2 DEF Before, Among
        <5> QED  BY <3>1, <5>3
      <4> QED  BY <4>2, <4>3, <4>4, <4>5
    <3> QED  BY <3>2, <3>3
  <2> QED  BY <1>3, <1>4, <2>1, <2>3, <2>5
<1> QED  BY <1>13, <1>14, <1>15

LEMMA RecoveringInitially == SessionInit => Recovering
<1> SUFFICES ASSUME SessionInit PROVE Recovering
    OBVIOUS
<1> DEFINE e == <<>>
<1>1. /\ encIn = [p \in Pools |-> e] /\ job = e /\ opt \in Configurations
    BY DEF SessionInit
<1>2. Len(e) = 0
    OBVIOUS
<1> HIDE DEF e
<1>3. opt.delay \in Nat /\ 0 \in Pools
    BY <1>1, OptFacts
<1>4. \A j : ~Gone(j)
    BY <1>1, <1>2 DEF Gone
<1>5. Latest(encIn[0], Len(job), opt.delay)
    BY <1>1, <1>2, <1>3 DEF Latest
<1> QED  BY <1>4, <1>5 DEF Recovering, LossesMet

(* The tasks of a pool and its queue hold the same jobs.                   *)
LEMMA QueueHolds ==
    ASSUME IInv, UsedPools = {0}, NEW j, j # NoTask
    PROVE  Among(j, QueueOf(0)) <=> j \in InTasks
<1>1. 0 \in Pools /\ PoolTypeOK /\ PoolSize[0] \in Nat \ {0}
    BY PoolFacts DEF IInv
<1>2. PICK m \in 0..PoolSize[0] : m = NumInExecution(0) /\ RunOfTasks(0, m)
    BY <1>1, InvRun
<1>3. /\ Len(QueueOf(0)) = m
      /\ \A k \in 1..m : QueueOf(0)[k] = m_pTasks[0][At(0, k - 1)]
    BY <1>1, <1>2 DEF QueueOf
<1>4. ASSUME Among(j, QueueOf(0)) PROVE InATask(j)
  <2>1. PICK k \in 1..m : m_pTasks[0][At(0, k - 1)] = j
    BY <1>3, <1>4 DEF Among
  <2>2. At(0, k - 1) \in Slots(0)
    BY <1>1, <1>2, AtFacts
  <2> QED  BY <2>1, <2>2 DEF InATask
<1>5. ASSUME InATask(j) PROVE Among(j, QueueOf(0))
  <2>1. PICK i \in Slots(0) : m_pTasks[0][i] = j
    BY <1>5 DEF InATask
  <2>2. PICK k \in Slots(0) : At(0, k) = i
    BY <1>1, AtFacts
  <2>3. k < m
    BY <1>2, <2>1, <2>2 DEF RunOfTasks, InExecution
  <2>4. PICK l \in 1..m : l - 1 = k
    <3>1. k + 1 \in 1..m /\ (k + 1) - 1 = k
      BY <1>1, <1>2, <2>3 DEF Slots
    <3> QED  BY <3>1
  <2>5. QueueOf(0)[l] = j
    BY <1>3, <2>1, <2>2, <2>4
  <2> QED  BY <1>3, <2>4, <2>5 DEF Among
<1> QED  BY <1>4, <1>5, InTasksIs

(* Where bitstreams were lost, to a GPU hang that was recovered from or    *)
(* with a device, at most the frames the encoder had already kept back are *)
(* written before an IDR frame, unless a request for one was dropped.      *)
THEOREM LossesEndWithIDR == Spec => []LossEndsWithIDR
<1>1. PoolUse /\ JobsOrder /\ Recovering /\ [Next \/ Terminated]_vars /\ PoolUse' => Recovering'
    BY RecoveringStep DEF JobsOrder
<1>2. PoolUse /\ Recovering => LossEndsWithIDR
  <2> SUFFICES ASSUME PoolUse, Recovering, opt.kind # "region", RequestsKept,
                      NEW j \in Lost, j + 1 \notin Lost
               PROVE  \/ Len(job) <= j + opt.delay
                      \/ \E k \in (j + 1)..(j + 1 + opt.delay) : job[k].idr
    BY DEF LossEndsWithIDR, RequestsKept
  <2>1. /\ IInv /\ Typed /\ UsedPools = {0} /\ opt.delay \in Nat /\ LossesMet
        /\ Len(job) \in Nat /\ DOMAIN job = 1..Len(job)
        /\ DOMAIN delivered = 1..Len(delivered) /\ DOMAIN encIn[0] = 1..Len(encIn[0])
        /\ 1..Len(job) \subseteq Jobs
    <3>1. IInv /\ Typed /\ NumbersSuffice /\ LossesMet
      BY JobsSuffice DEF PoolUse, Recovering
    <3>2. UsedPools = {0} /\ opt.delay \in Nat /\ 0 \in Pools
      BY <3>1, OptFacts DEF Typed, ControlTypes
    <3>3. Len(job) \in Nat /\ DOMAIN job = 1..Len(job) /\ encIn \in [Pools -> Seq(1..Len(job))]
      BY <3>1, JobFacts DEF Typed, JobTypes
    <3> QED  BY <3>1, <3>2, <3>3 DEF IInv, PoolTypeOK, NumbersSuffice
  <2>2. \A i : i \in Lost <=> Gone(i)
    <3> SUFFICES ASSUME NEW i \in 1..Len(job) PROVE i \in Lost <=> Gone(i)
      BY <2>1 DEF Lost, Gone
    <3>1. i # NoTask
      BY <2>1, PoolAssumption
    <3>2. i \in Delivered <=> Among(i, delivered)
      BY <2>1 DEF Delivered, Among
    <3>3. i \in {encIn[0][k] : k \in DOMAIN encIn[0]} <=> Among(i, encIn[0])
      BY <2>1 DEF Among
    <3>4. i \in InTasks <=> Among(i, QueueOf(0))
      BY <2>1, <3>1, QueueHolds
    <3>5. i \in Lost <=> ~(\/ i \in Delivered \/ i \in InTasks
                           \/ i \in {encIn[0][k] : k \in DOMAIN encIn[0]})
      BY <2>1 DEF Lost
    <3> QED  BY Zenon, <3>2, <3>3, <3>4, <3>5 DEF Gone, Held
  <2>3. Gone(j) /\ ~Gone(j + 1)
    BY <2>2
  <2>4. NextIDR(j) \/ Len(job) <= j + opt.delay
    BY <2>1, <2>3 DEF LossesMet, Met
  <2>5. ASSUME NextIDR(j) PROVE \E k \in (j + 1)..(j + 1 + opt.delay) : job[k].idr
    <3>1. PICK k \in (j + 1)..Len(job) : k <= j + 1 + opt.delay /\ job[k].idr
      BY <2>5 DEF NextIDR
    <3>2. j \in Nat
      BY <2>1, <2>3 DEF Gone
    <3>3. k \in (j + 1)..(j + 1 + opt.delay)
      BY <2>1, <3>1, <3>2
    <3> QED  BY <3>1, <3>3
  <2> QED  BY <2>4, <2>5
<1> QED  BY <1>1, <1>2, RecoveringInitially, PoolUseHolds, OrderHolds, PTL DEF Spec

=============================================================================
