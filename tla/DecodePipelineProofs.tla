------------------------ MODULE DecodePipelineProofs ------------------------
(***************************************************************************)
(* What is proved of the decoding pipeline for every configuration, every  *)
(* number of surfaces and of faults, and any AsyncDepth: the surface pools *)
(* are partitioned and nothing is written into a surface in use, the       *)
(* delivery thread finds a surface whenever it is woken, the counters the  *)
(* main thread waits on measure the delivery queue, a full output queue    *)
(* has a surface to synchronise, render_lock counts the queues a surface   *)
(* waits in, the frames are delivered each once and in order, without a    *)
(* delivery thread the main loop always finds a surface, and a program     *)
(* that says it finished has delivered every frame.                        *)
(***************************************************************************)
EXTENDS DecodePipeline, SequenceLemmas

(* The smaller of two naturals.                                            *)
LEMMA MinOfTwo ==
    ASSUME NEW a \in Nat, NEW b \in Nat
    PROVE  Min({a, b}) \in Nat /\ Min({a, b}) \in {a, b}
           /\ Min({a, b}) <= a /\ Min({a, b}) <= b
<1> DEFINE k == Min({a, b})
<1>1. \E m \in {a, b} : \A i \in {a, b} : m <= i
  <2>1. CASE a <= b
    BY <2>1
  <2>2. CASE b <= a
    BY <2>2
  <2> QED  BY <2>1, <2>2
<1>2. k \in {a, b} /\ \A i \in {a, b} : k <= i
    BY <1>1 DEF Min
<1> HIDE DEF k
<1>3. k \in {a, b} /\ k <= a /\ k <= b
    BY <1>2
<1> QED  BY <1>3 DEF k

----------------------------------------------------------------------------
(* Control: what each variable but the pools and the queues ranges over.   *)
(* No step needs more than the types before it.                            *)

Control == ControlTypes /\ StreamTypes /\ ThreadTypes /\ alloc # 0

(* The configuration of a run is one of the configurations.                *)
LEMMA ConfigurationFacts ==
    ASSUME opt \in Configurations
    PROVE  /\ FrameLimit \in Nat \ {0} /\ NumFrames \in Nat
           /\ opt.read \in Nat \ {0} /\ VppIsUsed \in BOOLEAN
           /\ opt.mode \in {"performance", "file_dump", "rendering"}
    BY PipelineAssumption DEF Configuration, FrameLimit, NumFrames, VppIsUsed

LEMMA ControlInitially == Init => Control
<1> SUFFICES ASSUME Init PROVE Control
    OBVIOUS
<1>0. /\ opt \in Configurations
      /\ pc = "start" /\ sts = "none" /\ caller = "stuck" /\ res = "none"
      /\ pBitstream = TRUE /\ incompatible = FALSE
      /\ prevReset = -1 /\ exit = "running"
      /\ fed = Min({opt.read, NumFrames}) /\ consumed = 0 /\ total = 0 /\ offset = 0
      /\ alloc = 1 /\ sem = 0 /\ event = FALSE
      /\ stop = FALSE /\ error = "none" /\ dpc = "none"
      /\ synced = 0 /\ output = 0 /\ faults = 0
    BY Zenon DEF Init
<1>1. /\ opt.read \in Nat /\ NumFrames \in Nat
    BY <1>0, ConfigurationFacts
<1>2. ControlTypes
    BY <1>0 DEF ControlTypes, Going
<1>3. fed \in 0..NumFrames
  <2>1. Min({opt.read, NumFrames}) \in Nat /\ Min({opt.read, NumFrames}) <= NumFrames
    BY <1>1, MinOfTwo
  <2> QED  BY <1>0, <1>1, <2>1
<1>4. StreamTypes
    BY <1>0, <1>1, <1>3, PipelineAssumption DEF StreamTypes
<1>5. ThreadTypes /\ alloc # 0
  <2>1. alloc \in Nat /\ alloc # 0 /\ sem \in Nat /\ synced \in Nat /\ output \in Nat
    BY <1>0
  <2>2. event \in BOOLEAN /\ stop \in BOOLEAN
    BY <1>0
  <2>3. error \in {"none", "unknown", "null_ptr"}
    BY <1>0
  <2>4. dpc \in {"none", "test", "waiting", "take", "deliver", "return",
                "count", "signal", "ended"}
    BY <1>0
  <2> QED  BY <2>1, <2>2, <2>3, <2>4 DEF ThreadTypes
<1> QED  BY <1>2, <1>4, <1>5 DEF Control

(* Another read of the stream stays within it.                             *)
LEMMA ReadOn ==
    ASSUME StreamTypes, fed' = Min({fed + opt.read, NumFrames}), offset' = 0,
           UNCHANGED <<opt, consumed, faults>>,
           total' \in Nat, prevReset' \in Nat \cup {-1}
    PROVE  StreamTypes'
<1>1. NumFrames \in Nat /\ opt.read \in Nat /\ fed \in Nat /\ fed <= NumFrames
    BY ConfigurationFacts DEF StreamTypes
<1>2. /\ fed' \in Nat /\ fed' \in {fed + opt.read, NumFrames} /\ fed' <= NumFrames
    BY <1>1, MinOfTwo
<1>3. fed' \in 0..NumFrames /\ fed <= fed' /\ NumFrames' = NumFrames
    BY <1>1, <1>2 DEF NumFrames
<1> QED  BY <1>1, <1>3 DEF StreamTypes

LEMMA ControlStep == Control /\ [Next]_vars => Control'
<1> SUFFICES ASSUME Control, [Next]_vars PROVE Control'
    OBVIOUS
<1> DEFINE Goal == ControlTypes' /\ StreamTypes' /\ ThreadTypes' /\ alloc' # 0
<1>0. /\ FrameLimit \in Nat \ {0} /\ NumFrames \in Nat /\ opt.read \in Nat \ {0}
      /\ MaxFaults \in Nat
    BY ConfigurationFacts, PipelineAssumption DEF Control, StreamTypes
<1>1. ControlTypes /\ StreamTypes /\ ThreadTypes /\ alloc # 0
    BY DEF Control
<1> USE DEF ctlVars, loopVars, inVars, decVars, poolVars, outVars, delivVars, thrVars,
            cntVars, Going, Errors, Warnings, NumFrames
<1>2. ASSUME StartRun PROVE Goal
  <2>1. ControlTypes'
    BY <1>2, <1>1 DEF StartRun, Rendering, ControlTypes
  <2>2. StreamTypes'
    BY <1>2, <1>1, <1>0 DEF StartRun, Rendering, StreamTypes
  <2>3. ThreadTypes' /\ alloc' # 0
    <3>1. CASE Rendering
      <4>1. /\ sem' = 0 /\ event' = FALSE /\ dpc' = "test"
            /\ UNCHANGED <<stop, error, synced, output, alloc>>
        BY <1>2, <3>1 DEF StartRun
      <4>2. event' \in BOOLEAN /\ sem' \in Nat
        BY <4>1
      <4> QED  BY <1>1, <4>1, <4>2 DEF ThreadTypes
    <3>2. CASE ~ Rendering
      BY <1>2, <1>1, <3>2 DEF StartRun, ThreadTypes
    <3> QED  BY <3>1, <3>2
  <2> QED  BY <2>1, <2>2, <2>3
<1>3. ASSUME LeaveLoop PROVE Goal
  <2>1. ControlTypes'
    BY <1>3, <1>1 DEF LeaveLoop, ControlTypes
  <2>2. StreamTypes'
    BY <1>3, <1>1, <1>0 DEF LeaveLoop, StreamTypes
  <2>3. ThreadTypes' /\ alloc' # 0
    BY <1>3, <1>1, <1>0 DEF LeaveLoop, ThreadTypes
  <2> QED  BY <2>1, <2>2, <2>3
<1>4. ASSUME ReadNextFrame PROVE Goal
  <2>1. ControlTypes'
    <3>1. CASE pBitstream /\ sts = "more_data"
      BY <1>4, <1>1, <3>1 DEF ReadNextFrame, ControlTypes
    <3>2. CASE ~ (pBitstream /\ sts = "more_data")
      BY <1>4, <1>1, <3>2 DEF ReadNextFrame, ControlTypes
    <3> QED  BY <3>1, <3>2
  <2>2. StreamTypes'
    <3>1. CASE pBitstream /\ sts = "more_data"
      <4>1. /\ fed' = Min({fed + opt.read, NumFrames}) /\ offset' = 0
            /\ UNCHANGED <<opt, prevReset, consumed, total, faults>>
        BY <1>4, <3>1 DEF ReadNextFrame
      <4> QED  BY <1>0, <1>1, <4>1, ReadOn DEF StreamTypes
    <3>2. CASE ~ (pBitstream /\ sts = "more_data")
      BY <1>4, <1>1, <3>2 DEF ReadNextFrame, StreamTypes
    <3> QED  BY <3>1, <3>2
  <2>3. ThreadTypes' /\ alloc' # 0
    BY <1>4, <1>1, <1>0 DEF ReadNextFrame, ThreadTypes
  <2> QED  BY <2>1, <2>2, <2>3
<1>5. ASSUME TakeSurfaces PROVE Goal
  <2>1. ControlTypes'
    BY <1>5, <1>1 DEF TakeSurfaces, CallSync, ControlTypes
  <2>2. StreamTypes'
    BY <1>5, <1>1, <1>0 DEF TakeSurfaces, CallSync, StreamTypes
  <2>3. ThreadTypes' /\ alloc' # 0
    BY <1>5, <1>1, <1>0 DEF TakeSurfaces, CallSync, ThreadTypes
  <2> QED  BY <2>1, <2>2, <2>3
<1>6. ASSUME DecodeFrameAsync PROVE Goal
  <2>1. ControlTypes'
    BY <1>6, <1>1 DEF DecodeFrameAsync, EmitFrame, Fault, ControlTypes
  <2>2. StreamTypes'
    <3>1. /\ consumed < fed /\ offset' = offset + 1
          /\ consumed' = consumed + 1 \/ consumed' = fed
          /\ UNCHANGED <<opt, prevReset, fed, total>>
      BY <1>6 DEF DecodeFrameAsync
    <3>2. UNCHANGED faults \/ Fault("vpp_failed")
      BY <1>6 DEF DecodeFrameAsync, EmitFrame
    <3> QED  BY <1>0, <1>1, <3>1, <3>2 DEF Fault, StreamTypes
  <2>3. ThreadTypes' /\ alloc' # 0
    BY <1>6, <1>1, <1>0 DEF DecodeFrameAsync, EmitFrame, Fault, ThreadTypes
  <2> QED  BY <2>1, <2>2, <2>3
<1>7. ASSUME NeedsMoreData PROVE Goal
  <2>1. ControlTypes'
    BY <1>7, <1>1 DEF NeedsMoreData, ControlTypes
  <2>2. StreamTypes'
    BY <1>7, <1>1, <1>0 DEF NeedsMoreData, StreamTypes
  <2>3. ThreadTypes' /\ alloc' # 0
    BY <1>7, <1>1, <1>0 DEF NeedsMoreData, ThreadTypes
  <2> QED  BY <2>1, <2>2, <2>3
<1>8. ASSUME PullBuffered PROVE Goal
  <2>1. ControlTypes'
    BY <1>8, <1>1 DEF PullBuffered, EmitFrame, CallSync, Fault, ControlTypes
  <2>2. StreamTypes'
    BY <1>8, <1>1, <1>0 DEF PullBuffered, EmitFrame, CallSync, Fault, StreamTypes
  <2>3. ThreadTypes' /\ alloc' # 0
    BY <1>8, <1>1, <1>0 DEF PullBuffered, EmitFrame, CallSync, Fault, ThreadTypes
  <2> QED  BY <2>1, <2>2, <2>3
<1>9. ASSUME DecodeTrouble PROVE Goal
  <2>1. ControlTypes'
    BY <1>9, <1>1 DEF DecodeTrouble, CallSync, Fault, ControlTypes
  <2>2. StreamTypes'
    BY <1>9, <1>1, <1>0 DEF DecodeTrouble, CallSync, Fault, StreamTypes
  <2>3. ThreadTypes' /\ alloc' # 0
    BY <1>9, <1>1, <1>0 DEF DecodeTrouble, CallSync, Fault, ThreadTypes
  <2> QED  BY <2>1, <2>2, <2>3
<1>10. ASSUME SyncNothing PROVE Goal
  <2>1. ControlTypes'
    BY <1>10, <1>1 DEF SyncNothing, ControlTypes
  <2>2. StreamTypes'
    BY <1>10, <1>1, <1>0 DEF SyncNothing, StreamTypes
  <2>3. ThreadTypes' /\ alloc' # 0
    BY <1>10, <1>1, <1>0 DEF SyncNothing, ThreadTypes
  <2> QED  BY <2>1, <2>2, <2>3
<1>11. ASSUME SyncFails PROVE Goal
  <2>1. ControlTypes'
    BY <1>11, <1>1 DEF SyncFails, Fault, ControlTypes
  <2>2. StreamTypes'
    BY <1>11, <1>1, <1>0 DEF SyncFails, Fault, StreamTypes
  <2>3. ThreadTypes' /\ alloc' # 0
    BY <1>11, <1>1, <1>0 DEF SyncFails, Fault, ThreadTypes
  <2> QED  BY <2>1, <2>2, <2>3
<1>12. ASSUME SyncForDelivery PROVE Goal
  <2>1. ControlTypes'
    BY <1>12, <1>1 DEF SyncForDelivery, Fault, ControlTypes
  <2>2. StreamTypes'
    BY <1>12, <1>1, <1>0 DEF SyncForDelivery, Fault, StreamTypes
  <2>3. ThreadTypes' /\ alloc' # 0
    BY <1>12, <1>1, <1>0 DEF SyncForDelivery, Fault, ThreadTypes
  <2> QED  BY <2>1, <2>2, <2>3
<1>13. ASSUME ResetEvent PROVE Goal
  <2>1. ControlTypes'
    BY <1>13, <1>1 DEF ResetEvent, ControlTypes
  <2>2. StreamTypes'
    BY <1>13, <1>1, <1>0 DEF ResetEvent, StreamTypes
  <2>3. ThreadTypes' /\ alloc' # 0
    BY <1>13, <1>1, <1>0 DEF ResetEvent, ThreadTypes
  <2> QED  BY <2>1, <2>2, <2>3
<1>14. ASSUME PostDelivered PROVE Goal
  <2>1. ControlTypes'
    BY <1>14, <1>1 DEF PostDelivered, ControlTypes
  <2>2. StreamTypes'
    BY <1>14, <1>1, <1>0 DEF PostDelivered, StreamTypes
  <2>3. ThreadTypes' /\ alloc' # 0
    BY <1>14, <1>1, <1>0 DEF PostDelivered, ThreadTypes
  <2> QED  BY <2>1, <2>2, <2>3
<1>15. ASSUME SyncAndDeliver PROVE Goal
  <2>1. ControlTypes'
    BY <1>15, <1>1 DEF SyncAndDeliver, Fault, ControlTypes
  <2>2. StreamTypes'
    BY <1>15, <1>1, <1>0 DEF SyncAndDeliver, Fault, StreamTypes
  <2>3. ThreadTypes' /\ alloc' # 0
    BY <1>15, <1>1, <1>0 DEF SyncAndDeliver, Fault, ThreadTypes
  <2> QED  BY <2>1, <2>2, <2>3
<1>16. ASSUME StuckReturns PROVE Goal
  <2>1. ControlTypes'
    BY <1>16, <1>1 DEF StuckReturns, ControlTypes
  <2>2. StreamTypes'
    BY <1>16, <1>1, <1>0 DEF StuckReturns, StreamTypes
  <2>3. ThreadTypes' /\ alloc' # 0
    BY <1>16, <1>1, <1>0 DEF StuckReturns, ThreadTypes
  <2> QED  BY <2>1, <2>2, <2>3
<1>17. ASSUME CompareCounts PROVE Goal
  <2>1. ControlTypes'
    BY <1>17, <1>1 DEF CompareCounts, ControlTypes
  <2>2. StreamTypes'
    BY <1>17, <1>1, <1>0 DEF CompareCounts, StreamTypes
  <2>3. ThreadTypes' /\ alloc' # 0
    BY <1>17, <1>1, <1>0 DEF CompareCounts, ThreadTypes
  <2> QED  BY <2>1, <2>2, <2>3
<1>18. ASSUME TimedWait PROVE Goal
  <2>1. ControlTypes'
    BY <1>18, <1>1 DEF TimedWait, Fault, ControlTypes
  <2>2. StreamTypes'
    BY <1>18, <1>1, <1>0 DEF TimedWait, Fault, StreamTypes
  <2>3. ThreadTypes' /\ alloc' # 0
    BY <1>18, <1>1, <1>0 DEF TimedWait, Fault, ThreadTypes
  <2> QED  BY <2>1, <2>2, <2>3
<1>19. ASSUME BusyReturns PROVE Goal
  <2>1. ControlTypes'
    BY <1>19, <1>1 DEF BusyReturns, ControlTypes
  <2>2. StreamTypes'
    BY <1>19, <1>1, <1>0 DEF BusyReturns, StreamTypes
  <2>3. ThreadTypes' /\ alloc' # 0
    BY <1>19, <1>1, <1>0 DEF BusyReturns, ThreadTypes
  <2> QED  BY <2>1, <2>2, <2>3
<1>20. ASSUME DrainReturns PROVE Goal
  <2>1. ControlTypes'
    BY <1>20, <1>1 DEF DrainReturns, ControlTypes
  <2>2. StreamTypes'
    BY <1>20, <1>1, <1>0 DEF DrainReturns, StreamTypes
  <2>3. ThreadTypes' /\ alloc' # 0
    BY <1>20, <1>1, <1>0 DEF DrainReturns, ThreadTypes
  <2> QED  BY <2>1, <2>2, <2>3
<1>21. ASSUME Drained PROVE Goal
  <2>1. ControlTypes'
    BY <1>21, <1>1 DEF Drained, ControlTypes
  <2>2. StreamTypes'
    BY <1>21, <1>1, <1>0 DEF Drained, StreamTypes
  <2>3. ThreadTypes' /\ alloc' # 0
    BY <1>21, <1>1, <1>0 DEF Drained, ThreadTypes
  <2> QED  BY <2>1, <2>2, <2>3
<1>22. ASSUME WaitDelivered PROVE Goal
  <2>1. ControlTypes'
    BY <1>22, <1>1 DEF WaitDelivered, ControlTypes
  <2>2. StreamTypes'
    BY <1>22, <1>1, <1>0 DEF WaitDelivered, StreamTypes
  <2>3. ThreadTypes' /\ alloc' # 0
    BY <1>22, <1>1, <1>0 DEF WaitDelivered, ThreadTypes
  <2> QED  BY <2>1, <2>2, <2>3
<1>23. ASSUME EndRun PROVE Goal
  <2>1. ControlTypes'
    BY <1>23, <1>1 DEF EndRun, Rendering, ControlTypes
  <2>2. StreamTypes'
    BY <1>23, <1>1, <1>0 DEF EndRun, Rendering, StreamTypes
  <2>3. ThreadTypes' /\ alloc' # 0
    <3>1. CASE Rendering
      BY <1>23, <1>1, <3>1 DEF EndRun, ThreadTypes
    <3>2. CASE ~ Rendering
      BY <1>23, <1>1, <3>2 DEF EndRun, ThreadTypes
    <3> QED  BY <3>1, <3>2
  <2> QED  BY <2>1, <2>2, <2>3
<1>24. ASSUME JoinDelivery PROVE Goal
  <2>1. ControlTypes'
    BY <1>24, <1>1 DEF JoinDelivery, ControlTypes
  <2>2. StreamTypes'
    BY <1>24, <1>1, <1>0 DEF JoinDelivery, StreamTypes
  <2>3. ThreadTypes' /\ alloc' # 0
    BY <1>24, <1>1, <1>0 DEF JoinDelivery, ThreadTypes
  <2> QED  BY <2>1, <2>2, <2>3
<1>25. ASSUME Exit PROVE Goal
  <2>1. ControlTypes'
    BY <1>25, <1>1 DEF Exit, BytesProcessed, ControlTypes
  <2>2. StreamTypes'
    BY <1>25, <1>1, <1>0 DEF Exit, BytesProcessed, StreamTypes
  <2>3. ThreadTypes' /\ alloc' # 0
    BY <1>25, <1>1, <1>0 DEF Exit, BytesProcessed, ThreadTypes
  <2> QED  BY <2>1, <2>2, <2>3
<1>26. ASSUME ResetDecoder PROVE Goal
  <2>1. ControlTypes'
    BY <1>26, <1>1 DEF ResetDecoder, BytesProcessed, ControlTypes
  <2>2. StreamTypes'
    <3>1. /\ prevReset' = total + offset /\ UNCHANGED <<opt, consumed, faults>>
          /\ \/ UNCHANGED <<fed, offset, total>>
             \/ /\ total' = total + offset /\ offset' = 0
                /\ fed' = Min({fed + opt.read, NumFrames})
      BY <1>26 DEF ResetDecoder, BytesProcessed
    <3>2. CASE UNCHANGED <<fed, offset, total>>
      BY <1>1, <3>1, <3>2 DEF StreamTypes
    <3>3. CASE /\ total' = total + offset /\ offset' = 0
               /\ fed' = Min({fed + opt.read, NumFrames})
      BY <1>0, <1>1, <3>1, <3>3, ReadOn DEF StreamTypes
    <3> QED  BY <3>1, <3>2, <3>3
  <2>3. ThreadTypes' /\ alloc' # 0
    BY <1>26, <1>1, <1>0 DEF ResetDecoder, BytesProcessed, ThreadTypes
  <2> QED  BY <2>1, <2>2, <2>3
<1>27. ASSUME DeliverTest PROVE Goal
  <2>1. ControlTypes'
    BY <1>27, <1>1 DEF DeliverTest, ControlTypes
  <2>2. StreamTypes'
    BY <1>27, <1>1, <1>0 DEF DeliverTest, StreamTypes
  <2>3. ThreadTypes' /\ alloc' # 0
    BY <1>27, <1>1, <1>0 DEF DeliverTest, ThreadTypes
  <2> QED  BY <2>1, <2>2, <2>3
<1>28. ASSUME DeliverWait PROVE Goal
  <2>1. ControlTypes'
    BY <1>28, <1>1 DEF DeliverWait, ControlTypes
  <2>2. StreamTypes'
    BY <1>28, <1>1, <1>0 DEF DeliverWait, StreamTypes
  <2>3. ThreadTypes' /\ alloc' # 0
    BY <1>28, <1>1, <1>0 DEF DeliverWait, ThreadTypes
  <2> QED  BY <2>1, <2>2, <2>3
<1>29. ASSUME DeliverTake PROVE Goal
  <2>1. ControlTypes'
    BY <1>29, <1>1 DEF DeliverTake, ControlTypes
  <2>2. StreamTypes'
    BY <1>29, <1>1, <1>0 DEF DeliverTake, StreamTypes
  <2>3. ThreadTypes' /\ alloc' # 0
    BY <1>29, <1>1, <1>0 DEF DeliverTake, ThreadTypes
  <2> QED  BY <2>1, <2>2, <2>3
<1>30. ASSUME DeliverOutput PROVE Goal
  <2>1. ControlTypes'
    BY <1>30, <1>1 DEF DeliverOutput, Fault, ControlTypes
  <2>2. StreamTypes'
    BY <1>30, <1>1, <1>0 DEF DeliverOutput, Fault, StreamTypes
  <2>3. ThreadTypes' /\ alloc' # 0
    BY <1>30, <1>1, <1>0 DEF DeliverOutput, Fault, ThreadTypes
  <2> QED  BY <2>1, <2>2, <2>3
<1>31. ASSUME DeliverReturn PROVE Goal
  <2>1. ControlTypes'
    BY <1>31, <1>1 DEF DeliverReturn, ControlTypes
  <2>2. StreamTypes'
    BY <1>31, <1>1, <1>0 DEF DeliverReturn, StreamTypes
  <2>3. ThreadTypes' /\ alloc' # 0
    BY <1>31, <1>1, <1>0 DEF DeliverReturn, ThreadTypes
  <2> QED  BY <2>1, <2>2, <2>3
<1>32. ASSUME DeliverCount PROVE Goal
  <2>1. ControlTypes'
    BY <1>32, <1>1 DEF DeliverCount, ControlTypes
  <2>2. StreamTypes'
    BY <1>32, <1>1, <1>0 DEF DeliverCount, StreamTypes
  <2>3. ThreadTypes' /\ alloc' # 0
    BY <1>32, <1>1, <1>0 DEF DeliverCount, ThreadTypes
  <2> QED  BY <2>1, <2>2, <2>3
<1>33. ASSUME DeliverSignal PROVE Goal
  <2>1. ControlTypes'
    BY <1>33, <1>1 DEF DeliverSignal, ControlTypes
  <2>2. StreamTypes'
    BY <1>33, <1>1, <1>0 DEF DeliverSignal, StreamTypes
  <2>3. ThreadTypes' /\ alloc' # 0
    BY <1>33, <1>1, <1>0 DEF DeliverSignal, ThreadTypes
  <2> QED  BY <2>1, <2>2, <2>3
<1>34. ASSUME NEW s \in Surfaces, LibraryUnlocks(s) PROVE Goal
    BY <1>34, <1>1 DEF LibraryUnlocks, ControlTypes, StreamTypes, ThreadTypes
<1>35. ASSUME UNCHANGED vars PROVE Goal
    BY <1>35, <1>1 DEF vars, ControlTypes, StreamTypes, ThreadTypes
<1> HIDE DEF Goal
<1>36. Goal
    BY <1>2, <1>3, <1>4, <1>5, <1>6, <1>7, <1>8, <1>9, <1>10, <1>11, <1>12, <1>13,
       <1>14, <1>15, <1>16, <1>17, <1>18, <1>19, <1>20, <1>21, <1>22, <1>23, <1>24,
       <1>25, <1>26, <1>27, <1>28, <1>29, <1>30, <1>31, <1>32, <1>33, <1>34, <1>35
       DEF Next, MainThread, DeliverLoop, Done
<1> QED  BY <1>36 DEF Goal, Control

----------------------------------------------------------------------------
(* The surface pools of CBuffering: a pool whose surfaces are those of S,  *)
(* each in one place.                                                      *)

PoolOf(p, S) ==
    /\ p \in [free : Seq(S), used : Seq(S), cur : S \cup {Null}]
    /\ PoolIsPartitioned(p) /\ PoolSurfaces(p) = S

\* the surfaces a decode or VPP step may be given next
Available(p) == ToSet(p.free) \cup {p.cur}

(* A list is injective when no element occurs twice.                       *)
LEMMA InjectiveIsOnce ==
    ASSUME NEW S, NEW q \in Seq(S)
    PROVE  /\ IsInjective(q) <=> Once(q, S)
           /\ ToSet(q) = Range(q) /\ Range(q) \subseteq S
<1>1. DOMAIN q = 1..Len(q) /\ \A i \in 1..Len(q) : q[i] \in S
    BY LenProperties
<1>2. ToSet(q) = Range(q)
    BY DEF ToSet, Range
<1>3. Range(q) = {q[i] : i \in 1..Len(q)}
    BY RangeEquality
<1> QED  BY <1>1, <1>2, <1>3 DEF IsInjective, Once

(* The parts of a pool, as the lemmas below need them.                     *)
LEMMA PoolParts ==
    ASSUME NEW S, NEW p, PoolOf(p, S), Null \notin S
    PROVE  /\ p = [free |-> p.free, used |-> p.used, cur |-> p.cur]
           /\ p.free \in Seq(S) /\ p.used \in Seq(S) /\ p.cur \in S \cup {Null}
           /\ Once(p.free, S) /\ Once(p.used, S)
           /\ Range(p.free) \subseteq S /\ Range(p.used) \subseteq S
           /\ Range(p.free) \cap Range(p.used) = {}
           /\ p.cur \notin Range(p.free) /\ p.cur \notin Range(p.used)
           /\ Range(p.free) \cup Range(p.used) \cup ({p.cur} \ {Null}) = S
           /\ Available(p) = Range(p.free) \cup {p.cur}
<1>1. /\ p \in [free : Seq(S), used : Seq(S), cur : S \cup {Null}]
      /\ IsInjective(p.free) /\ IsInjective(p.used)
      /\ ToSet(p.free) \cap ToSet(p.used) = {}
      /\ p.cur \notin ToSet(p.free) \cup ToSet(p.used)
      /\ ToSet(p.free) \cup ToSet(p.used) \cup ({p.cur} \ {Null}) = S
    BY DEF PoolOf, PoolIsPartitioned, PoolSurfaces
<1>2. /\ p = [free |-> p.free, used |-> p.used, cur |-> p.cur]
      /\ p.free \in Seq(S) /\ p.used \in Seq(S) /\ p.cur \in S \cup {Null}
    BY <1>1
<1>3. /\ IsInjective(p.free) <=> Once(p.free, S)
      /\ ToSet(p.free) = Range(p.free) /\ Range(p.free) \subseteq S
    BY <1>2, InjectiveIsOnce
<1>4. /\ IsInjective(p.used) <=> Once(p.used, S)
      /\ ToSet(p.used) = Range(p.used) /\ Range(p.used) \subseteq S
    BY <1>2, InjectiveIsOnce
<1> QED  BY <1>1, <1>2, <1>3, <1>4 DEF Available

LEMMA PoolFromParts ==
    ASSUME NEW S, Null \notin S,
           NEW f \in Seq(S), NEW u \in Seq(S), NEW c \in S \cup {Null},
           Once(f, S), Once(u, S), Range(f) \cap Range(u) = {},
           c \notin Range(f), c \notin Range(u),
           Range(f) \cup Range(u) \cup ({c} \ {Null}) = S
    PROVE  /\ PoolOf([free |-> f, used |-> u, cur |-> c], S)
           /\ Available([free |-> f, used |-> u, cur |-> c]) = Range(f) \cup {c}
<1> DEFINE p == [free |-> f, used |-> u, cur |-> c]
<1>1. /\ p \in [free : Seq(S), used : Seq(S), cur : S \cup {Null}]
      /\ p.free = f /\ p.used = u /\ p.cur = c
    OBVIOUS
<1>2. (IsInjective(f) <=> Once(f, S)) /\ ToSet(f) = Range(f)
    BY InjectiveIsOnce
<1>3. (IsInjective(u) <=> Once(u, S)) /\ ToSet(u) = Range(u)
    BY InjectiveIsOnce
<1> HIDE DEF p
<1>4. PoolIsPartitioned(p)
    BY <1>1, <1>2, <1>3 DEF PoolIsPartitioned
<1>5. PoolSurfaces(p) = S
    BY <1>1, <1>2, <1>3 DEF PoolSurfaces
<1> QED  BY <1>1, <1>2, <1>4, <1>5 DEF PoolOf, Available, p

(* AllocBuffers makes a pool with every surface free.                      *)
LEMMA AllocatedPool ==
    ASSUME NEW a \in Nat \ {0}, NEW b \in Nat, a <= b + 1
    PROVE  PoolOf(AllocBuffers(a, b), a..b)
<1> DEFINE S == a..b
           f == [i \in 1..(b - a + 1) |-> a + i - 1]
           z == <<>>
<1>1. f \in Seq(S) /\ Len(f) = b - a + 1
  <2>1. b - a + 1 \in Nat /\ f \in [1..(b - a + 1) -> S]
    OBVIOUS
  <2> HIDE DEF f, S
  <2> QED  BY <2>1, LenProperties, SeqDef
<1>2. \A i \in 1..Len(f) : f[i] = a + i - 1
    BY <1>1
<1>3. Range(f) = {f[i] : i \in 1..Len(f)}
    BY <1>1, RangeEquality
<1> HIDE DEF f
<1>4. Once(f, S)
    BY <1>1, <1>2 DEF Once
<1>5. Range(f) = S
  <2>1. \A x \in S : (x - a + 1) \in 1..Len(f) /\ f[x - a + 1] = x
    BY <1>1, <1>2
  <2>2. \A i \in 1..Len(f) : f[i] \in S
    BY <1>1, <1>2
  <2> HIDE DEF S
  <2> QED  BY <1>3, <2>1, <2>2
<1>6. Null \notin S
    BY DEF Null
<1>7. z \in Seq(S) /\ Once(z, S) /\ Range(z) = {}
    BY DEF Once, Range
<1> HIDE DEF z, S
<1>8. PoolOf([free |-> f, used |-> z, cur |-> Null], S)
    BY <1>1, <1>4, <1>5, <1>6, <1>7, PoolFromParts
<1> QED  BY <1>8 DEF AllocBuffers, f, z, S

(* SyncFrameSurfaces makes at most one more surface free, one that nobody  *)
(* holds.                                                                  *)
LEMMA SyncedPool ==
    ASSUME NEW S, NEW p, NEW B, PoolOf(p, S), Null \notin S
    PROVE  /\ PoolOf(SyncFrameSurfaces(p, B), S)
           /\ Available(SyncFrameSurfaces(p, B)) \subseteq Available(p) \cup (S \ B)
           /\ SyncFrameSurfaces(p, B).cur = p.cur
<1> DEFINE idle == {i \in DOMAIN p.used : p.used[i] \notin B}
           k == CHOOSE i \in idle : \A j \in idle : i <= j
<1>1. /\ p = [free |-> p.free, used |-> p.used, cur |-> p.cur]
      /\ p.free \in Seq(S) /\ p.used \in Seq(S) /\ p.cur \in S \cup {Null}
      /\ Once(p.free, S) /\ Once(p.used, S)
      /\ Range(p.free) \subseteq S /\ Range(p.used) \subseteq S
      /\ Range(p.free) \cap Range(p.used) = {}
      /\ p.cur \notin Range(p.free) /\ p.cur \notin Range(p.used)
      /\ Range(p.free) \cup Range(p.used) \cup ({p.cur} \ {Null}) = S
      /\ Available(p) = Range(p.free) \cup {p.cur}
    BY PoolParts
<1>2. CASE idle = {}
  <2>1. SyncFrameSurfaces(p, B) = p
    BY <1>2 DEF SyncFrameSurfaces
  <2> QED  BY <2>1
<1>3. CASE idle # {}
  <2>1. SyncFrameSurfaces(p, B) = MoveToFree(p, k)
    BY <1>3 DEF SyncFrameSurfaces
  <2>2. idle \subseteq 1..Len(p.used) /\ Len(p.used) \in Nat
    BY <1>1, LenProperties
  <2>3. idle \in SUBSET Nat
    BY <2>2
  <2>4. \E m \in idle : \A i \in idle : m <= i
    <3> HIDE DEF idle
    <3> QED  BY <1>3, <2>3, LeastElement
  <2>5. k \in idle
    <3> HIDE DEF idle
    <3> QED  BY <2>4
  <2>6. k \in 1..Len(p.used) /\ p.used[k] \notin B
    BY <2>2, <2>5
  <2> HIDE DEF k, idle
  <2> DEFINE x == p.used[k]
             u == RemoveAt(p.used, k)
             f == <<x>> \o p.free
  <2>7. /\ u \in Seq(S) /\ x \in S /\ Once(u, S)
        /\ Range(u) = Range(p.used) \ {x} /\ x \in Range(p.used)
    BY <1>1, <2>6, RemoveAtOnce
  <2>8. x \notin B
    BY <2>6
  <2> HIDE DEF x
  <2>9. x \notin Range(p.free)
    BY <1>1, <2>7
  <2>10. f \in Seq(S) /\ Range(f) = Range(p.free) \cup {x} /\ Once(f, S)
    BY <1>1, <2>7, <2>9, PrependOnce
  <2>11. MoveToFree(p, k) = [free |-> f, used |-> u, cur |-> p.cur]
    <3>1. MoveToFree(p, k) = [p EXCEPT !.free = f, !.used = u]
      BY Zenon DEF MoveToFree, x
    <3> HIDE DEF f, u
    <3> QED  BY <1>1, <3>1
  <2> HIDE DEF f, u
  <2>12. x # p.cur
    BY <1>1, <2>7
  <2>13. /\ Range(f) \cap Range(u) = {}
         /\ p.cur \notin Range(f) /\ p.cur \notin Range(u)
         /\ Range(f) \cup Range(u) \cup ({p.cur} \ {Null}) = S
    BY <1>1, <2>7, <2>9, <2>10, <2>12
  <2>14. /\ PoolOf([free |-> f, used |-> u, cur |-> p.cur], S)
         /\ Available([free |-> f, used |-> u, cur |-> p.cur]) = Range(f) \cup {p.cur}
    BY <1>1, <2>7, <2>10, <2>13, PoolFromParts
  <2>15. [free |-> f, used |-> u, cur |-> p.cur].cur = p.cur
    OBVIOUS
  <2> QED  BY <1>1, <2>1, <2>7, <2>8, <2>10, <2>11, <2>14, <2>15
<1> QED  BY <1>2, <1>3

(* TakeFree only moves a surface from the free ones to the current one.    *)
LEMMA TakenPool ==
    ASSUME NEW S, NEW p, PoolOf(p, S), Null \notin S
    PROVE  PoolOf(TakeFree(p), S) /\ Available(TakeFree(p)) \subseteq Available(p)
<1>1. /\ p = [free |-> p.free, used |-> p.used, cur |-> p.cur]
      /\ p.free \in Seq(S) /\ p.used \in Seq(S) /\ p.cur \in S \cup {Null}
      /\ Once(p.free, S) /\ Once(p.used, S)
      /\ Range(p.free) \subseteq S /\ Range(p.used) \subseteq S
      /\ Range(p.free) \cap Range(p.used) = {}
      /\ p.cur \notin Range(p.free) /\ p.cur \notin Range(p.used)
      /\ Range(p.free) \cup Range(p.used) \cup ({p.cur} \ {Null}) = S
      /\ Available(p) = Range(p.free) \cup {p.cur}
    BY PoolParts
<1>2. CASE p.cur # Null \/ p.free = <<>>
  <2>1. TakeFree(p) = p
    BY <1>2 DEF TakeFree
  <2> QED  BY <2>1
<1>3. CASE p.cur = Null /\ p.free # <<>>
  <2> DEFINE x == Head(p.free)
             f == Tail(p.free)
  <2>1. /\ x \in S /\ x \in Range(p.free) /\ f \in Seq(S) /\ Range(f) \subseteq Range(p.free)
        /\ Once(f, S) /\ x \notin Range(f)
    <3>1. PICK q \in Seq(S) : q = p.free
      BY <1>1
    <3>2. q # <<>> /\ Once(q, S)
      BY <1>1, <1>3, <3>1
    <3>3. Head(q) \in S /\ Head(q) \in Range(q)
      BY <3>2, TailOnce
    <3>4. /\ Tail(q) \in Seq(S) /\ Range(Tail(q)) \subseteq Range(q)
          /\ Once(Tail(q), S) /\ Head(q) \notin Range(Tail(q))
      BY <3>2, <3>3, TailOnce
    <3> QED  BY <3>1, <3>3, <3>4
  <2>2. Range(p.free) = Range(f) \cup {x}
    BY <1>1, <1>3, TailElements
  <2>3. TakeFree(p) = [free |-> f, used |-> p.used, cur |-> x]
    BY <1>1, <1>3 DEF TakeFree
  <2> HIDE DEF x, f
  <2>4. /\ Range(f) \cap Range(p.used) = {}
        /\ x \notin Range(p.used)
        /\ Range(f) \cup Range(p.used) \cup ({x} \ {Null}) = S
    BY <1>1, <1>3, <2>1, <2>2
  <2>5. /\ PoolOf([free |-> f, used |-> p.used, cur |-> x], S)
        /\ Available([free |-> f, used |-> p.used, cur |-> x]) = Range(f) \cup {x}
    <3>1. x \in S \cup {Null} /\ x \notin Range(f)
      BY <2>1
    <3> QED  BY SMTT(40), <1>1, <2>1, <2>4, <3>1, PoolFromParts
  <2> QED  BY <1>1, <2>1, <2>3, <2>5
<1> QED  BY <1>2, <1>3

(* UseCurrent moves the current surface to the used ones.                  *)
LEMMA UsedPool ==
    ASSUME NEW S, NEW p, PoolOf(p, S), Null \notin S, p.cur # Null
    PROVE  /\ PoolOf(UseCurrent(p), S)
           /\ Available(UseCurrent(p)) \subseteq (Available(p) \cup {Null}) \ {p.cur}
           /\ p.cur \in S
<1>1. /\ p = [free |-> p.free, used |-> p.used, cur |-> p.cur]
      /\ p.free \in Seq(S) /\ p.used \in Seq(S) /\ p.cur \in S \cup {Null}
      /\ Once(p.free, S) /\ Once(p.used, S)
      /\ Range(p.free) \subseteq S /\ Range(p.used) \subseteq S
      /\ Range(p.free) \cap Range(p.used) = {}
      /\ p.cur \notin Range(p.free) /\ p.cur \notin Range(p.used)
      /\ Range(p.free) \cup Range(p.used) \cup ({p.cur} \ {Null}) = S
      /\ Available(p) = Range(p.free) \cup {p.cur}
    BY PoolParts
<1> DEFINE c == p.cur
           u == Append(p.used, c)
<1>2. c \in S
    BY <1>1
<1>3. u \in Seq(S) /\ Range(u) = Range(p.used) \cup {c} /\ Once(u, S)
    BY <1>1, <1>2, AppendOnce
<1>4. UseCurrent(p) = [free |-> p.free, used |-> u, cur |-> Null]
  <2>1. UseCurrent(p) = [p EXCEPT !.used = u, !.cur = Null]
    BY Zenon DEF UseCurrent
  <2> HIDE DEF u
  <2> QED  BY <1>1, <2>1
<1> HIDE DEF u, c
<1>5. /\ Range(p.free) \cap Range(u) = {}
      /\ Null \notin Range(u) /\ Null \notin Range(p.free)
      /\ Range(p.free) \cup Range(u) \cup ({Null} \ {Null}) = S
    BY <1>1, <1>2, <1>3 DEF c
<1>6. /\ PoolOf([free |-> p.free, used |-> u, cur |-> Null], S)
      /\ Available([free |-> p.free, used |-> u, cur |-> Null]) = Range(p.free) \cup {Null}
    BY <1>1, <1>3, <1>5, PoolFromParts
<1> QED  BY <1>1, <1>2, <1>4, <1>6 DEF c

----------------------------------------------------------------------------
(* The pools and the library.  A surface that is free, or current, is not  *)
(* locked by the library and does not wait for delivery; that is why what  *)
(* the decoder and VPP write is never a surface in use.                    *)

PoolsIn == PoolOf(pool, DecoderSurfaces) /\ PoolOf(vppPool, VppSurfaces)

LibraryIn ==
    /\ DecoderTypes /\ Range(decQ) \subseteq libLock
    /\ renderLock \in [Surfaces -> Int]

AvailableAreIdle == Busy \cap (Available(pool) \cup Available(vppPool)) = {}

\* where the main thread holds the surfaces of TakeSurfaces
HasSurfaces == pc = "decode" \/ (caller = "busy" /\ pc \in {"sync", "reset", "post", "return"})

HeldSurfaces ==
    HasSurfaces => pool.cur # Null /\ (VppIsUsed => vppPool.cur # Null)

Pools == PoolsIn /\ LibraryIn /\ AvailableAreIdle /\ HeldSurfaces

LEMMA SurfaceSets ==
    ASSUME opt \in Configurations
    PROVE  /\ DecoderSurfaces \subseteq Surfaces /\ VppSurfaces \subseteq Surfaces
           /\ DecoderSurfaces \cap VppSurfaces = {} /\ Null \notin Surfaces
           /\ Null \notin DecoderSurfaces /\ Null \notin VppSurfaces
           /\ NumDecoder \in Nat /\ LastVpp \in Nat /\ NumDecoder <= LastVpp
<1>1. NumDecoder \in Nat /\ NumVpp \in Nat /\ VppIsUsed \in BOOLEAN
    BY PipelineAssumption, ConfigurationFacts
<1>2. LastVpp \in NumDecoder..(NumDecoder + NumVpp)
  <2>1. LastVpp = NumDecoder \/ LastVpp = NumDecoder + NumVpp
    <3>1. CASE VppIsUsed
      BY <1>1, <3>1 DEF LastVpp
    <3>2. CASE ~ VppIsUsed
      BY <1>1, <3>2 DEF LastVpp
    <3> QED  BY <3>1, <3>2
  <2> HIDE DEF LastVpp
  <2> QED  BY <1>1, <2>1
<1> HIDE DEF LastVpp
<1> QED  BY <1>1, <1>2 DEF DecoderSurfaces, VppSurfaces, Surfaces, Null

(* The surfaces a pool offers are its own.                                 *)
LEMMA AvailableIn ==
    ASSUME NEW S, NEW p, PoolOf(p, S), Null \notin S
    PROVE  Available(p) \subseteq S \cup {Null} /\ p.cur \in Available(p)
<1>1. /\ Range(p.free) \subseteq S /\ p.cur \in S \cup {Null}
      /\ Available(p) = Range(p.free) \cup {p.cur}
    BY PoolParts
<1> QED  BY <1>1

(* Nobody starts to use a surface that was idle.                           *)
LEMMA PoolsKeptApart ==
    ASSUME Control, Pools, UNCHANGED <<pool, vppPool, opt>>, LibraryIn',
           libLock' \subseteq libLock,
           \A s \in Surfaces : renderLock'[s] <= renderLock[s]
    PROVE  PoolsIn' /\ LibraryIn' /\ AvailableAreIdle'
<1>1. renderLock \in [Surfaces -> Int] /\ renderLock' \in [Surfaces -> Int]
    BY DEF Pools, LibraryIn
<1>2. Busy' \subseteq Busy
    BY <1>1 DEF Busy
<1>3. VppSurfaces' = VppSurfaces
    BY DEF VppSurfaces, LastVpp, VppIsUsed
<1>4. PoolsIn'
    BY <1>3 DEF Pools, PoolsIn
<1>5. AvailableAreIdle'
  <2>1. Busy \cap (Available(pool) \cup Available(vppPool)) = {}
    BY DEF Pools, AvailableAreIdle
  <2>2. Available(pool)' = Available(pool) /\ Available(vppPool)' = Available(vppPool)
    BY DEF Available
  <2> HIDE DEF Busy, Available
  <2> QED  BY <1>2, <2>1, <2>2 DEF AvailableAreIdle
<1> QED  BY <1>4, <1>5

LEMMA ReturnedSurface ==
    ASSUME LibraryIn, NEW out, ReturnSurfaceToBuffers(out)
    PROVE  /\ renderLock' \in [Surfaces -> Int]
           /\ \A s \in Surfaces : renderLock'[s] <= renderLock[s]
<1>1. renderLock \in [Surfaces -> Int]
    BY DEF LibraryIn
<1>2. CASE out.alloc = alloc
  <2>1. renderLock' = [renderLock EXCEPT ![out.surf] = @ - 1]
    BY <1>2 DEF ReturnSurfaceToBuffers
  <2>2. CASE out.surf \in Surfaces
    <3>1. renderLock[out.surf] \in Int
      BY <1>1, <2>2
    <3> QED  BY <1>1, <2>1, <2>2, <3>1
  <2>3. CASE out.surf \notin Surfaces
    <3>1. renderLock' = renderLock
      BY <1>1, <2>1, <2>3
    <3> QED  BY <1>1, <3>1
  <2> QED  BY <2>2, <2>3
<1>3. CASE out.alloc # alloc
    BY <1>1, <1>3 DEF ReturnSurfaceToBuffers
<1> QED  BY <1>2, <1>3

(* The surface of q that EmitFrame queues, or the VPP surface its picture  *)
(* is processed into, was idle until now or already locked.                *)
LEMMA EmitEffect ==
    ASSUME Control, Pools, pc = "decode", UNCHANGED opt,
           NEW q \in Seq(DecoderSurfaces), q # <<>>,
           NEW lock \in SUBSET DecoderSurfaces,
           Range(q) \subseteq lock, lock \subseteq libLock \cup {pool.cur},
           NEW cont \in [Surfaces -> 0..NumFrames],
           EmitFrame(q, cont, lock)
    PROVE  /\ PoolsIn' /\ LibraryIn' /\ AvailableAreIdle' /\ pc' \in {"top", "end"}
           /\ ~ VppIsUsed => content' = cont
           /\ VppIsUsed => vppPool.cur \notin Busy
                           /\ \A s \in Surfaces : s # vppPool.cur => content'[s] = cont[s]
<1>1. /\ PoolOf(pool, DecoderSurfaces) /\ PoolOf(vppPool, VppSurfaces)
      /\ renderLock \in [Surfaces -> Int] /\ libLock \subseteq DecoderSurfaces
      /\ Busy \cap (Available(pool) \cup Available(vppPool)) = {}
      /\ pool.cur # Null /\ (VppIsUsed => vppPool.cur # Null)
    BY DEF Pools, PoolsIn, LibraryIn, DecoderTypes, AvailableAreIdle, HeldSurfaces,
           HasSurfaces
<1>2. /\ DecoderSurfaces \subseteq Surfaces /\ VppSurfaces \subseteq Surfaces
      /\ DecoderSurfaces \cap VppSurfaces = {} /\ Null \notin Surfaces
      /\ Null \notin DecoderSurfaces /\ Null \notin VppSurfaces
    BY SurfaceSets DEF Control, StreamTypes
<1>3. /\ PoolOf(UseCurrent(pool), DecoderSurfaces)
      /\ Available(UseCurrent(pool)) \subseteq (Available(pool) \cup {Null}) \ {pool.cur}
      /\ pool.cur \in DecoderSurfaces
    BY <1>1, <1>2, UsedPool
<1>4. /\ Available(vppPool) \subseteq VppSurfaces \cup {Null}
      /\ vppPool.cur \in Available(vppPool)
    BY <1>1, <1>2, AvailableIn
<1>5. Available(pool) \subseteq DecoderSurfaces \cup {Null}
    BY <1>1, <1>2, AvailableIn
<1>6. Null \notin Busy
    BY <1>1, <1>2 DEF Busy
<1>7. /\ Head(q) \in DecoderSurfaces /\ Tail(q) \in Seq(DecoderSurfaces)
      /\ Range(q) = Range(Tail(q)) \cup {Head(q)}
    BY TailElements
<1>8. VppSurfaces' = VppSurfaces /\ NumFrames' = NumFrames
    BY DEF VppSurfaces, LastVpp, VppIsUsed, NumFrames
<1>9. /\ decQ' = Tail(q) /\ libLock' = lock /\ pool' = UseCurrent(pool)
      /\ pc' \in {"top", "end"}
    BY DEF EmitFrame
<1>10. ASSUME NEW x \in Surfaces, LockForRender(x)
       PROVE  /\ renderLock' \in [Surfaces -> Int]
              /\ Busy' \subseteq Busy \cup {pool.cur} \cup {x}
  <2>1. renderLock' = [renderLock EXCEPT ![x] = @ + 1]
    BY <1>10 DEF LockForRender
  <2>2. renderLock' \in [Surfaces -> Int]
        /\ \A s \in Surfaces : s # x => renderLock'[s] = renderLock[s]
    BY <1>1, <2>1
  <2>3. Busy' \subseteq Busy \cup {pool.cur} \cup {x}
    BY <1>9, <2>2 DEF Busy
  <2> QED  BY <2>2, <2>3
<1>11. Range(decQ') \subseteq libLock' /\ decQ' \in Seq(DecoderSurfaces)
       /\ libLock' \subseteq DecoderSurfaces
    BY <1>7, <1>9
<1>12. Available(pool)' = Available(UseCurrent(pool))
       /\ PoolOf(pool, DecoderSurfaces)' /\ (vppPool' = vppPool =>
             PoolOf(vppPool, VppSurfaces)' /\ Available(vppPool)' = Available(vppPool))
    BY <1>1, <1>3, <1>8, <1>9 DEF PoolOf, Available
<1>13. CASE ~ VppIsUsed
  <2>1. LockForRender(Head(q)) /\ content' = cont /\ vppPool' = vppPool
    BY <1>13 DEF EmitFrame, QueueOutput
  <2>2. /\ renderLock' \in [Surfaces -> Int]
        /\ Busy' \subseteq Busy \cup {pool.cur} \cup {Head(q)}
    BY <1>2, <1>7, <1>10, <2>1
  <2>3. Head(q) \in Busy \cup {pool.cur}
    BY <1>7 DEF Busy
  <2>4. AvailableAreIdle'
    BY ZenonT(60), <1>1, <1>2, <1>3, <1>4, <1>6, <1>12, <2>1, <2>2, <2>3 DEF AvailableAreIdle
  <2>5. LibraryIn'
    BY <1>8, <1>11, <2>1, <2>2 DEF LibraryIn, DecoderTypes
  <2>6. PoolsIn'
    BY <1>12, <2>1 DEF PoolsIn
  <2> QED  BY <1>9, <1>13, <2>1, <2>4, <2>5, <2>6
<1>14. CASE VppIsUsed
  <2> DEFINE v == vppPool.cur
  <2>1. v \in VppSurfaces /\ v \in Surfaces /\ v \notin Busy
    BY <1>1, <1>2, <1>4, <1>14
  <2>2. CASE LockForRender(v) /\ vppPool' = UseCurrent(vppPool)
             /\ content' = [cont EXCEPT ![v] = cont[Head(q)]]
    <3>1. /\ PoolOf(UseCurrent(vppPool), VppSurfaces)
          /\ Available(UseCurrent(vppPool)) \subseteq (Available(vppPool) \cup {Null}) \ {v}
      BY <1>1, <1>2, <1>14, UsedPool
    <3>2. /\ renderLock' \in [Surfaces -> Int]
          /\ Busy' \subseteq Busy \cup {pool.cur} \cup {v}
      BY <1>10, <2>1, <2>2
    <3>3. PoolOf(vppPool, VppSurfaces)' /\ Available(vppPool)' = Available(UseCurrent(vppPool))
      BY <1>8, <2>2, <3>1 DEF PoolOf, Available
    <3>4. AvailableAreIdle'
      BY ZenonT(60), <1>1, <1>2, <1>3, <1>4, <1>5, <1>6, <1>12, <2>1, <3>1, <3>2, <3>3
         DEF AvailableAreIdle
    <3>5. /\ content' \in [Surfaces -> 0..NumFrames]
          /\ \A s \in Surfaces : s # v => content'[s] = cont[s]
      BY <1>2, <1>7, <2>2
    <3>6. LibraryIn'
      BY <1>8, <1>11, <3>2, <3>5 DEF LibraryIn, DecoderTypes
    <3>7. PoolsIn'
      BY <1>12, <3>3 DEF PoolsIn
    <3> QED  BY <1>9, <1>14, <2>1, <3>4, <3>5, <3>6, <3>7
  <2>3. CASE content' = cont /\ UNCHANGED <<vppPool, renderLock>>
    <3>1. Busy' \subseteq Busy \cup {pool.cur}
      BY <1>9, <2>3 DEF Busy
    <3>2. AvailableAreIdle'
      BY <1>1, <1>2, <1>3, <1>4, <1>6, <1>12, <2>3, <3>1 DEF AvailableAreIdle
    <3>3. LibraryIn'
      BY <1>1, <1>8, <1>11, <2>3 DEF LibraryIn, DecoderTypes
    <3>4. PoolsIn'
      BY <1>12, <2>3 DEF PoolsIn
    <3> QED  BY <1>9, <1>14, <2>1, <2>3, <3>2, <3>3, <3>4
  <2> QED  BY <1>14, <2>2, <2>3 DEF EmitFrame, QueueOutput
<1> QED  BY <1>13, <1>14

\* what one step may write: nothing into a surface in use
Overwrites == \E s \in Surfaces : content'[s] \notin {content[s], 0} /\ s \in Busy

LEMMA PoolsKept0 ==
    ASSUME Control, Pools, UNCHANGED <<pool, vppPool, opt, decQ, content>>,
           libLock' \subseteq libLock, Range(decQ) \subseteq libLock',
           renderLock' \in [Surfaces -> Int],
           \A s \in Surfaces : renderLock'[s] <= renderLock[s],
           HasSurfaces' => HasSurfaces
    PROVE  Pools' /\ ~ Overwrites
<1>1. LibraryIn'
    BY DEF Pools, LibraryIn, DecoderTypes, NumFrames
<1>2. PoolsIn' /\ LibraryIn' /\ AvailableAreIdle'
    BY <1>1, PoolsKeptApart
<1>3. HeldSurfaces'
    BY DEF Pools, HeldSurfaces, VppIsUsed
<1> QED  BY <1>2, <1>3 DEF Pools, Overwrites

(* The steps that touch neither the pools nor the library.                 *)
OtherSteps ==
    \/ StartRun \/ LeaveLoop \/ ReadNextFrame \/ DecodeTrouble
    \/ SyncNothing \/ SyncFails \/ SyncForDelivery \/ ResetEvent
    \/ PostDelivered \/ StuckReturns \/ CompareCounts \/ TimedWait
    \/ DrainReturns \/ Drained \/ WaitDelivered
    \/ EndRun \/ JoinDelivery \/ Exit
    \/ DeliverTest \/ DeliverWait \/ DeliverTake \/ DeliverOutput
    \/ DeliverCount \/ DeliverSignal \/ UNCHANGED vars

LEMMA OtherStepsKeepPools ==
    ASSUME Control, Pools, OtherSteps
    PROVE  Pools' /\ ~ Overwrites
<1> DEFINE Goal == /\ UNCHANGED <<pool, vppPool, opt, decVars, renderLock>>
                   /\ HasSurfaces' => HasSurfaces
<1> USE DEF ctlVars, poolVars, decVars
<1>1. UNCHANGED vars => Goal
    BY DEF vars, HasSurfaces
<1>2. ASSUME StartRun PROVE Goal
    BY <1>2, <1>1 DEF StartRun, HasSurfaces
<1>3. ASSUME LeaveLoop PROVE Goal
    BY <1>3, <1>1 DEF LeaveLoop, HasSurfaces
<1>4. ASSUME ReadNextFrame PROVE Goal
    BY <1>4, <1>1 DEF ReadNextFrame, HasSurfaces
<1>5. ASSUME DecodeTrouble PROVE Goal
    BY <1>5, <1>1 DEF DecodeTrouble, CallSync, HasSurfaces
<1>6. ASSUME SyncNothing PROVE Goal
    BY <1>6, <1>1 DEF SyncNothing, HasSurfaces
<1>7. ASSUME SyncFails PROVE Goal
    BY <1>7, <1>1 DEF SyncFails, HasSurfaces
<1>8. ASSUME SyncForDelivery PROVE Goal
    BY <1>8, <1>1 DEF SyncForDelivery, HasSurfaces
<1>9. ASSUME ResetEvent PROVE Goal
    BY <1>9, <1>1 DEF ResetEvent, HasSurfaces
<1>10. ASSUME PostDelivered PROVE Goal
    BY <1>10, <1>1 DEF PostDelivered, HasSurfaces
<1>11. ASSUME StuckReturns PROVE Goal
    BY <1>11, <1>1 DEF StuckReturns, HasSurfaces
<1>12. ASSUME CompareCounts PROVE Goal
    BY <1>12, <1>1 DEF CompareCounts, HasSurfaces
<1>13. ASSUME TimedWait PROVE Goal
    BY <1>13, <1>1 DEF TimedWait, HasSurfaces
<1>14. ASSUME DrainReturns PROVE Goal
    BY <1>14, <1>1 DEF DrainReturns, HasSurfaces
<1>15. ASSUME Drained PROVE Goal
    BY <1>15, <1>1 DEF Drained, HasSurfaces
<1>16. ASSUME WaitDelivered PROVE Goal
    BY <1>16, <1>1 DEF WaitDelivered, HasSurfaces
<1>17. ASSUME EndRun PROVE Goal
    BY <1>17, <1>1 DEF EndRun, HasSurfaces
<1>18. ASSUME JoinDelivery PROVE Goal
    BY <1>18, <1>1 DEF JoinDelivery, HasSurfaces
<1>19. ASSUME Exit PROVE Goal
    BY <1>19, <1>1 DEF Exit, HasSurfaces
<1>20. ASSUME DeliverTest PROVE Goal
    BY <1>20, <1>1 DEF DeliverTest, HasSurfaces
<1>21. ASSUME DeliverWait PROVE Goal
    BY <1>21, <1>1 DEF DeliverWait, HasSurfaces
<1>22. ASSUME DeliverTake PROVE Goal
    BY <1>22, <1>1 DEF DeliverTake, HasSurfaces
<1>23. ASSUME DeliverOutput PROVE Goal
    BY <1>23, <1>1 DEF DeliverOutput, HasSurfaces
<1>24. ASSUME DeliverCount PROVE Goal
    BY <1>24, <1>1 DEF DeliverCount, HasSurfaces
<1>25. ASSUME DeliverSignal PROVE Goal
    BY <1>25, <1>1 DEF DeliverSignal, HasSurfaces
<1>26. Goal
  <2> HIDE DEF Goal
  <2> QED  BY <1>1, <1>2, <1>3, <1>4, <1>5, <1>6, <1>7, <1>8, <1>9, <1>10, <1>11,
              <1>12, <1>13, <1>14, <1>15, <1>16, <1>17, <1>18, <1>19, <1>20, <1>21,
              <1>22, <1>23, <1>24, <1>25 DEF OtherSteps
<1>27. /\ Range(decQ) \subseteq libLock /\ renderLock \in [Surfaces -> Int]
      /\ \A s \in Surfaces : renderLock[s] <= renderLock[s]
    BY DEF Pools, LibraryIn
<1> QED  BY <1>26, <1>27, PoolsKept0

(* The walk of the used surfaces and the choice of the current ones.       *)
LEMMA TakeSurfacesKeepsPools ==
    ASSUME Control, Pools, TakeSurfaces
    PROVE  Pools' /\ ~ Overwrites
<1> DEFINE p1 == SyncFrameSurfaces(pool, Busy)
           v1 == SyncFrameSurfaces(vppPool, Busy)
<1>1. /\ PoolOf(pool, DecoderSurfaces) /\ PoolOf(vppPool, VppSurfaces)
      /\ Busy \cap (Available(pool) \cup Available(vppPool)) = {}
      /\ LibraryIn
    BY DEF Pools, PoolsIn, AvailableAreIdle
<1>2. Null \notin DecoderSurfaces /\ Null \notin VppSurfaces
    BY SurfaceSets DEF Control, StreamTypes
<1>3. /\ pool' = TakeFree(p1) /\ vppPool' = TakeFree(v1)
      /\ UNCHANGED <<opt, decVars, renderLock>>
    BY DEF TakeSurfaces, ctlVars
<1>4. /\ PoolOf(p1, DecoderSurfaces)
      /\ Available(p1) \subseteq Available(pool) \cup (DecoderSurfaces \ Busy)
  <2> HIDE DEF Busy
  <2> QED  BY <1>1, <1>2, SyncedPool
<1>5. /\ PoolOf(v1, VppSurfaces)
      /\ Available(v1) \subseteq Available(vppPool) \cup (VppSurfaces \ Busy)
  <2> HIDE DEF Busy
  <2> QED  BY <1>1, <1>2, SyncedPool
<1> HIDE DEF p1, v1
<1>6. PoolOf(pool', DecoderSurfaces) /\ Available(pool') \subseteq Available(p1)
    BY <1>2, <1>3, <1>4, TakenPool
<1>7. PoolOf(vppPool', VppSurfaces) /\ Available(vppPool') \subseteq Available(v1)
    BY <1>2, <1>3, <1>5, TakenPool
<1>8. VppSurfaces' = VppSurfaces /\ Busy' = Busy /\ LibraryIn' /\ VppIsUsed' = VppIsUsed
      /\ ~ Overwrites
    BY <1>1, <1>3
       DEF VppSurfaces, LastVpp, VppIsUsed, Busy, LibraryIn, DecoderTypes, NumFrames,
           decVars, Overwrites
<1>9. PoolsIn'
    BY <1>6, <1>7, <1>8 DEF PoolsIn, PoolOf
<1>10. AvailableAreIdle'
  <2>1. Available(pool)' = Available(pool') /\ Available(vppPool)' = Available(vppPool')
    BY DEF Available
  <2> HIDE DEF Busy, Available
  <2> QED  BY <1>1, <1>4, <1>5, <1>6, <1>7, <1>8, <2>1 DEF AvailableAreIdle
<1>11. HeldSurfaces'
  <2>1. CASE Stuck(pool', vppPool')
    BY <2>1 DEF TakeSurfaces, CallSync, HeldSurfaces, HasSurfaces
  <2>2. CASE ~ Stuck(pool', vppPool')
    <3>1. pool'.cur # Null /\ (VppIsUsed => vppPool'.cur # Null)
      BY <2>2 DEF Stuck
    <3> QED  BY <1>8, <3>1 DEF HeldSurfaces
  <2> QED  BY <2>1, <2>2
<1> QED  BY <1>8, <1>9, <1>10, <1>11 DEF Pools

(* A surface decoded into was current, and so idle.                        *)
LEMMA DecodeKeepsPools ==
    ASSUME Control, Pools, DecodeFrameAsync
    PROVE  Pools' /\ ~ Overwrites
<1> DEFINE q    == Append(decQ, pool.cur)
           cont == [content EXCEPT ![pool.cur] = consumed + 1]
           lock == libLock \cup {pool.cur}
<1>1. /\ PoolOf(pool, DecoderSurfaces) /\ PoolOf(vppPool, VppSurfaces) /\ LibraryIn
      /\ Busy \cap (Available(pool) \cup Available(vppPool)) = {}
      /\ decQ \in Seq(DecoderSurfaces) /\ libLock \subseteq DecoderSurfaces
      /\ content \in [Surfaces -> 0..NumFrames] /\ Range(decQ) \subseteq libLock
      /\ renderLock \in [Surfaces -> Int]
    BY DEF Pools, PoolsIn, LibraryIn, DecoderTypes, AvailableAreIdle
<1>2. /\ DecoderSurfaces \subseteq Surfaces /\ Null \notin Surfaces
      /\ Null \notin DecoderSurfaces /\ Null \notin VppSurfaces
    BY SurfaceSets DEF Control, StreamTypes
<1>3. pc = "decode" /\ pool.cur # Null /\ UNCHANGED opt
    BY DEF DecodeFrameAsync, Pools, HeldSurfaces, HasSurfaces, ctlVars
<1>4. /\ PoolOf(UseCurrent(pool), DecoderSurfaces)
      /\ Available(UseCurrent(pool)) \subseteq (Available(pool) \cup {Null}) \ {pool.cur}
      /\ pool.cur \in DecoderSurfaces
    BY <1>1, <1>2, <1>3, UsedPool
<1>5. pool.cur \notin Busy
    BY <1>1 DEF Available
<1>6. q \in Seq(DecoderSurfaces) /\ Range(q) = Range(decQ) \cup {pool.cur}
    BY <1>1, <1>4, AppendElements
<1>7. q # <<>>
    BY <1>1, AppendNonempty
<1>8. lock \in SUBSET DecoderSurfaces /\ Range(q) \subseteq lock
    BY <1>1, <1>4, <1>6
<1>9. /\ cont \in [Surfaces -> 0..NumFrames]
      /\ \A s \in Surfaces : s # pool.cur => cont[s] = content[s]
  <2>1. consumed + 1 \in 0..NumFrames
    BY ConfigurationFacts DEF Control, StreamTypes, DecodeFrameAsync
  <2> QED  BY <1>1, <1>2, <1>4, <2>1
<1>10. CASE EmitFrame(q, cont, lock)
  <2>1. lock \subseteq libLock \cup {pool.cur}
    OBVIOUS
  <2> HIDE DEF q, cont, lock
  <2>2. /\ PoolsIn' /\ LibraryIn' /\ AvailableAreIdle' /\ pc' \in {"top", "end"}
        /\ ~ VppIsUsed => content' = cont
        /\ VppIsUsed => vppPool.cur \notin Busy
                        /\ \A s \in Surfaces : s # vppPool.cur => content'[s] = cont[s]
    BY <1>3, <1>6, <1>7, <1>8, <1>9, <1>10, <2>1, EmitEffect
  <2>3. ~ Overwrites
    BY <1>5, <1>9, <2>2 DEF Overwrites
  <2>4. HeldSurfaces'
    BY <2>2 DEF HeldSurfaces, HasSurfaces
  <2> QED  BY <2>2, <2>3, <2>4 DEF Pools
<1>11. CASE /\ decQ' = q /\ content' = cont /\ libLock' = lock
            /\ pool' = UseCurrent(pool) /\ pc' = "top"
            /\ UNCHANGED <<vppPool, renderLock>>
  <2> HIDE DEF cont
  <2>1. VppSurfaces' = VppSurfaces /\ NumFrames' = NumFrames
    BY <1>3 DEF VppSurfaces, LastVpp, VppIsUsed, NumFrames
  <2>2. PoolsIn'
    BY <1>1, <1>4, <1>11, <2>1 DEF PoolsIn, PoolOf
  <2>3. LibraryIn'
    BY <1>1, <1>6, <1>8, <1>9, <1>11, <2>1 DEF LibraryIn, DecoderTypes
  <2>4. Busy' = Busy \cup {pool.cur}
    BY <1>11 DEF Busy
  <2>5. /\ Null \notin Busy /\ Available(vppPool) \subseteq VppSurfaces \cup {Null}
        /\ pool.cur \notin VppSurfaces
    <3>1. Null \notin Busy
      BY <1>1, <1>2 DEF Busy
    <3>2. DecoderSurfaces \cap VppSurfaces = {}
      BY SurfaceSets DEF Control, StreamTypes
    <3> QED  BY <1>1, <1>2, <1>4, <3>1, <3>2, AvailableIn
  <2>6. /\ Available(pool)' = Available(UseCurrent(pool))
        /\ Available(vppPool)' = Available(vppPool)
    BY <1>11 DEF Available
  <2>7. AvailableAreIdle'
    <3> HIDE DEF Busy, Available
    <3> QED  BY <1>1, <1>2, <1>3, <1>4, <2>4, <2>5, <2>6 DEF AvailableAreIdle
  <2>8. ~ Overwrites
    BY <1>5, <1>9, <1>11 DEF Overwrites
  <2>9. HeldSurfaces'
    BY <1>11 DEF HeldSurfaces, HasSurfaces
  <2> QED  BY <2>2, <2>3, <2>7, <2>8, <2>9 DEF Pools
<1> QED  BY <1>10, <1>11 DEF DecodeFrameAsync

LEMMA PullKeepsPools ==
    ASSUME Control, Pools, PullBuffered
    PROVE  Pools' /\ ~ Overwrites
<1>1. /\ decQ \in Seq(DecoderSurfaces) /\ libLock \in SUBSET DecoderSurfaces
      /\ content \in [Surfaces -> 0..NumFrames] /\ Range(decQ) \subseteq libLock
      /\ renderLock \in [Surfaces -> Int]
      /\ \A s \in Surfaces : renderLock[s] <= renderLock[s]
    BY DEF Pools, LibraryIn, DecoderTypes
<1>2. pc = "decode" /\ UNCHANGED opt
    BY DEF PullBuffered, ctlVars
<1>3. CASE decQ # <<>> /\ EmitFrame(decQ, content, libLock)
  <2>1. /\ PoolsIn' /\ LibraryIn' /\ AvailableAreIdle' /\ pc' \in {"top", "end"}
        /\ ~ VppIsUsed => content' = content
        /\ VppIsUsed => vppPool.cur \notin Busy
                        /\ \A s \in Surfaces : s # vppPool.cur => content'[s] = content[s]
    BY <1>1, <1>2, <1>3, EmitEffect
  <2>2. ~ Overwrites
    BY <2>1 DEF Overwrites
  <2>3. HeldSurfaces'
    BY <2>1 DEF HeldSurfaces, HasSurfaces
  <2> QED  BY <2>1, <2>2, <2>3 DEF Pools
<1>4. CASE CallSync("drain") /\ UNCHANGED <<decVars, poolVars, renderLock>>
  <2>1. UNCHANGED <<pool, vppPool, decQ, libLock, content, renderLock>> /\ ~ HasSurfaces'
    BY <1>4 DEF CallSync, HasSurfaces, decVars, poolVars
  <2> QED  BY <1>1, <1>2, <2>1, PoolsKept0
<1> QED  BY <1>3, <1>4 DEF PullBuffered

(* The current surface goes to the used ones unwritten.                    *)
LEMMA PutAside ==
    ASSUME Control, Pools, pool.cur # Null, pool' = UseCurrent(pool), pc' = "top",
           UNCHANGED <<opt, vppPool, decVars, renderLock>>
    PROVE  Pools' /\ ~ Overwrites
<1>1. PoolOf(pool, DecoderSurfaces) /\ PoolOf(vppPool, VppSurfaces)
      /\ Busy \cap (Available(pool) \cup Available(vppPool)) = {} /\ LibraryIn
    BY DEF Pools, PoolsIn, AvailableAreIdle
<1>2. /\ Null \notin Surfaces /\ Null \notin DecoderSurfaces
      /\ DecoderSurfaces \subseteq Surfaces
    BY SurfaceSets DEF Control, StreamTypes
<1>3. /\ PoolOf(UseCurrent(pool), DecoderSurfaces)
      /\ Available(UseCurrent(pool)) \subseteq (Available(pool) \cup {Null}) \ {pool.cur}
    BY <1>1, <1>2, UsedPool
<1>4. /\ VppSurfaces' = VppSurfaces /\ LibraryIn' /\ Busy' = Busy /\ ~ Overwrites
      /\ Null \notin Busy
    BY <1>1, <1>2 DEF VppSurfaces, LastVpp, VppIsUsed, LibraryIn, DecoderTypes, NumFrames,
                      decVars, Busy, Overwrites
<1>5. PoolsIn'
    BY <1>1, <1>3, <1>4 DEF PoolsIn, PoolOf
<1>6. AvailableAreIdle'
  <2>1. /\ Available(pool)' = Available(UseCurrent(pool))
        /\ Available(vppPool)' = Available(vppPool)
    BY DEF Available
  <2> HIDE DEF Busy, Available
  <2> QED  BY <1>1, <1>3, <1>4, <2>1 DEF AvailableAreIdle
<1>7. HeldSurfaces'
    BY DEF HeldSurfaces, HasSurfaces
<1> QED  BY <1>4, <1>5, <1>6, <1>7 DEF Pools

LEMMA BusyReturnsKeepsPools ==
    ASSUME Control, Pools, BusyReturns
    PROVE  Pools' /\ ~ Overwrites
<1>1. /\ Range(decQ) \subseteq libLock /\ renderLock \in [Surfaces -> Int]
      /\ \A s \in Surfaces : renderLock[s] <= renderLock[s]
    BY DEF Pools, LibraryIn
<1>2. /\ HasSurfaces /\ pool.cur # Null /\ UNCHANGED <<opt, vppPool, decVars, renderLock>>
    BY DEF BusyReturns, Pools, HeldSurfaces, HasSurfaces, ctlVars
<1>3. CASE pool' = UseCurrent(pool) /\ pc' = "top"
    BY <1>2, <1>3, PutAside
<1>4. CASE UNCHANGED pool
  <2>1. UNCHANGED <<pool, vppPool, decQ, libLock, content, renderLock, opt>>
    BY <1>2, <1>4 DEF decVars
  <2> QED  BY <1>1, <1>2, <2>1, PoolsKept0
<1> QED  BY <1>3, <1>4 DEF BusyReturns

(* New pools are all free, and nothing is locked.                          *)
LEMMA NewPools ==
    ASSUME opt \in Configurations
    PROVE  /\ PoolOf(AllocBuffers(1, NumDecoder), DecoderSurfaces)
           /\ PoolOf(AllocBuffers(NumDecoder + 1, LastVpp), VppSurfaces)
<1>1. NumDecoder \in Nat /\ LastVpp \in Nat /\ NumDecoder <= LastVpp
    BY SurfaceSets
<1> HIDE DEF LastVpp
<1>2. PoolOf(AllocBuffers(1, NumDecoder), 1..NumDecoder)
  <2>1. 1 \in Nat \ {0} /\ 1 <= NumDecoder + 1
    BY <1>1
  <2> QED  BY <1>1, <2>1, AllocatedPool
<1>3. PoolOf(AllocBuffers(NumDecoder + 1, LastVpp), (NumDecoder + 1)..LastVpp)
  <2>1. NumDecoder + 1 \in Nat \ {0} /\ NumDecoder + 1 <= LastVpp + 1
    BY <1>1
  <2> QED  BY <1>1, <2>1, AllocatedPool
<1> QED  BY <1>2, <1>3 DEF DecoderSurfaces, VppSurfaces

AllIdle ==
    /\ opt \in Configurations /\ pc \in {"start", "done"}
    /\ pool = AllocBuffers(1, NumDecoder)
    /\ vppPool = AllocBuffers(NumDecoder + 1, LastVpp)
    /\ decQ = <<>> /\ libLock = {} /\ content = [s \in Surfaces |-> 0]
    /\ renderLock = [s \in Surfaces |-> 0]

LEMMA NothingInUse == AllIdle => Pools
<1> SUFFICES ASSUME AllIdle PROVE Pools
    OBVIOUS
<1> USE DEF AllIdle
<1>1. PoolsIn
    BY NewPools DEF PoolsIn
<1>2. Busy = {}
    BY DEF Busy
<1>3. NumFrames \in Nat
    BY ConfigurationFacts
<1>4. decQ \in Seq(DecoderSurfaces) /\ Range(decQ) = {}
    BY DEF Range
<1>5. LibraryIn
    BY <1>3, <1>4 DEF LibraryIn, DecoderTypes
<1>6. AvailableAreIdle
    BY <1>2 DEF AvailableAreIdle
<1>7. HeldSurfaces
    BY DEF HeldSurfaces, HasSurfaces
<1> QED  BY <1>1, <1>5, <1>6, <1>7 DEF Pools

LEMMA PoolsInitially == Init => Pools
<1> SUFFICES ASSUME Init PROVE Pools
    OBVIOUS
<1>1. /\ opt \in Configurations /\ pc = "start" /\ decQ = <<>> /\ libLock = {}
      /\ content = [s \in Surfaces |-> 0] /\ renderLock = [s \in Surfaces |-> 0]
      /\ pool = AllocBuffers(1, NumDecoder)
      /\ vppPool = AllocBuffers(NumDecoder + 1, LastVpp)
    BY Zenon DEF Init
<1> QED  BY <1>1, NothingInUse DEF AllIdle

LEMMA PoolsStep == Control /\ Pools /\ [Next]_vars => Pools' /\ ~ Overwrites
<1> SUFFICES ASSUME Control, Pools, [Next]_vars PROVE Pools' /\ ~ Overwrites
    OBVIOUS
<1>1. CASE OtherSteps
    BY <1>1, OtherStepsKeepPools
<1>2. CASE TakeSurfaces
    BY <1>2, TakeSurfacesKeepsPools
<1>3. CASE DecodeFrameAsync
    BY <1>3, DecodeKeepsPools
<1>4. CASE NeedsMoreData
    BY <1>4, PutAside DEF NeedsMoreData, Pools, HeldSurfaces, HasSurfaces, ctlVars
<1>5. CASE PullBuffered
    BY <1>5, PullKeepsPools
<1>6. CASE SyncAndDeliver
  <2>1. PICK out : ReturnSurfaceToBuffers(out)
    BY <1>6 DEF SyncAndDeliver
  <2>2. /\ renderLock' \in [Surfaces -> Int]
        /\ \A s \in Surfaces : renderLock'[s] <= renderLock[s]
        /\ Range(decQ) \subseteq libLock
    BY <2>1, ReturnedSurface DEF Pools, LibraryIn
  <2>3. UNCHANGED <<pool, vppPool, opt, decQ, content, libLock>>
        /\ (HasSurfaces' => HasSurfaces)
    BY <1>6 DEF SyncAndDeliver, HasSurfaces, ctlVars, poolVars, decVars
  <2> QED  BY <2>2, <2>3, PoolsKept0
<1>7. CASE BusyReturns
    BY <1>7, BusyReturnsKeepsPools
<1>8. CASE ResetDecoder
  <2>1. /\ opt' \in Configurations /\ pc' \in {"start", "done"} /\ decQ' = <<>> /\ libLock' = {}
        /\ content' = [s \in Surfaces |-> 0]
    BY <1>8 DEF ResetDecoder, Control, StreamTypes
  <2>2. renderLock' = [s \in Surfaces |-> 0] /\ pool' = AllocBuffers(1, NumDecoder)
        /\ vppPool' = AllocBuffers(NumDecoder + 1, LastVpp)
    BY <1>8 DEF ResetDecoder, AllocFrames
  <2>3. LastVpp' = LastVpp
    BY <1>8 DEF ResetDecoder, LastVpp, VppIsUsed
  <2>4. AllIdle'
    BY <2>1, <2>2, <2>3 DEF AllIdle
  <2>6. Pools'
    BY <2>4, NothingInUse, PTL
  <2>5. ~ Overwrites
    BY <2>1 DEF Overwrites
  <2> QED  BY <2>6, <2>5
<1>9. CASE DeliverReturn
  <2>1. PICK out : ReturnSurfaceToBuffers(out)
    BY <1>9 DEF DeliverReturn
  <2>2. /\ renderLock' \in [Surfaces -> Int]
        /\ \A s \in Surfaces : renderLock'[s] <= renderLock[s]
        /\ Range(decQ) \subseteq libLock
    BY <2>1, ReturnedSurface DEF Pools, LibraryIn
  <2>3. UNCHANGED <<pool, vppPool, opt, decQ, content, libLock>>
        /\ (HasSurfaces' => HasSurfaces)
    BY <1>9 DEF DeliverReturn, HasSurfaces, ctlVars, poolVars, decVars
  <2> QED  BY <2>2, <2>3, PoolsKept0
<1>10. CASE \E s \in Surfaces : LibraryUnlocks(s)
  <2>1. PICK s \in Surfaces : LibraryUnlocks(s)
    BY <1>10
  <2>2. /\ renderLock \in [Surfaces -> Int] /\ Range(decQ) \subseteq libLock
        /\ ToSet(decQ) = Range(decQ)
        /\ \A t \in Surfaces : renderLock[t] <= renderLock[t]
    BY InjectiveIsOnce DEF Pools, LibraryIn, DecoderTypes
  <2>3. /\ UNCHANGED <<pool, vppPool, opt, decQ, content, renderLock>>
        /\ libLock' = libLock \ {s} /\ s \notin ToSet(decQ)
        /\ (HasSurfaces' => HasSurfaces)
    BY <2>1 DEF LibraryUnlocks, HasSurfaces, ctlVars, poolVars
  <2>4. libLock' \subseteq libLock /\ Range(decQ) \subseteq libLock'
    BY <2>2, <2>3
  <2> QED  BY <2>2, <2>3, <2>4, PoolsKept0
<1>11. CASE Done
    BY <1>1, <1>11 DEF Done, OtherSteps
<1>12. CASE UNCHANGED vars
    BY <1>1, <1>12 DEF OtherSteps
<1> QED  BY <1>1, <1>2, <1>3, <1>4, <1>5, <1>6, <1>7, <1>8, <1>9, <1>10, <1>11, <1>12
         DEF Next, MainThread, DeliverLoop, OtherSteps

THEOREM PoolsHold == Spec => [](Control /\ Pools)
<1>1. Init => Control /\ Pools
    BY ControlInitially, PoolsInitially
<1>2. (Control /\ Pools) /\ [Next]_vars => (Control /\ Pools)'
    BY ControlStep, PoolsStep
<1> QED  BY <1>1, <1>2, PTL DEF Spec

(* The surface pools never lose a surface and never hold one twice, for    *)
(* any number of surfaces.                                                 *)
THEOREM PoolsPartitioned == Spec => []SurfacesPartitioned
<1>1. Pools => SurfacesPartitioned
    BY DEF Pools, PoolsIn, PoolOf, SurfacesPartitioned
<1> QED  BY <1>1, PoolsHold, PTL

(* DecodeFrameAsync and VPP never write into a surface that waits for      *)
(* delivery or that the library has locked: what they write was available, *)
(* and the available surfaces are idle.                                    *)
THEOREM NothingOverwritten == Spec => NoOverwrite
<1> DEFINE A == \A s \in Surfaces : content'[s] \notin {content[s], 0} => s \notin Busy
<1>1. Control /\ Pools /\ [Next]_vars => [A]_vars
    BY PoolsStep DEF Overwrites
<1>2. Spec => [][A]_vars
  <2> HIDE DEF A
  <2> QED  BY <1>1, PoolsHold, PTL DEF Spec
<1> QED  BY <1>2 DEF NoOverwrite

----------------------------------------------------------------------------
(* The queues between the two threads, and the delivery thread.            *)

(* What a decoding step does to the output queue: it queues one surface,   *)
(* or it leaves the queue and the locks alone.                             *)
LEMMA EmitOutput ==
    ASSUME Control, Pools, pc = "decode",
           NEW q \in Seq(DecoderSurfaces), q # <<>>, NEW lock, NEW cont,
           EmitFrame(q, cont, lock)
    PROVE  \/ pc' = "top" /\ sts' = "none" /\ \E s \in Surfaces : QueueOutput(s)
           \/ pc' = "end" /\ sts' = "failed" /\ UNCHANGED <<renderLock, outPool, outCount>>
<1>1. /\ DecoderSurfaces \subseteq Surfaces /\ VppSurfaces \subseteq Surfaces
      /\ Null \notin VppSurfaces
    BY SurfaceSets DEF Control, StreamTypes
<1>2. Head(q) \in Surfaces
    BY <1>1, TailElements
<1>3. CASE ~ VppIsUsed
    BY <1>2, <1>3 DEF EmitFrame
<1>4. CASE VppIsUsed
  <2>1. vppPool.cur # Null /\ PoolOf(vppPool, VppSurfaces)
    BY <1>4 DEF Pools, PoolsIn, HeldSurfaces, HasSurfaces
  <2>2. vppPool.cur \in Surfaces
    BY <1>1, <2>1, AvailableIn
  <2> QED  BY <1>4, <2>2 DEF EmitFrame
<1> QED  BY <1>3, <1>4

LEMMA DecodeOutputs ==
    ASSUME Control, Pools, DecodeFrameAsync \/ PullBuffered
    PROVE  \/ pc' = "top" /\ sts' = "none" /\ \E s \in Surfaces : QueueOutput(s)
           \/ /\ \/ pc' = "end" /\ sts' = "failed"
                 \/ pc' = "top" /\ sts' \in {"more_surface", "more_data"}
                 \/ pc' = "sync" /\ caller' = "drain" /\ sts' = sts
              /\ UNCHANGED <<renderLock, outPool, outCount>>
<1>1. decQ \in Seq(DecoderSurfaces)
    BY DEF Pools, LibraryIn, DecoderTypes
<1>2. CASE DecodeFrameAsync
  <2>1. pc = "decode" /\ pool.cur # Null /\ PoolOf(pool, DecoderSurfaces)
    BY <1>2 DEF DecodeFrameAsync, Pools, PoolsIn, HeldSurfaces, HasSurfaces
  <2>2. pool.cur \in DecoderSurfaces
    BY <2>1, AvailableIn, SurfaceSets DEF Control, StreamTypes
  <2>3. Append(decQ, pool.cur) \in Seq(DecoderSurfaces) /\ Append(decQ, pool.cur) # <<>>
    BY <1>1, <2>2, AppendElements, AppendNonempty
  <2>4. ASSUME NEW cont, NEW lock, EmitFrame(Append(decQ, pool.cur), cont, lock)
        PROVE  \/ pc' = "top" /\ sts' = "none" /\ \E s \in Surfaces : QueueOutput(s)
               \/ /\ pc' = "end" /\ sts' = "failed"
                  /\ UNCHANGED <<renderLock, outPool, outCount>>
    BY <2>1, <2>3, <2>4, EmitOutput
  <2> QED  BY <1>2, <2>4 DEF DecodeFrameAsync
<1>3. CASE PullBuffered
  <2>1. CASE decQ # <<>> /\ EmitFrame(decQ, content, libLock)
    BY <1>1, <1>3, <2>1, EmitOutput DEF PullBuffered
  <2>2. CASE CallSync("drain") /\ UNCHANGED <<sts, renderLock, outPool, outCount>>
    BY <2>2 DEF CallSync
  <2> QED  BY <1>3, <2>1, <2>2 DEF PullBuffered
<1> QED  BY <1>2, <1>3

(* The surface that SyncOutputSurface takes.                               *)
LEMMA OldestOutput ==
    ASSUME OutputTypes, curOut # NoOutput \/ outPool # <<>>, TakeOldest
    PROVE  Oldest \in Output /\ outPool' \in Seq(Output)
<1>1. CASE curOut # NoOutput
    BY <1>1 DEF OutputTypes, Outputs, Oldest, TakeOldest
<1>2. CASE curOut = NoOutput
  <2>1. outPool # <<>> /\ outPool \in Seq(Output)
    BY <1>2 DEF OutputTypes
  <2>2. Head(outPool) \in Output /\ Tail(outPool) \in Seq(Output)
    BY <2>1, TailElements
  <2> QED  BY <1>2, <2>2 DEF Oldest, TakeOldest
<1> QED  BY <1>1, <1>2

LEMMA QueuedOutput ==
    ASSUME Control, OutputTypes, NEW s \in Surfaces, QueueOutput(s)
    PROVE  /\ [surf |-> s, alloc |-> alloc] \in Output
           /\ outPool' \in Seq(Output)
<1>1. [surf |-> s, alloc |-> alloc] \in Output
    BY DEF Output, Control, ThreadTypes
<1> QED  BY <1>1, AppendElements DEF OutputTypes, QueueOutput

(* The steps that leave the queues alone.                                  *)
QueuesKept == UNCHANGED <<outPool, curOut, delivPool, dcur, delivered, opt>>

LEMMA QueuesKeptTypes == OutputTypes /\ QueuesKept => OutputTypes'
    BY DEF OutputTypes, QueuesKept, NumFrames

DeliveryThread ==
    /\ ~ Rendering => dpc = "none" /\ delivPool = <<>> /\ stop = FALSE
    /\ pc \in {"start", "app", "done"} => dpc = "none"
    /\ pc = "start" => delivPool = <<>>
    /\ Rendering /\ (alloc > 1 \/ pc \in {"join", "app"}) => stop
    /\ alloc > 1 => dpc \in {"none", "test", "ended"}
    /\ dcur # NoOutput <=> dpc \in {"deliver", "return"}
    /\ error # "null_ptr"

\* one post of the semaphore for every surface in the list, but for the one
\* being taken and the one about to be posted
PostsMatchQueue ==
    /\ Rendering /\ stop = FALSE /\ error = "none" =>
           Len(delivPool) = sem + (IF dpc = "take" THEN 1 ELSE 0)
                                + (IF pc \in {"reset", "post"} THEN 1 ELSE 0)
    /\ dpc = "take" => error = "none" /\ delivPool # <<>>

Delivery ==
    OutputTypes /\ DeliveryThread /\ PostsMatchQueue /\ CountersMeasureDelivery

LEMMA OutputTypesStep ==
    ASSUME Control, Pools, Delivery, [Next]_vars
    PROVE  OutputTypes'
<1> USE DEF ctlVars, loopVars, inVars, decVars, poolVars, outVars, delivVars, thrVars,
            cntVars
<1>0. /\ OutputTypes /\ NumFrames' = NumFrames
      /\ (dcur # NoOutput <=> dpc \in {"deliver", "return"})
      /\ opt' = opt
  <2>1. opt' = opt
    BY DEF Next, MainThread, DeliverLoop, Done, vars, StartRun, LeaveLoop, ReadNextFrame,
           TakeSurfaces, DecodeFrameAsync, NeedsMoreData, PullBuffered, DecodeTrouble,
           SyncNothing, SyncFails, SyncForDelivery, ResetEvent, PostDelivered,
           SyncAndDeliver, StuckReturns, CompareCounts, TimedWait, BusyReturns,
           DrainReturns, Drained, WaitDelivered, EndRun, JoinDelivery, Exit, ResetDecoder,
           DeliverTest, DeliverWait, DeliverTake, DeliverOutput, DeliverReturn,
           DeliverCount, DeliverSignal, LibraryUnlocks
  <2> QED  BY <2>1 DEF Delivery, DeliveryThread, NumFrames
<1>1. CASE QueuesKept
    BY <1>0, <1>1, QueuesKeptTypes
<1>2. CASE DecodeFrameAsync \/ PullBuffered
  <2>1. UNCHANGED <<curOut, delivPool, dcur, delivered>>
    BY <1>2 DEF DecodeFrameAsync, PullBuffered
  <2>2. outPool' \in Seq(Output)
    BY <1>0, <1>2, DecodeOutputs, QueuedOutput DEF OutputTypes
  <2> QED  BY <1>0, <2>1, <2>2 DEF OutputTypes
<1>3. CASE SyncFails
  <2>1. /\ curOut' = Oldest /\ Oldest \in Output /\ outPool' \in Seq(Output)
        /\ UNCHANGED <<delivPool, dcur, delivered>>
    BY <1>0, <1>3, OldestOutput DEF SyncFails
  <2> QED  BY <1>0, <2>1 DEF OutputTypes, Outputs
<1>4. CASE SyncForDelivery
  <2>1. /\ curOut' = NoOutput /\ Oldest \in Output /\ outPool' \in Seq(Output)
        /\ delivPool' = Append(delivPool, Oldest) /\ UNCHANGED <<dcur, delivered>>
    BY <1>0, <1>4, OldestOutput DEF SyncForDelivery
  <2>2. delivPool' \in Seq(Output)
    BY <1>0, <2>1, AppendElements DEF OutputTypes
  <2> QED  BY <1>0, <2>1, <2>2 DEF OutputTypes, Outputs
<1>5. CASE SyncAndDeliver
  <2>1. /\ curOut' = NoOutput /\ Oldest \in Output /\ outPool' \in Seq(Output)
        /\ UNCHANGED <<delivPool, dcur>>
        /\ \/ delivered' = Append(delivered, content[Oldest.surf])
           \/ UNCHANGED delivered
    BY <1>0, <1>5, OldestOutput DEF SyncAndDeliver
  <2>2. Oldest.surf \in Surfaces /\ content \in [Surfaces -> 0..NumFrames]
    BY <2>1 DEF Output, Pools, LibraryIn, DecoderTypes
  <2>3. content[Oldest.surf] \in 0..NumFrames
    BY <2>2
  <2>4. delivered' \in Seq(0..NumFrames)
    <3>1. delivered \in Seq(0..NumFrames)
      BY <1>0 DEF OutputTypes
    <3>2. Append(delivered, content[Oldest.surf]) \in Seq(0..NumFrames)
      BY Zenon, <2>3, <3>1, AppendElements
    <3> QED  BY <1>0, <2>1, <3>1, <3>2
  <2> QED  BY <1>0, <2>1, <2>4 DEF OutputTypes, Outputs
<1>6. CASE DeliverTake
  <2>1. CASE delivPool = <<>>
    BY <1>0, <1>6, <2>1, QueuesKeptTypes DEF DeliverTake, QueuesKept
  <2>2. CASE delivPool # <<>>
    <3>1. /\ dcur' = Head(delivPool) /\ delivPool' = Tail(delivPool)
          /\ UNCHANGED <<outPool, curOut, delivered>>
      BY <1>6, <2>2 DEF DeliverTake
    <3>2. Head(delivPool) \in Output /\ Tail(delivPool) \in Seq(Output)
      BY <1>0, <2>2, TailElements DEF OutputTypes
    <3> QED  BY <1>0, <3>1, <3>2 DEF OutputTypes, Outputs
  <2> QED  BY <2>1, <2>2
<1>7. CASE DeliverOutput
  <2>1. dcur \in Output
    BY <1>0, <1>7 DEF DeliverOutput, OutputTypes, Outputs
  <2>2. dcur.surf \in Surfaces /\ content \in [Surfaces -> 0..NumFrames]
    BY <2>1 DEF Output, Pools, LibraryIn, DecoderTypes
  <2>3. content[dcur.surf] \in 0..NumFrames
    BY <2>2
  <2>4. /\ delivered' = Append(delivered, content[dcur.surf]) \/ UNCHANGED delivered
        /\ UNCHANGED <<outPool, curOut, delivPool, dcur>>
    BY <1>7 DEF DeliverOutput
  <2>5. delivered' \in Seq(0..NumFrames)
    <3>1. delivered \in Seq(0..NumFrames)
      BY <1>0 DEF OutputTypes
    <3>2. Append(delivered, content[dcur.surf]) \in Seq(0..NumFrames)
      BY Zenon, <2>3, <3>1, AppendElements
    <3> QED  BY <1>0, <2>4, <3>1, <3>2
  <2> QED  BY <1>0, <2>4, <2>5 DEF OutputTypes
<1>8. CASE DeliverReturn
    BY <1>0, <1>8 DEF DeliverReturn, OutputTypes, Outputs
<1>9. CASE ResetDecoder
  <2>1. /\ outPool' = <<>> /\ delivPool' = <<>> /\ UNCHANGED <<curOut, dcur, delivered>>
    BY <1>9 DEF ResetDecoder
  <2>2. outPool' \in Seq(Output) /\ delivPool' \in Seq(Output)
    BY <2>1
  <2> QED  BY <1>0, <2>1, <2>2 DEF OutputTypes

<1>10. ASSUME StartRun PROVE QueuesKept
    BY <1>10 DEF StartRun, QueuesKept
<1>11. ASSUME LeaveLoop PROVE QueuesKept
    BY <1>11 DEF LeaveLoop, QueuesKept
<1>12. ASSUME ReadNextFrame PROVE QueuesKept
    BY <1>12 DEF ReadNextFrame, QueuesKept
<1>13. ASSUME TakeSurfaces PROVE QueuesKept
    BY <1>13 DEF TakeSurfaces, QueuesKept
<1>14. ASSUME NeedsMoreData PROVE QueuesKept
    BY <1>14 DEF NeedsMoreData, QueuesKept
<1>15. ASSUME DecodeTrouble PROVE QueuesKept
    BY <1>15 DEF DecodeTrouble, QueuesKept
<1>16. ASSUME SyncNothing PROVE QueuesKept
    BY <1>16 DEF SyncNothing, QueuesKept
<1>17. ASSUME ResetEvent PROVE QueuesKept
    BY <1>17 DEF ResetEvent, QueuesKept
<1>18. ASSUME PostDelivered PROVE QueuesKept
    BY <1>18 DEF PostDelivered, QueuesKept
<1>19. ASSUME StuckReturns PROVE QueuesKept
    BY <1>19 DEF StuckReturns, QueuesKept
<1>20. ASSUME CompareCounts PROVE QueuesKept
    BY <1>20 DEF CompareCounts, QueuesKept
<1>21. ASSUME TimedWait PROVE QueuesKept
    BY <1>21 DEF TimedWait, QueuesKept
<1>22. ASSUME BusyReturns PROVE QueuesKept
    BY <1>22 DEF BusyReturns, QueuesKept
<1>23. ASSUME DrainReturns PROVE QueuesKept
    BY <1>23 DEF DrainReturns, QueuesKept
<1>24. ASSUME Drained PROVE QueuesKept
    BY <1>24 DEF Drained, QueuesKept
<1>25. ASSUME WaitDelivered PROVE QueuesKept
    BY <1>25 DEF WaitDelivered, QueuesKept
<1>26. ASSUME EndRun PROVE QueuesKept
    BY <1>26 DEF EndRun, QueuesKept
<1>27. ASSUME JoinDelivery PROVE QueuesKept
    BY <1>27 DEF JoinDelivery, QueuesKept
<1>28. ASSUME Exit PROVE QueuesKept
    BY <1>28 DEF Exit, QueuesKept
<1>29. ASSUME DeliverTest PROVE QueuesKept
    BY <1>29 DEF DeliverTest, QueuesKept
<1>30. ASSUME DeliverWait PROVE QueuesKept
    BY <1>30 DEF DeliverWait, QueuesKept
<1>31. ASSUME DeliverCount PROVE QueuesKept
    BY <1>31 DEF DeliverCount, QueuesKept
<1>32. ASSUME DeliverSignal PROVE QueuesKept
    BY <1>32 DEF DeliverSignal, QueuesKept
<1>33. ASSUME NEW s \in Surfaces, LibraryUnlocks(s) PROVE QueuesKept
    BY <1>33 DEF LibraryUnlocks, QueuesKept
<1>34. ASSUME UNCHANGED vars PROVE QueuesKept
    BY <1>34 DEF vars, QueuesKept
<1> QED
  <2> HIDE DEF QueuesKept
  <2> QED  BY <1>1, <1>2, <1>3, <1>4, <1>5, <1>6, <1>7, <1>8, <1>9, <1>10, <1>11,
              <1>12, <1>13, <1>14, <1>15, <1>16, <1>17, <1>18, <1>19, <1>20, <1>21,
              <1>22, <1>23, <1>24, <1>25, <1>26, <1>27, <1>28, <1>29, <1>30, <1>31,
              <1>32, <1>33, <1>34
           DEF Next, MainThread, DeliverLoop, Done

LEMMA OutputIsNotNone == NoOutput \notin Output
<1>1. Null \notin Surfaces
    BY DEF Null, Surfaces
<1> QED  BY <1>1 DEF NoOutput, Output

(* Every step keeps the delivery thread in step with its queue.            *)
LEMMA DeliveryThreadStep ==
    ASSUME Control, Pools, Delivery, [Next]_vars
    PROVE  DeliveryThread' /\ PostsMatchQueue' /\ CountersMeasureDelivery'
<1> DEFINE Goal == DeliveryThread' /\ PostsMatchQueue' /\ CountersMeasureDelivery'
<1> USE DEF ctlVars, loopVars, inVars, decVars, poolVars, outVars, delivVars, thrVars,
            cntVars, Rendering
<1>1. /\ DeliveryThread /\ PostsMatchQueue /\ CountersMeasureDelivery
      /\ alloc \in Nat /\ alloc # 0 /\ sem \in Nat /\ synced \in Nat /\ output \in Nat
      /\ stop \in BOOLEAN
      /\ delivPool \in Seq(Output) /\ Len(delivPool) \in Nat
      /\ (delivPool = <<>> => Len(delivPool) = 0)
    BY LenProperties, EmptySeq DEF Delivery, OutputTypes, Control, ThreadTypes

<1>2. ASSUME StartRun PROVE Goal
  <2>1. DeliveryThread'
    BY <1>2, <1>1 DEF StartRun, DeliveryThread
  <2>2. PostsMatchQueue'
    BY <1>2, <1>1 DEF StartRun, DeliveryThread, PostsMatchQueue
  <2>3. CountersMeasureDelivery'
    BY <1>2, <1>1 DEF StartRun, DeliveryThread, CountersMeasureDelivery
  <2> QED  BY <2>1, <2>2, <2>3
<1>3. ASSUME LeaveLoop PROVE Goal
  <2>1. DeliveryThread'
    BY <1>3, <1>1 DEF LeaveLoop, DeliveryThread
  <2>2. PostsMatchQueue'
    BY <1>3, <1>1 DEF LeaveLoop, DeliveryThread, PostsMatchQueue
  <2>3. CountersMeasureDelivery'
    BY <1>3, <1>1 DEF LeaveLoop, DeliveryThread, CountersMeasureDelivery
  <2> QED  BY <2>1, <2>2, <2>3
<1>4. ASSUME ReadNextFrame PROVE Goal
  <2>1. DeliveryThread'
    BY <1>4, <1>1 DEF ReadNextFrame, DeliveryThread
  <2>2. PostsMatchQueue'
    BY <1>4, <1>1 DEF ReadNextFrame, DeliveryThread, PostsMatchQueue
  <2>3. CountersMeasureDelivery'
    BY <1>4, <1>1 DEF ReadNextFrame, DeliveryThread, CountersMeasureDelivery
  <2> QED  BY <2>1, <2>2, <2>3
<1>5. ASSUME TakeSurfaces PROVE Goal
  <2>1. DeliveryThread'
    BY <1>5, <1>1 DEF TakeSurfaces, CallSync, DeliveryThread
  <2>2. PostsMatchQueue'
    BY <1>5, <1>1 DEF TakeSurfaces, CallSync, DeliveryThread, PostsMatchQueue
  <2>3. CountersMeasureDelivery'
    BY <1>5, <1>1 DEF TakeSurfaces, CallSync, DeliveryThread, CountersMeasureDelivery
  <2> QED  BY <2>1, <2>2, <2>3
<1>6. ASSUME DecodeFrameAsync PROVE Goal
  <2>1. DeliveryThread'
    BY <1>6, <1>1 DEF DecodeFrameAsync, EmitFrame, DeliveryThread
  <2>2. PostsMatchQueue'
    BY <1>6, <1>1 DEF DecodeFrameAsync, EmitFrame, DeliveryThread, PostsMatchQueue
  <2>3. CountersMeasureDelivery'
    BY <1>6, <1>1 DEF DecodeFrameAsync, EmitFrame, DeliveryThread, CountersMeasureDelivery
  <2> QED  BY <2>1, <2>2, <2>3
<1>7. ASSUME NeedsMoreData PROVE Goal
  <2>1. DeliveryThread'
    BY <1>7, <1>1 DEF NeedsMoreData, DeliveryThread
  <2>2. PostsMatchQueue'
    BY <1>7, <1>1 DEF NeedsMoreData, DeliveryThread, PostsMatchQueue
  <2>3. CountersMeasureDelivery'
    BY <1>7, <1>1 DEF NeedsMoreData, DeliveryThread, CountersMeasureDelivery
  <2> QED  BY <2>1, <2>2, <2>3
<1>8. ASSUME PullBuffered PROVE Goal
  <2>1. DeliveryThread'
    BY <1>8, <1>1 DEF PullBuffered, EmitFrame, CallSync, DeliveryThread
  <2>2. PostsMatchQueue'
    BY <1>8, <1>1 DEF PullBuffered, EmitFrame, CallSync, DeliveryThread, PostsMatchQueue
  <2>3. CountersMeasureDelivery'
    BY <1>8, <1>1 DEF PullBuffered, EmitFrame, CallSync, DeliveryThread, CountersMeasureDelivery
  <2> QED  BY <2>1, <2>2, <2>3
<1>9. ASSUME DecodeTrouble PROVE Goal
  <2>1. DeliveryThread'
    BY <1>9, <1>1 DEF DecodeTrouble, CallSync, DeliveryThread
  <2>2. PostsMatchQueue'
    BY <1>9, <1>1 DEF DecodeTrouble, CallSync, DeliveryThread, PostsMatchQueue
  <2>3. CountersMeasureDelivery'
    BY <1>9, <1>1 DEF DecodeTrouble, CallSync, DeliveryThread, CountersMeasureDelivery
  <2> QED  BY <2>1, <2>2, <2>3
<1>10. ASSUME SyncNothing PROVE Goal
  <2>1. DeliveryThread'
    BY <1>10, <1>1 DEF SyncNothing, DeliveryThread
  <2>2. PostsMatchQueue'
    BY <1>10, <1>1 DEF SyncNothing, DeliveryThread, PostsMatchQueue
  <2>3. CountersMeasureDelivery'
    BY <1>10, <1>1 DEF SyncNothing, DeliveryThread, CountersMeasureDelivery
  <2> QED  BY <2>1, <2>2, <2>3
<1>11. ASSUME SyncFails PROVE Goal
  <2>1. DeliveryThread'
    BY <1>11, <1>1 DEF SyncFails, DeliveryThread
  <2>2. PostsMatchQueue'
    BY <1>11, <1>1 DEF SyncFails, DeliveryThread, PostsMatchQueue
  <2>3. CountersMeasureDelivery'
    BY <1>11, <1>1 DEF SyncFails, DeliveryThread, CountersMeasureDelivery
  <2> QED  BY <2>1, <2>2, <2>3
<1>12. ASSUME SyncForDelivery PROVE Goal
  <2>1. DeliveryThread'
    BY <1>12, <1>1 DEF SyncForDelivery, DeliveryThread
  <2>2. PostsMatchQueue'
    BY <1>12, <1>1 DEF SyncForDelivery, DeliveryThread, PostsMatchQueue
  <2>3. CountersMeasureDelivery'
    BY <1>12, <1>1 DEF SyncForDelivery, DeliveryThread, CountersMeasureDelivery
  <2> QED  BY <2>1, <2>2, <2>3
<1>13. ASSUME ResetEvent PROVE Goal
  <2>1. DeliveryThread'
    BY <1>13, <1>1 DEF ResetEvent, DeliveryThread
  <2>2. PostsMatchQueue'
    BY <1>13, <1>1 DEF ResetEvent, DeliveryThread, PostsMatchQueue
  <2>3. CountersMeasureDelivery'
    BY <1>13, <1>1 DEF ResetEvent, DeliveryThread, CountersMeasureDelivery
  <2> QED  BY <2>1, <2>2, <2>3
<1>14. ASSUME PostDelivered PROVE Goal
  <2>1. DeliveryThread'
    BY <1>14, <1>1 DEF PostDelivered, DeliveryThread
  <2>2. PostsMatchQueue'
    BY <1>14, <1>1 DEF PostDelivered, DeliveryThread, PostsMatchQueue
  <2>3. CountersMeasureDelivery'
    BY <1>14, <1>1 DEF PostDelivered, DeliveryThread, CountersMeasureDelivery
  <2> QED  BY <2>1, <2>2, <2>3
<1>15. ASSUME SyncAndDeliver PROVE Goal
  <2>1. DeliveryThread'
    BY <1>15, <1>1 DEF SyncAndDeliver, DeliveryThread
  <2>2. PostsMatchQueue'
    BY <1>15, <1>1 DEF SyncAndDeliver, DeliveryThread, PostsMatchQueue
  <2>3. CountersMeasureDelivery'
    BY <1>15, <1>1 DEF SyncAndDeliver, DeliveryThread, CountersMeasureDelivery
  <2> QED  BY <2>1, <2>2, <2>3
<1>16. ASSUME StuckReturns PROVE Goal
  <2>1. DeliveryThread'
    BY <1>16, <1>1 DEF StuckReturns, DeliveryThread
  <2>2. PostsMatchQueue'
    BY <1>16, <1>1 DEF StuckReturns, DeliveryThread, PostsMatchQueue
  <2>3. CountersMeasureDelivery'
    BY <1>16, <1>1 DEF StuckReturns, DeliveryThread, CountersMeasureDelivery
  <2> QED  BY <2>1, <2>2, <2>3
<1>17. ASSUME CompareCounts PROVE Goal
  <2>1. DeliveryThread'
    BY <1>17, <1>1 DEF CompareCounts, DeliveryThread
  <2>2. PostsMatchQueue'
    BY <1>17, <1>1 DEF CompareCounts, DeliveryThread, PostsMatchQueue
  <2>3. CountersMeasureDelivery'
    BY <1>17, <1>1 DEF CompareCounts, DeliveryThread, CountersMeasureDelivery
  <2> QED  BY <2>1, <2>2, <2>3
<1>18. ASSUME TimedWait PROVE Goal
  <2>1. DeliveryThread'
    BY <1>18, <1>1 DEF TimedWait, DeliveryThread
  <2>2. PostsMatchQueue'
    BY <1>18, <1>1 DEF TimedWait, DeliveryThread, PostsMatchQueue
  <2>3. CountersMeasureDelivery'
    BY <1>18, <1>1 DEF TimedWait, DeliveryThread, CountersMeasureDelivery
  <2> QED  BY <2>1, <2>2, <2>3
<1>19. ASSUME BusyReturns PROVE Goal
  <2>1. DeliveryThread'
    BY <1>19, <1>1 DEF BusyReturns, DeliveryThread
  <2>2. PostsMatchQueue'
    BY <1>19, <1>1 DEF BusyReturns, DeliveryThread, PostsMatchQueue
  <2>3. CountersMeasureDelivery'
    BY <1>19, <1>1 DEF BusyReturns, DeliveryThread, CountersMeasureDelivery
  <2> QED  BY <2>1, <2>2, <2>3
<1>20. ASSUME DrainReturns PROVE Goal
  <2>1. DeliveryThread'
    BY <1>20, <1>1 DEF DrainReturns, DeliveryThread
  <2>2. PostsMatchQueue'
    BY <1>20, <1>1 DEF DrainReturns, DeliveryThread, PostsMatchQueue
  <2>3. CountersMeasureDelivery'
    BY <1>20, <1>1 DEF DrainReturns, DeliveryThread, CountersMeasureDelivery
  <2> QED  BY <2>1, <2>2, <2>3
<1>21. ASSUME Drained PROVE Goal
  <2>1. DeliveryThread'
    BY <1>21, <1>1 DEF Drained, DeliveryThread
  <2>2. PostsMatchQueue'
    BY <1>21, <1>1 DEF Drained, DeliveryThread, PostsMatchQueue
  <2>3. CountersMeasureDelivery'
    BY <1>21, <1>1 DEF Drained, DeliveryThread, CountersMeasureDelivery
  <2> QED  BY <2>1, <2>2, <2>3
<1>22. ASSUME WaitDelivered PROVE Goal
  <2>1. DeliveryThread'
    BY <1>22, <1>1 DEF WaitDelivered, DeliveryThread
  <2>2. PostsMatchQueue'
    BY <1>22, <1>1 DEF WaitDelivered, DeliveryThread, PostsMatchQueue
  <2>3. CountersMeasureDelivery'
    BY <1>22, <1>1 DEF WaitDelivered, DeliveryThread, CountersMeasureDelivery
  <2> QED  BY <2>1, <2>2, <2>3
<1>23. ASSUME EndRun PROVE Goal
  <2>1. DeliveryThread'
    BY <1>23, <1>1 DEF EndRun, DeliveryThread
  <2>2. PostsMatchQueue'
    BY <1>23, <1>1 DEF EndRun, DeliveryThread, PostsMatchQueue
  <2>3. CountersMeasureDelivery'
    BY <1>23, <1>1 DEF EndRun, DeliveryThread, CountersMeasureDelivery
  <2> QED  BY <2>1, <2>2, <2>3
<1>24. ASSUME JoinDelivery PROVE Goal
  <2>1. DeliveryThread'
    BY <1>24, <1>1 DEF JoinDelivery, DeliveryThread
  <2>2. PostsMatchQueue'
    BY <1>24, <1>1 DEF JoinDelivery, DeliveryThread, PostsMatchQueue
  <2>3. CountersMeasureDelivery'
    BY <1>24, <1>1 DEF JoinDelivery, DeliveryThread, CountersMeasureDelivery
  <2> QED  BY <2>1, <2>2, <2>3
<1>25. ASSUME Exit PROVE Goal
  <2>1. DeliveryThread'
    BY <1>25, <1>1 DEF Exit, DeliveryThread
  <2>2. PostsMatchQueue'
    BY <1>25, <1>1 DEF Exit, DeliveryThread, PostsMatchQueue
  <2>3. CountersMeasureDelivery'
    BY <1>25, <1>1 DEF Exit, DeliveryThread, CountersMeasureDelivery
  <2> QED  BY <2>1, <2>2, <2>3
<1>26. ASSUME ResetDecoder PROVE Goal
  <2>1. DeliveryThread'
    BY <1>26, <1>1 DEF ResetDecoder, DeliveryThread
  <2>2. PostsMatchQueue'
    BY <1>26, <1>1 DEF ResetDecoder, DeliveryThread, PostsMatchQueue
  <2>3. CountersMeasureDelivery'
    BY <1>26, <1>1 DEF ResetDecoder, DeliveryThread, CountersMeasureDelivery
  <2> QED  BY <2>1, <2>2, <2>3
<1>27. ASSUME DeliverTest PROVE Goal
  <2>1. DeliveryThread'
    BY <1>27, <1>1 DEF DeliverTest, DeliveryThread
  <2>2. PostsMatchQueue'
    BY <1>27, <1>1 DEF DeliverTest, DeliveryThread, PostsMatchQueue
  <2>3. CountersMeasureDelivery'
    BY <1>27, <1>1 DEF DeliverTest, DeliveryThread, CountersMeasureDelivery
  <2> QED  BY <2>1, <2>2, <2>3
<1>28. ASSUME DeliverWait PROVE Goal
  <2>1. DeliveryThread'
    BY <1>28, <1>1 DEF DeliverWait, DeliveryThread
  <2>2. PostsMatchQueue'
    BY <1>28, <1>1 DEF DeliverWait, DeliveryThread, PostsMatchQueue
  <2>3. CountersMeasureDelivery'
    BY <1>28, <1>1 DEF DeliverWait, DeliveryThread, CountersMeasureDelivery
  <2> QED  BY <2>1, <2>2, <2>3
<1>29. ASSUME DeliverTake PROVE Goal
  <2>1. DeliveryThread'
    <3>1. /\ delivPool # <<>> /\ dcur' = Head(delivPool)
          /\ delivPool' = Tail(delivPool) /\ dpc' = "deliver"
          /\ UNCHANGED <<opt, pc, alloc, stop, error>>
      BY <1>29, <1>1 DEF DeliverTake, PostsMatchQueue
    <3>2. dcur' # NoOutput
      BY <1>1, <3>1, TailElements, OutputIsNotNone
    <3> QED  BY <1>1, <1>29, <3>1, <3>2 DEF DeliveryThread, DeliverTake
  <2>2. PostsMatchQueue'
    BY <1>29, <1>1 DEF DeliverTake, DeliveryThread, PostsMatchQueue
  <2>3. CountersMeasureDelivery'
    BY <1>29, <1>1 DEF DeliverTake, DeliveryThread, CountersMeasureDelivery
  <2> QED  BY <2>1, <2>2, <2>3
<1>30. ASSUME DeliverOutput PROVE Goal
  <2>1. DeliveryThread'
    BY <1>30, <1>1 DEF DeliverOutput, DeliveryThread
  <2>2. PostsMatchQueue'
    BY <1>30, <1>1 DEF DeliverOutput, DeliveryThread, PostsMatchQueue
  <2>3. CountersMeasureDelivery'
    BY <1>30, <1>1 DEF DeliverOutput, DeliveryThread, CountersMeasureDelivery
  <2> QED  BY <2>1, <2>2, <2>3
<1>31. ASSUME DeliverReturn PROVE Goal
  <2>1. DeliveryThread'
    BY <1>31, <1>1 DEF DeliverReturn, DeliveryThread
  <2>2. PostsMatchQueue'
    BY <1>31, <1>1 DEF DeliverReturn, DeliveryThread, PostsMatchQueue
  <2>3. CountersMeasureDelivery'
    BY <1>31, <1>1 DEF DeliverReturn, DeliveryThread, CountersMeasureDelivery
  <2> QED  BY <2>1, <2>2, <2>3
<1>32. ASSUME DeliverCount PROVE Goal
  <2>1. DeliveryThread'
    BY <1>32, <1>1 DEF DeliverCount, DeliveryThread
  <2>2. PostsMatchQueue'
    BY <1>32, <1>1 DEF DeliverCount, DeliveryThread, PostsMatchQueue
  <2>3. CountersMeasureDelivery'
    BY <1>32, <1>1 DEF DeliverCount, DeliveryThread, CountersMeasureDelivery
  <2> QED  BY <2>1, <2>2, <2>3
<1>33. ASSUME DeliverSignal PROVE Goal
  <2>1. DeliveryThread'
    BY <1>33, <1>1 DEF DeliverSignal, DeliveryThread
  <2>2. PostsMatchQueue'
    BY <1>33, <1>1 DEF DeliverSignal, DeliveryThread, PostsMatchQueue
  <2>3. CountersMeasureDelivery'
    BY <1>33, <1>1 DEF DeliverSignal, DeliveryThread, CountersMeasureDelivery
  <2> QED  BY <2>1, <2>2, <2>3
<1>34. ASSUME NEW s \in Surfaces, LibraryUnlocks(s) PROVE Goal
    BY <1>34, <1>1 DEF LibraryUnlocks, DeliveryThread, PostsMatchQueue, CountersMeasureDelivery
<1>35. ASSUME UNCHANGED vars PROVE Goal
    BY <1>35, <1>1 DEF vars, DeliveryThread, PostsMatchQueue, CountersMeasureDelivery
<1> QED
  <2> HIDE DEF Goal
  <2>1. Goal
    BY <1>2, <1>3, <1>4, <1>5, <1>6, <1>7, <1>8, <1>9, <1>10, <1>11, <1>12, <1>13,
       <1>14, <1>15, <1>16, <1>17, <1>18, <1>19, <1>20, <1>21, <1>22, <1>23, <1>24,
       <1>25, <1>26, <1>27, <1>28, <1>29, <1>30, <1>31, <1>32, <1>33, <1>34, <1>35
       DEF Next, MainThread, DeliverLoop, Done
  <2> QED  BY <2>1 DEF Goal

LEMMA DeliveryInitially == Init => Delivery
<1> SUFFICES ASSUME Init PROVE Delivery
    OBVIOUS
<1>1. /\ outPool = <<>> /\ curOut = NoOutput /\ delivPool = <<>> /\ dcur = NoOutput
      /\ delivered = <<>> /\ pc = "start" /\ stop = FALSE /\ error = "none" /\ dpc = "none"
      /\ alloc = 1 /\ sem = 0 /\ synced = 0 /\ output = 0
    BY Zenon DEF Init
<1>2. OutputTypes
    BY <1>1 DEF OutputTypes, Outputs
<1>3. DeliveryThread
    BY <1>1 DEF DeliveryThread
<1>4. Len(delivPool) = 0
    BY <1>1
<1>5. PostsMatchQueue /\ CountersMeasureDelivery
    BY <1>1, <1>4 DEF PostsMatchQueue, CountersMeasureDelivery
<1> QED  BY <1>2, <1>3, <1>5 DEF Delivery

THEOREM DeliveryHolds == Spec => []Delivery
<1>1. Control /\ Pools /\ Delivery /\ [Next]_vars => Delivery'
    BY OutputTypesStep, DeliveryThreadStep DEF Delivery
<1> QED  BY <1>1, DeliveryInitially, PoolsHold, PTL DEF Spec

(* Whatever fails, and however the two threads interleave, the counters    *)
(* that the main thread waits on differ by what is still to be delivered.  *)
THEOREM CountersMeasure == Spec => []CountersMeasureDelivery
<1>1. Delivery => CountersMeasureDelivery
    BY DEF Delivery
<1> QED  BY <1>1, DeliveryHolds, PTL

(* The delivery thread never finds its list empty after a wait: while      *)
(* nothing failed and nobody asked it to stop, the semaphore counts the    *)
(* surfaces in the list.                                                   *)
THEOREM DeliveryFinds == Spec => []DeliveryFindsSurface
<1>1. Delivery => DeliveryFindsSurface
    BY DEF Delivery, DeliveryThread, DeliveryFindsSurface
<1> QED  BY <1>1, DeliveryHolds, PTL

----------------------------------------------------------------------------
(* The output queue and its count.  A reset frees the queue and leaves the *)
(* count, so that the two differ from then on; what keeps a full queue     *)
(* from being empty is that a reset is not reached with a full count.      *)

NothingStale == opt.may \cap {"sync_failed", "sync_timeout"} = {}

Unfinished == output < FrameLimit /\ error = "none"

QueueCounted ==
    /\ outCount \in 0..AsyncDepth /\ Len(outPool) <= outCount
    /\ alloc = 1 => Len(outPool) = outCount
    /\ HasSurfaces => outCount < AsyncDepth
    /\ ~ Rendering => output <= synced

CountNotFull ==
    /\ NothingStale /\ Unfinished => outCount - Len(outPool) < AsyncDepth
    /\ NothingStale => res \in {"none", "more_data", "gpu_hang", "unknown"}
    /\ pc \in {"counts", "timed_wait"} \/ (pc = "return" /\ res = "more_data") =>
           outPool = <<>> /\ curOut = NoOutput
    /\ NothingStale /\ Unfinished
       /\ (pc \in {"end", "join", "app", "drained", "wait"} \/ (pc = "top" /\ sts \notin Going))
           => outCount < AsyncDepth \/ sts \in {"gpu_hang", "unknown"}
    /\ alloc > 1 /\ pc = "take" => Unfinished

OutputQueue == QueueCounted /\ CountNotFull

LEMMA QueueInitially == Init => OutputQueue
<1> SUFFICES ASSUME Init PROVE OutputQueue
    OBVIOUS
<1>1. /\ opt \in Configurations /\ outPool = <<>> /\ outCount = 0 /\ curOut = NoOutput
      /\ alloc = 1 /\ pc = "start" /\ caller = "stuck" /\ res = "none" /\ sts = "none"
      /\ synced = 0 /\ output = 0
    BY Zenon DEF Init
<1>2. Len(outPool) = 0 /\ AsyncDepth \in Nat \ {0}
    BY <1>1, PipelineAssumption
<1>3. QueueCounted
    BY <1>1, <1>2 DEF QueueCounted, HasSurfaces
<1>4. CountNotFull
    BY <1>1, <1>2 DEF CountNotFull
<1> QED  BY <1>3, <1>4 DEF OutputQueue

(* What taking the oldest surface does to the count.                       *)
LEMMA TakenCount ==
    ASSUME OutputTypes, QueueCounted, AsyncDepth \in Nat,
           curOut # NoOutput \/ outPool # <<>>, TakeOldest
    PROVE  /\ outCount' \in 0..AsyncDepth /\ Len(outPool') <= outCount'
           /\ outCount' <= outCount /\ Len(outPool') \in Nat
           /\ Len(outPool) = outCount => Len(outPool') = outCount'
           /\ outCount' - Len(outPool') = outCount - Len(outPool)
<1>1. outPool \in Seq(Output) /\ Len(outPool) \in Nat
    BY LenProperties DEF OutputTypes
<1>2. CASE curOut # NoOutput
    BY <1>1, <1>2 DEF TakeOldest, QueueCounted
<1>3. CASE curOut = NoOutput
  <2>1. outPool # <<>> /\ outPool' = Tail(outPool) /\ outCount' = outCount - 1
    BY <1>3 DEF TakeOldest
  <2>2. Len(outPool') = Len(outPool) - 1 /\ Len(outPool) # 0
    BY <1>1, <2>1, TailElements
  <2>3. outCount \in 0..AsyncDepth /\ Len(outPool) <= outCount
    BY DEF QueueCounted
  <2> HIDE DEF TakeOldest
  <2>4. outCount \in Nat /\ outCount <= AsyncDepth /\ outCount # 0
    BY <1>1, <2>2, <2>3
  <2>5. outCount' = outCount - 1 /\ Len(outPool) \in Nat
    BY <1>1, <2>1
  <2> DEFINE a == Len(outPool)
             b == Len(outPool')
  <2> HIDE DEF a, b
  <2>6. /\ a \in Nat /\ b = a - 1 /\ a # 0 /\ a <= outCount
        /\ outCount \in Nat /\ outCount <= AsyncDepth /\ outCount' = outCount - 1
    BY <2>2, <2>3, <2>4, <2>5 DEF a, b
  <2>7. /\ outCount' \in 0..AsyncDepth /\ b <= outCount'
        /\ outCount' <= outCount /\ b \in Nat
        /\ a = outCount => b = outCount'
        /\ outCount' - b = outCount - a
    BY <2>6
  <2> QED  BY <2>7 DEF a, b
<1> QED  BY <1>2, <1>3

LEMMA QueueStep ==
    ASSUME Control, Pools, Delivery, OutputQueue, [Next]_vars
    PROVE  OutputQueue'
<1> DEFINE Goal == QueueCounted' /\ CountNotFull'
<1> USE DEF ctlVars, loopVars, inVars, decVars, poolVars, outVars, delivVars, thrVars,
            cntVars, Rendering, NothingStale, Unfinished, FrameLimit, HasSurfaces, Going,
            Errors, Warnings
<1>1. /\ QueueCounted /\ CountNotFull /\ OutputTypes /\ ControlTypes
      /\ AsyncDepth \in Nat /\ AsyncDepth # 0
      /\ alloc \in Nat /\ alloc # 0 /\ synced \in Nat /\ output \in Nat /\ opt.limit \in Nat
      /\ outCount \in Nat /\ Len(outPool) \in Nat
      /\ (outPool = <<>> => Len(outPool) = 0)
    BY LenProperties, EmptySeq, ConfigurationFacts, PipelineAssumption
       DEF Delivery, OutputTypes, Control, ThreadTypes, StreamTypes, OutputQueue, QueueCounted
<1>2. /\ alloc > 1 => dpc \in {"none", "test", "ended"}
      /\ ~ Rendering => dpc = "none"
    BY DEF Delivery, DeliveryThread
<1>3. ASSUME DecodeFrameAsync \/ PullBuffered PROVE Goal
  <2>1. /\ pc = "decode" /\ UNCHANGED <<opt, res, curOut, alloc, synced, output, error>>
    BY <1>3 DEF DecodeFrameAsync, PullBuffered
  <2>2. outCount < AsyncDepth
    BY <1>1, <2>1 DEF QueueCounted
  <2>3. CASE pc' = "top" /\ sts' = "none" /\ \E s \in Surfaces : QueueOutput(s)
    <3>1. PICK s \in Surfaces : QueueOutput(s)
      BY <2>3
    <3>2. /\ Len(outPool') = Len(outPool) + 1 /\ outCount' = outCount + 1
      BY <3>1, QueuedOutput, AppendElements DEF QueueOutput, Delivery, OutputTypes
    <3>3. QueueCounted'
      BY <1>1, <2>1, <2>2, <2>3, <3>2 DEF QueueCounted
    <3>4. CountNotFull'
      BY <1>1, <2>1, <2>2, <2>3, <3>2 DEF CountNotFull, QueueCounted
    <3> QED  BY <3>3, <3>4
  <2>4. CASE /\ \/ pc' = "end" /\ sts' = "failed"
                \/ pc' = "top" /\ sts' \in {"more_surface", "more_data"}
                \/ pc' = "sync" /\ caller' = "drain" /\ sts' = sts
             /\ UNCHANGED <<renderLock, outPool, outCount>>
    <3>1. QueueCounted'
      BY <1>1, <2>1, <2>2, <2>4 DEF QueueCounted
    <3>2. CountNotFull'
      BY <1>1, <2>1, <2>2, <2>4 DEF CountNotFull, QueueCounted
    <3> QED  BY <3>1, <3>2
  <2> QED  BY <1>3, <2>3, <2>4, DecodeOutputs
<1>4. ASSUME SyncFails PROVE Goal
  <2>1. /\ outCount' \in 0..AsyncDepth /\ Len(outPool') <= outCount'
        /\ outCount' <= outCount /\ Len(outPool') \in Nat
        /\ Len(outPool) = outCount => Len(outPool') = outCount'
        /\ outCount' - Len(outPool') = outCount - Len(outPool)
    BY <1>1, <1>4, TakenCount DEF SyncFails
  <2>2. /\ pc = "sync" /\ pc' = "return" /\ UNCHANGED <<opt, caller, sts, alloc, cntVars, error>>
        /\ res' \in {"in_execution", "failed", "gpu_hang"} /\ (NothingStale => res' = "gpu_hang")
    BY <1>4 DEF SyncFails, Fault
  <2>3. QueueCounted'
    BY <1>1, <2>1, <2>2 DEF QueueCounted
  <2>4. CountNotFull'
    BY <1>1, <2>1, <2>2 DEF CountNotFull
  <2> QED  BY <2>3, <2>4
<1>5. ASSUME SyncForDelivery \/ SyncAndDeliver PROVE Goal
  <2>1. /\ outCount' \in 0..AsyncDepth /\ Len(outPool') <= outCount'
        /\ outCount' <= outCount /\ Len(outPool') \in Nat
        /\ Len(outPool) = outCount => Len(outPool') = outCount'
        /\ outCount' - Len(outPool') = outCount - Len(outPool)
    BY <1>1, <1>5, TakenCount DEF SyncForDelivery, SyncAndDeliver
  <2>2. /\ pc = "sync" /\ UNCHANGED <<opt, caller, sts, alloc, error>>
        /\ synced' = synced + 1
        /\ output' = output \/ (~ Rendering /\ output' = synced + 1)
        /\ \/ pc' = "reset" /\ res' = res
           \/ pc' = "return" /\ res' \in {"none", "unknown"}
    BY <1>5 DEF SyncForDelivery, SyncAndDeliver
  <2>3. QueueCounted'
    BY <1>1, <2>1, <2>2 DEF QueueCounted
  <2>4. Unfinished' => Unfinished
    BY <1>1, <2>2 DEF QueueCounted
  <2>5. CountNotFull'
    BY <1>1, <2>1, <2>2, <2>4 DEF CountNotFull
  <2> QED  BY <2>3, <2>5
<1>6. ASSUME StartRun PROVE Goal
  <2>1. QueueCounted'
    BY <1>6, <1>1, <1>2 DEF StartRun, QueueCounted
  <2>2. CountNotFull'
    BY <1>6, <1>1, <1>2 DEF StartRun, QueueCounted, CountNotFull
  <2> QED  BY <2>1, <2>2
<1>7. ASSUME LeaveLoop PROVE Goal
  <2>1. QueueCounted'
    BY <1>7, <1>1, <1>2 DEF LeaveLoop, LoopGoesOn, QueueCounted
  <2>2. CountNotFull'
    BY <1>7, <1>1, <1>2 DEF LeaveLoop, LoopGoesOn, QueueCounted, CountNotFull
  <2> QED  BY <2>1, <2>2
<1>8. ASSUME ReadNextFrame PROVE Goal
  <2>1. QueueCounted'
    BY <1>8, <1>1, <1>2 DEF ReadNextFrame, LoopGoesOn, QueueCounted
  <2>2. CountNotFull'
    BY <1>8, <1>1, <1>2 DEF ReadNextFrame, LoopGoesOn, QueueCounted, CountNotFull
  <2> QED  BY <2>1, <2>2
<1>9. ASSUME TakeSurfaces PROVE Goal
  <2>1. QueueCounted'
    BY <1>9, <1>1, <1>2 DEF TakeSurfaces, CallSync, Stuck, QueueCounted
  <2>2. CountNotFull'
    BY <1>9, <1>1, <1>2 DEF TakeSurfaces, CallSync, Stuck, QueueCounted, CountNotFull
  <2> QED  BY <2>1, <2>2
<1>10. ASSUME NeedsMoreData PROVE Goal
  <2>1. QueueCounted'
    BY <1>10, <1>1, <1>2 DEF NeedsMoreData, QueueCounted
  <2>2. CountNotFull'
    BY <1>10, <1>1, <1>2 DEF NeedsMoreData, QueueCounted, CountNotFull
  <2> QED  BY <2>1, <2>2
<1>11. ASSUME DecodeTrouble PROVE Goal
  <2>1. QueueCounted'
    BY <1>11, <1>1, <1>2 DEF DecodeTrouble, CallSync, Fault, QueueCounted
  <2>2. CountNotFull'
    BY <1>11, <1>1, <1>2 DEF DecodeTrouble, CallSync, Fault, QueueCounted, CountNotFull
  <2> QED  BY <2>1, <2>2
<1>12. ASSUME SyncNothing PROVE Goal
  <2>1. QueueCounted'
    BY <1>12, <1>1, <1>2 DEF SyncNothing, QueueCounted
  <2>2. CountNotFull'
    BY <1>12, <1>1, <1>2 DEF SyncNothing, QueueCounted, CountNotFull
  <2> QED  BY <2>1, <2>2
<1>13. ASSUME ResetEvent PROVE Goal
  <2>1. QueueCounted'
    BY <1>13, <1>1, <1>2 DEF ResetEvent, QueueCounted
  <2>2. CountNotFull'
    BY <1>13, <1>1, <1>2 DEF ResetEvent, QueueCounted, CountNotFull
  <2> QED  BY <2>1, <2>2
<1>14. ASSUME PostDelivered PROVE Goal
  <2>1. QueueCounted'
    BY <1>14, <1>1, <1>2 DEF PostDelivered, QueueCounted
  <2>2. CountNotFull'
    BY <1>14, <1>1, <1>2 DEF PostDelivered, QueueCounted, CountNotFull
  <2> QED  BY <2>1, <2>2
<1>15. ASSUME StuckReturns PROVE Goal
  <2>1. QueueCounted'
    BY <1>15, <1>1, <1>2 DEF StuckReturns, QueueCounted
  <2>2. CountNotFull'
    BY <1>15, <1>1, <1>2 DEF StuckReturns, QueueCounted, CountNotFull
  <2> QED  BY <2>1, <2>2
<1>16. ASSUME CompareCounts PROVE Goal
  <2>1. QueueCounted'
    BY <1>16, <1>1, <1>2 DEF CompareCounts, QueueCounted
  <2>2. CountNotFull'
    BY <1>16, <1>1, <1>2 DEF CompareCounts, QueueCounted, CountNotFull
  <2> QED  BY <2>1, <2>2
<1>17. ASSUME TimedWait PROVE Goal
  <2>1. QueueCounted'
    BY <1>17, <1>1, <1>2 DEF TimedWait, Fault, QueueCounted
  <2>2. CountNotFull'
    BY <1>17, <1>1, <1>2 DEF TimedWait, Fault, QueueCounted, CountNotFull
  <2> QED  BY <2>1, <2>2
<1>18. ASSUME BusyReturns PROVE Goal
  <2>1. QueueCounted'
    BY <1>18, <1>1, <1>2 DEF BusyReturns, QueueCounted
  <2>2. CountNotFull'
    BY <1>18, <1>1, <1>2 DEF BusyReturns, QueueCounted, CountNotFull
  <2> QED  BY <2>1, <2>2
<1>19. ASSUME DrainReturns PROVE Goal
  <2>1. QueueCounted'
    BY <1>19, <1>1, <1>2 DEF DrainReturns, QueueCounted
  <2>2. CountNotFull'
    BY <1>19, <1>1, <1>2 DEF DrainReturns, QueueCounted, CountNotFull
  <2> QED  BY <2>1, <2>2
<1>20. ASSUME Drained PROVE Goal
  <2>1. QueueCounted'
    BY <1>20, <1>1, <1>2 DEF Drained, QueueCounted
  <2>2. CountNotFull'
    BY <1>20, <1>1, <1>2 DEF Drained, QueueCounted, CountNotFull
  <2> QED  BY <2>1, <2>2
<1>21. ASSUME WaitDelivered PROVE Goal
  <2>1. QueueCounted'
    BY <1>21, <1>1, <1>2 DEF WaitDelivered, QueueCounted
  <2>2. CountNotFull'
    BY <1>21, <1>1, <1>2 DEF WaitDelivered, QueueCounted, CountNotFull
  <2> QED  BY <2>1, <2>2
<1>22. ASSUME EndRun PROVE Goal
  <2>1. QueueCounted'
    BY <1>22, <1>1, <1>2 DEF EndRun, QueueCounted
  <2>2. CountNotFull'
    BY <1>22, <1>1, <1>2 DEF EndRun, QueueCounted, CountNotFull
  <2> QED  BY <2>1, <2>2
<1>23. ASSUME JoinDelivery PROVE Goal
  <2>1. QueueCounted'
    BY <1>23, <1>1, <1>2 DEF JoinDelivery, QueueCounted
  <2>2. CountNotFull'
    BY <1>23, <1>1, <1>2 DEF JoinDelivery, QueueCounted, CountNotFull
  <2> QED  BY <2>1, <2>2
<1>24. ASSUME Exit PROVE Goal
  <2>1. QueueCounted'
    BY <1>24, <1>1, <1>2 DEF Exit, QueueCounted
  <2>2. CountNotFull'
    BY <1>24, <1>1, <1>2 DEF Exit, QueueCounted, CountNotFull
  <2> QED  BY <2>1, <2>2
<1>25. ASSUME ResetDecoder PROVE Goal
  <2>1. QueueCounted'
    BY <1>25, <1>1, <1>2 DEF ResetDecoder, Recoverable, RunStatus, QueueCounted
  <2>2. CountNotFull'
    BY <1>25, <1>1, <1>2 DEF ResetDecoder, Recoverable, RunStatus, QueueCounted, CountNotFull
  <2> QED  BY <2>1, <2>2
<1>26. ASSUME DeliverTest PROVE Goal
  <2>1. QueueCounted'
    BY <1>26, <1>1, <1>2 DEF DeliverTest, QueueCounted
  <2>2. CountNotFull'
    BY <1>26, <1>1, <1>2 DEF DeliverTest, QueueCounted, CountNotFull
  <2> QED  BY <2>1, <2>2
<1>27. ASSUME DeliverWait PROVE Goal
  <2>1. QueueCounted'
    BY <1>27, <1>1, <1>2 DEF DeliverWait, QueueCounted
  <2>2. CountNotFull'
    BY <1>27, <1>1, <1>2 DEF DeliverWait, QueueCounted, CountNotFull
  <2> QED  BY <2>1, <2>2
<1>28. ASSUME DeliverTake PROVE Goal
  <2>1. QueueCounted'
    BY <1>28, <1>1, <1>2 DEF DeliverTake, QueueCounted
  <2>2. CountNotFull'
    BY <1>28, <1>1, <1>2 DEF DeliverTake, QueueCounted, CountNotFull
  <2> QED  BY <2>1, <2>2
<1>29. ASSUME DeliverOutput PROVE Goal
  <2>1. QueueCounted'
    BY <1>29, <1>1, <1>2 DEF DeliverOutput, QueueCounted
  <2>2. CountNotFull'
    BY <1>29, <1>1, <1>2 DEF DeliverOutput, QueueCounted, CountNotFull
  <2> QED  BY <2>1, <2>2
<1>30. ASSUME DeliverReturn PROVE Goal
  <2>1. QueueCounted'
    BY <1>30, <1>1, <1>2 DEF DeliverReturn, QueueCounted
  <2>2. CountNotFull'
    BY <1>30, <1>1, <1>2 DEF DeliverReturn, QueueCounted, CountNotFull
  <2> QED  BY <2>1, <2>2
<1>31. ASSUME DeliverCount PROVE Goal
  <2>1. QueueCounted'
    BY <1>31, <1>1, <1>2 DEF DeliverCount, QueueCounted
  <2>2. CountNotFull'
    BY <1>31, <1>1, <1>2 DEF DeliverCount, QueueCounted, CountNotFull
  <2> QED  BY <2>1, <2>2
<1>32. ASSUME DeliverSignal PROVE Goal
  <2>1. QueueCounted'
    BY <1>32, <1>1, <1>2 DEF DeliverSignal, QueueCounted
  <2>2. CountNotFull'
    BY <1>32, <1>1, <1>2 DEF DeliverSignal, QueueCounted, CountNotFull
  <2> QED  BY <2>1, <2>2
<1>33. ASSUME NEW s \in Surfaces, LibraryUnlocks(s) PROVE Goal
    BY <1>33, <1>1 DEF LibraryUnlocks, QueueCounted, CountNotFull
<1>34. ASSUME UNCHANGED vars PROVE Goal
    BY <1>34, <1>1 DEF vars, QueueCounted, CountNotFull
<1> QED
  <2> HIDE DEF Goal
  <2>1. Goal
    BY <1>3, <1>4, <1>5, <1>6, <1>7, <1>8, <1>9, <1>10, <1>11, <1>12, <1>13, <1>14,
       <1>15, <1>16, <1>17, <1>18, <1>19, <1>20, <1>21, <1>22, <1>23, <1>24, <1>25,
       <1>26, <1>27, <1>28, <1>29, <1>30, <1>31, <1>32, <1>33, <1>34 DEF Next, MainThread, DeliverLoop, Done
  <2> QED  BY <2>1 DEF Goal, OutputQueue

THEOREM QueueHolds == Spec => []OutputQueue
<1>1. Control /\ Pools /\ Delivery /\ OutputQueue /\ [Next]_vars => OutputQueue'
    BY QueueStep
<1> QED  BY <1>1, QueueInitially, PoolsHold, DeliveryHolds, PTL DEF Spec

(* A count that a reset left behind is not full when the loop goes on.     *)
LEMMA QueueIsNotEmpty ==
    ASSUME Control, Delivery, OutputQueue
    PROVE  FullQueueHasSurface
<1> SUFFICES ASSUME NoStaleSurface, pc = "take", outCount = AsyncDepth, outPool = <<>>
             PROVE  FALSE
    BY DEF FullQueueHasSurface
<1>1. AsyncDepth \in Nat /\ AsyncDepth # 0 /\ Len(outPool) = 0 /\ alloc \in Nat /\ alloc # 0
    BY PipelineAssumption DEF Control, ThreadTypes
<1>2. CASE alloc = 1
    BY <1>1, <1>2 DEF OutputQueue, QueueCounted
<1>3. CASE alloc # 1
  <2>1. NothingStale /\ Unfinished
    BY <1>1, <1>3 DEF NoStaleSurface, NothingStale, OutputQueue, CountNotFull
  <2> QED  BY <1>1, <2>1 DEF OutputQueue, CountNotFull
<1> QED  BY <1>2, <1>3

(* When GetSurfaceCount says that the queue is full, there is a surface in *)
(* it to wait for, also after a reset that left the count of the old       *)
(* queue.                                                                  *)
THEOREM FullQueueFinds == Spec => []FullQueueHasSurface
<1>1. Control /\ Delivery /\ OutputQueue => FullQueueHasSurface
    BY QueueIsNotEmpty
<1> QED  BY <1>1, QueueHolds, DeliveryHolds, PoolsHold, PTL

----------------------------------------------------------------------------
(* The render locks.  The surfaces of earlier allocations that are still   *)
(* in a queue do not count: their locks were freed with them.              *)

Mark(s) == [surf |-> s, alloc |-> alloc]

Waiting(s) ==
    Occurrences(outPool, Mark(s)) + Occurrences(delivPool, Mark(s))
    + Is(curOut, Mark(s)) + Is(dcur, Mark(s))

LocksCount == \A s \in Surfaces : renderLock[s] = Waiting(s)

\* no surface is of an allocation to come
OldOutputs ==
    curOut.alloc <= alloc /\ \A i \in 1..Len(outPool) : outPool[i].alloc <= alloc

Locks == LocksCount /\ OldOutputs

LEMMA MarkIsOutput ==
    ASSUME Control, NEW s \in Surfaces
    PROVE  Mark(s) \in Output /\ Mark(s) # NoOutput
    BY OutputIsNotNone DEF Mark, Output, Control, ThreadTypes

LEMMA WaitingNat ==
    ASSUME OutputTypes, NEW m
    PROVE  /\ Occurrences(outPool, m) \in Nat /\ Occurrences(delivPool, m) \in Nat
           /\ Is(curOut, m) \in Nat /\ Is(dcur, m) \in Nat
    BY OccurrencesNat DEF OutputTypes, Is

LEMMA QueuedIsWaiting ==
    ASSUME OutputTypes, NEW s \in Surfaces
    PROVE  QueuedFor(s) = Waiting(s)
<1>1. DOMAIN outPool = 1..Len(outPool) /\ DOMAIN delivPool = 1..Len(delivPool)
    BY LenProperties DEF OutputTypes
<1>2. Times(outPool, s) = Occurrences(outPool, Mark(s))
    BY <1>1 DEF Times, Occurrences, Mark
<1>3. Times(delivPool, s) = Occurrences(delivPool, Mark(s))
    BY <1>1 DEF Times, Occurrences, Mark
<1> QED  BY <1>2, <1>3 DEF QueuedFor, Waiting, Is, Mark

(* Taking the oldest surface takes it out of the two places it can be in.  *)
LEMMA OldestOccurrences ==
    ASSUME OutputTypes, curOut # NoOutput \/ outPool # <<>>, TakeOldest,
           NEW m, m # NoOutput
    PROVE  /\ Occurrences(outPool', m) + Is(Oldest, m)
                = Occurrences(outPool, m) + Is(curOut, m)
           /\ Occurrences(outPool', m) \in Nat /\ Is(Oldest, m) \in Nat
<1>1. outPool \in Seq(Output) /\ Occurrences(outPool, m) \in Nat
    BY WaitingNat DEF OutputTypes
<1>2. CASE curOut # NoOutput
  <2>1. Oldest = curOut /\ outPool' = outPool
    BY <1>2 DEF Oldest, TakeOldest
  <2> QED  BY <1>1, <2>1 DEF Is
<1>3. CASE curOut = NoOutput
  <2>1. Oldest = Head(outPool) /\ outPool' = Tail(outPool) /\ outPool # <<>>
    BY <1>3 DEF Oldest, TakeOldest
  <2>2. /\ Occurrences(outPool, m) = Occurrences(Tail(outPool), m) + Is(Head(outPool), m)
        /\ Occurrences(Tail(outPool), m) \in Nat
    BY <1>1, <2>1, OccurrencesTail
  <2>3. Is(curOut, m) = 0
    BY <1>3 DEF Is
  <2>4. Is(Head(outPool), m) \in Nat
    BY DEF Is
  <2> QED  BY <2>1, <2>2, <2>3, <2>4
<1> QED  BY <1>2, <1>3

LEMMA OldestOld ==
    ASSUME Control, OutputTypes, OldOutputs, curOut # NoOutput \/ outPool # <<>>, TakeOldest
    PROVE  /\ Oldest.alloc <= alloc
           /\ \A i \in 1..Len(outPool') : outPool'[i].alloc <= alloc
<1>1. CASE curOut # NoOutput
    BY <1>1 DEF OldOutputs, Oldest, TakeOldest
<1>2. CASE curOut = NoOutput
  <2>1. /\ Oldest = Head(outPool) /\ outPool' = Tail(outPool) /\ outPool # <<>>
        /\ outPool \in Seq(Output)
    BY <1>2 DEF Oldest, TakeOldest, OutputTypes
  <2>2. /\ Head(outPool) = outPool[1] /\ Len(outPool) \in Nat \ {0}
        /\ Len(Tail(outPool)) = Len(outPool) - 1
        /\ \A i \in 1..Len(Tail(outPool)) : Tail(outPool)[i] = outPool[i + 1]
    BY <2>1, TailElements
  <2>3. /\ 1 \in 1..Len(outPool)
        /\ \A i \in 1..Len(Tail(outPool)) : i + 1 \in 1..Len(outPool)
    BY <2>2
  <2> QED  BY <2>1, <2>2, <2>3 DEF OldOutputs
<1> QED  BY <1>1, <1>2

(* ReturnSurfaceToBuffers takes down the lock of a surface in use, and     *)
(* leaves the pools alone for one of an earlier allocation.                *)
LEMMA ReturnedLock ==
    ASSUME Control, LibraryIn, NEW out \in Output, ReturnSurfaceToBuffers(out), NEW s \in Surfaces
    PROVE  renderLock'[s] = renderLock[s] - Is(out, Mark(s))
<1>1. renderLock \in [Surfaces -> Int] /\ renderLock[s] \in Int
    BY DEF LibraryIn
<1>2. out.surf \in Surfaces /\ (out = Mark(s) <=> out.surf = s /\ out.alloc = alloc)
    BY DEF Output, Mark
<1>3. CASE out = Mark(s)
    BY <1>1, <1>2, <1>3 DEF ReturnSurfaceToBuffers, Is
<1>4. CASE out # Mark(s)
  <2>1. renderLock'[s] = renderLock[s]
    BY <1>1, <1>2, <1>4 DEF ReturnSurfaceToBuffers
  <2> QED  BY <1>1, <1>4, <2>1 DEF Is
<1> QED  BY <1>3, <1>4

LEMMA LocksInitially == Init => Locks
<1> SUFFICES ASSUME Init PROVE Locks
    OBVIOUS
<1>1. /\ outPool = <<>> /\ curOut = NoOutput /\ alloc = 1 /\ delivPool = <<>>
      /\ dcur = NoOutput /\ renderLock = [s \in Surfaces |-> 0]
    BY Zenon DEF Init
<1>2. ASSUME NEW s \in Surfaces PROVE renderLock[s] = Waiting(s)
  <2>1. Mark(s) # NoOutput
    BY ControlInitially, MarkIsOutput
  <2>2. Is(NoOutput, Mark(s)) = 0
    BY <2>1 DEF Is
  <2>3. Occurrences(<<>>, Mark(s)) = 0
    BY OccurrencesEmpty
  <2> QED  BY <1>1, <2>2, <2>3 DEF Waiting
<1>3. OldOutputs
  <2>1. Len(outPool) = 0 /\ curOut.alloc = 0
    BY <1>1 DEF NoOutput
  <2> QED  BY <1>1, <2>1 DEF OldOutputs
<1> QED  BY <1>2, <1>3 DEF Locks, LocksCount

(* The steps that neither move a surface nor touch a lock.                 *)
LocksKept == UNCHANGED <<outPool, delivPool, curOut, dcur, alloc, renderLock>>

LEMMA LocksKeptStep == Locks /\ LocksKept => Locks'
    BY DEF Locks, LocksKept, LocksCount, OldOutputs, Waiting, Mark

LEMMA LocksStep ==
    ASSUME Control, Pools, Delivery, Locks, [Next]_vars
    PROVE  Locks'
<1> USE DEF ctlVars, loopVars, inVars, decVars, poolVars, outVars, delivVars, thrVars,
            cntVars
<1>1. /\ OutputTypes /\ OldOutputs /\ LibraryIn /\ alloc \in Nat
      /\ outPool \in Seq(Output) /\ delivPool \in Seq(Output)
      /\ renderLock \in [Surfaces -> Int]
    BY DEF Delivery, OutputTypes, Locks, Pools, LibraryIn, Control, ThreadTypes
<1>2. ASSUME NEW s \in Surfaces
      PROVE  /\ renderLock[s] = Occurrences(outPool, Mark(s)) + Occurrences(delivPool, Mark(s))
                                  + Is(curOut, Mark(s)) + Is(dcur, Mark(s))
             /\ Occurrences(outPool, Mark(s)) \in Nat /\ Occurrences(delivPool, Mark(s)) \in Nat
             /\ Is(curOut, Mark(s)) \in Nat /\ Is(dcur, Mark(s)) \in Nat
             /\ Mark(s) \in Output /\ Mark(s) # NoOutput /\ Is(NoOutput, Mark(s)) = 0
             /\ (alloc' = alloc => Mark(s)' = Mark(s))
  <2>1. Mark(s) \in Output /\ Mark(s) # NoOutput
    BY MarkIsOutput
  <2>2. Is(NoOutput, Mark(s)) = 0 /\ (alloc' = alloc => Mark(s)' = Mark(s))
    BY <2>1 DEF Is, Mark
  <2>3. renderLock[s] = Waiting(s)
    BY DEF Locks, LocksCount
  <2> QED  BY <1>1, <2>1, <2>2, <2>3, WaitingNat DEF Waiting
<1>3. CASE LocksKept
    BY <1>3, LocksKeptStep
<1>4. CASE DecodeFrameAsync \/ PullBuffered
  <2>1. UNCHANGED <<curOut, delivPool, dcur, alloc>>
    BY <1>4 DEF DecodeFrameAsync, PullBuffered
  <2>2. CASE \E t \in Surfaces : QueueOutput(t)
    <3>1. PICK t \in Surfaces : QueueOutput(t)
      BY <2>2
    <3>2. /\ outPool' = Append(outPool, Mark(t)) /\ Mark(t) \in Output /\ Mark(t).alloc = alloc
          /\ renderLock' = [renderLock EXCEPT ![t] = @ + 1]
      BY <1>2, <3>1 DEF QueueOutput, LockForRender, Mark
    <3>3. ASSUME NEW s \in Surfaces PROVE renderLock'[s] = Waiting(s)'
      <4> DEFINE m == Mark(s)
      <4>1. Occurrences(outPool', m) = Occurrences(outPool, m) + Is(Mark(t), m)
        BY <1>1, <3>2, OccurrencesAppend
      <4>2. Is(Mark(t), m) = IF t = s THEN 1 ELSE 0
        BY DEF Is, Mark
      <4>3. renderLock'[s] = renderLock[s] + (IF t = s THEN 1 ELSE 0)
        BY <1>1, <3>2
      <4>4. Waiting(s)' = Occurrences(outPool', m) + Occurrences(delivPool, m)
                            + Is(curOut, m) + Is(dcur, m)
        BY <1>2, <2>1 DEF Waiting
      <4>5. /\ renderLock[s] = Occurrences(outPool, m) + Occurrences(delivPool, m)
                                 + Is(curOut, m) + Is(dcur, m)
            /\ Occurrences(outPool, m) \in Nat /\ Occurrences(delivPool, m) \in Nat
            /\ Is(curOut, m) \in Nat /\ Is(dcur, m) \in Nat
        BY <1>2
      <4> HIDE DEF m
      <4> QED  BY <4>1, <4>2, <4>3, <4>4, <4>5
    <3>4. OldOutputs'
      <4>1. /\ Len(outPool') = Len(outPool) + 1 /\ Len(outPool) \in Nat
            /\ \A i \in 1..Len(outPool) : outPool'[i] = outPool[i]
            /\ outPool'[Len(outPool) + 1] = Mark(t)
        BY <1>1, <3>2, AppendElements
      <4>2. \A i \in 1..Len(outPool') : i \in 1..Len(outPool) \/ i = Len(outPool) + 1
        BY <4>1
      <4> QED  BY <1>1, <2>1, <3>2, <4>1, <4>2 DEF OldOutputs
    <3> QED  BY <3>3, <3>4 DEF Locks, LocksCount
  <2>3. CASE UNCHANGED <<renderLock, outPool, outCount>>
    BY <1>3, <2>1, <2>3 DEF LocksKept
  <2> QED  BY <1>4, <2>2, <2>3, DecodeOutputs
<1>5. CASE SyncFails
  <2>1. /\ curOut # NoOutput \/ outPool # <<>>
        /\ curOut' = Oldest /\ TakeOldest /\ UNCHANGED <<delivPool, dcur, alloc, renderLock>>
    BY <1>5 DEF SyncFails
  <2>2. ASSUME NEW s \in Surfaces PROVE renderLock'[s] = Waiting(s)'
    <3> DEFINE m == Mark(s)
    <3>1. /\ Occurrences(outPool', m) + Is(Oldest, m) = Occurrences(outPool, m) + Is(curOut, m)
          /\ Occurrences(outPool', m) \in Nat /\ Is(Oldest, m) \in Nat
      BY <1>1, <1>2, <2>1, OldestOccurrences
    <3>2. Waiting(s)' = Occurrences(outPool', m) + Occurrences(delivPool, m)
                          + Is(Oldest, m) + Is(dcur, m)
      BY <1>2, <2>1 DEF Waiting
    <3>3. /\ renderLock'[s] = Occurrences(outPool, m) + Occurrences(delivPool, m)
                                + Is(curOut, m) + Is(dcur, m)
          /\ Occurrences(outPool, m) \in Nat /\ Occurrences(delivPool, m) \in Nat
          /\ Is(curOut, m) \in Nat /\ Is(dcur, m) \in Nat
      BY <1>2, <2>1
    <3> HIDE DEF m
    <3> QED  BY <3>1, <3>2, <3>3
  <2>3. OldOutputs'
    BY <1>1, <2>1, OldestOld DEF OldOutputs
  <2> QED  BY <2>2, <2>3 DEF Locks, LocksCount
<1>6. CASE SyncForDelivery
  <2>1. /\ curOut # NoOutput \/ outPool # <<>>
        /\ curOut' = NoOutput /\ TakeOldest /\ UNCHANGED <<dcur, alloc, renderLock>>
        /\ delivPool' = Append(delivPool, Oldest)
    BY <1>6 DEF SyncForDelivery
  <2>2. Oldest \in Output
    BY <1>1, <2>1, OldestOutput
  <2>3. ASSUME NEW s \in Surfaces PROVE renderLock'[s] = Waiting(s)'
    <3> DEFINE m == Mark(s)
    <3>1. /\ Occurrences(outPool', m) + Is(Oldest, m) = Occurrences(outPool, m) + Is(curOut, m)
          /\ Occurrences(outPool', m) \in Nat /\ Is(Oldest, m) \in Nat
      BY <1>1, <1>2, <2>1, OldestOccurrences
    <3>2. Occurrences(delivPool', m) = Occurrences(delivPool, m) + Is(Oldest, m)
      BY <1>1, <2>1, <2>2, OccurrencesAppend
    <3>3. Waiting(s)' = Occurrences(outPool', m) + Occurrences(delivPool', m)
                          + Is(NoOutput, m) + Is(dcur, m)
      BY <1>2, <2>1 DEF Waiting
    <3>4. /\ renderLock'[s] = Occurrences(outPool, m) + Occurrences(delivPool, m)
                                + Is(curOut, m) + Is(dcur, m)
          /\ Occurrences(outPool, m) \in Nat /\ Occurrences(delivPool, m) \in Nat
          /\ Is(curOut, m) \in Nat /\ Is(dcur, m) \in Nat /\ Is(NoOutput, m) = 0
      BY <1>2, <2>1
    <3> HIDE DEF m
    <3> QED  BY <3>1, <3>2, <3>3, <3>4
  <2>4. OldOutputs'
    BY <1>1, <2>1, OldestOld DEF OldOutputs, NoOutput
  <2> QED  BY <2>3, <2>4 DEF Locks, LocksCount
<1>7. CASE SyncAndDeliver
  <2>1. /\ curOut # NoOutput \/ outPool # <<>>
        /\ curOut' = NoOutput /\ TakeOldest /\ UNCHANGED <<dcur, delivPool, alloc>>
        /\ ReturnSurfaceToBuffers(Oldest)
    BY <1>7 DEF SyncAndDeliver
  <2>2. Oldest \in Output
    BY <1>1, <2>1, OldestOutput
  <2>3. ASSUME NEW s \in Surfaces PROVE renderLock'[s] = Waiting(s)'
    <3> DEFINE m == Mark(s)
    <3>1. /\ Occurrences(outPool', m) + Is(Oldest, m) = Occurrences(outPool, m) + Is(curOut, m)
          /\ Occurrences(outPool', m) \in Nat /\ Is(Oldest, m) \in Nat
      BY <1>1, <1>2, <2>1, OldestOccurrences
    <3>2. renderLock'[s] = renderLock[s] - Is(Oldest, m)
      BY <1>1, <2>1, <2>2, ReturnedLock
    <3>3. Waiting(s)' = Occurrences(outPool', m) + Occurrences(delivPool, m)
                          + Is(NoOutput, m) + Is(dcur, m)
      BY <1>2, <2>1 DEF Waiting
    <3>4. /\ renderLock[s] = Occurrences(outPool, m) + Occurrences(delivPool, m)
                               + Is(curOut, m) + Is(dcur, m)
          /\ Occurrences(outPool, m) \in Nat /\ Occurrences(delivPool, m) \in Nat
          /\ Is(curOut, m) \in Nat /\ Is(dcur, m) \in Nat /\ Is(NoOutput, m) = 0
      BY <1>2, <2>1
    <3> HIDE DEF m
    <3> QED  BY <3>1, <3>2, <3>3, <3>4
  <2>4. OldOutputs'
    BY <1>1, <2>1, OldestOld DEF OldOutputs, NoOutput
  <2> QED  BY <2>3, <2>4 DEF Locks, LocksCount
<1>8. CASE DeliverTake
  <2>1. /\ delivPool # <<>> /\ dcur = NoOutput
        /\ dcur' = Head(delivPool) /\ delivPool' = Tail(delivPool)
        /\ UNCHANGED <<outPool, curOut, alloc, renderLock>>
    BY <1>8 DEF DeliverTake, Delivery, DeliveryThread, PostsMatchQueue
  <2>2. ASSUME NEW s \in Surfaces PROVE renderLock'[s] = Waiting(s)'
    <3> DEFINE m == Mark(s)
    <3>1. /\ Occurrences(delivPool, m) = Occurrences(Tail(delivPool), m) + Is(Head(delivPool), m)
          /\ Occurrences(Tail(delivPool), m) \in Nat /\ Is(Head(delivPool), m) \in Nat
      BY <1>1, <2>1, OccurrencesTail DEF Is
    <3>2. Waiting(s)' = Occurrences(outPool, m) + Occurrences(Tail(delivPool), m)
                          + Is(curOut, m) + Is(Head(delivPool), m)
      BY <1>2, <2>1 DEF Waiting
    <3>3. /\ renderLock'[s] = Occurrences(outPool, m) + Occurrences(delivPool, m)
                                + Is(curOut, m) + Is(dcur, m)
          /\ Occurrences(outPool, m) \in Nat /\ Occurrences(delivPool, m) \in Nat
          /\ Is(curOut, m) \in Nat /\ Is(dcur, m) = 0
      BY <1>2, <2>1
    <3> HIDE DEF m
    <3> QED  BY <3>1, <3>2, <3>3
  <2>3. OldOutputs'
    BY <1>1, <2>1 DEF OldOutputs
  <2> QED  BY <2>2, <2>3 DEF Locks, LocksCount
<1>9. CASE DeliverReturn
  <2>1. /\ dcur # NoOutput /\ dcur' = NoOutput /\ ReturnSurfaceToBuffers(dcur)
        /\ UNCHANGED <<outPool, delivPool, curOut, alloc>>
    BY <1>9 DEF DeliverReturn, Delivery, DeliveryThread
  <2>2. dcur \in Output
    BY <1>1, <2>1 DEF OutputTypes, Outputs
  <2>3. ASSUME NEW s \in Surfaces PROVE renderLock'[s] = Waiting(s)'
    <3> DEFINE m == Mark(s)
    <3>1. renderLock'[s] = renderLock[s] - Is(dcur, m)
      BY <1>1, <2>1, <2>2, ReturnedLock
    <3>2. Waiting(s)' = Occurrences(outPool, m) + Occurrences(delivPool, m)
                          + Is(curOut, m) + Is(NoOutput, m)
      BY <1>2, <2>1 DEF Waiting
    <3>3. /\ renderLock[s] = Occurrences(outPool, m) + Occurrences(delivPool, m)
                               + Is(curOut, m) + Is(dcur, m)
          /\ Occurrences(outPool, m) \in Nat /\ Occurrences(delivPool, m) \in Nat
          /\ Is(curOut, m) \in Nat /\ Is(dcur, m) \in Nat /\ Is(NoOutput, m) = 0
      BY <1>2
    <3> HIDE DEF m
    <3> QED  BY <3>1, <3>2, <3>3
  <2>4. OldOutputs'
    BY <1>1, <2>1 DEF OldOutputs
  <2> QED  BY <2>3, <2>4 DEF Locks, LocksCount
<1>10. CASE ResetDecoder
  <2>1. /\ outPool' = <<>> /\ delivPool' = <<>> /\ alloc' = alloc + 1
        /\ renderLock' = [s \in Surfaces |-> 0] /\ UNCHANGED <<curOut, dcur>>
    BY <1>10 DEF ResetDecoder, AllocFrames
  <2>2. dcur = NoOutput
    BY <1>10 DEF ResetDecoder, Delivery, DeliveryThread
  <2>3. curOut.alloc \in Nat /\ curOut.alloc <= alloc
    BY <1>1 DEF OutputTypes, Outputs, Output, NoOutput, OldOutputs
  <2>4. ASSUME NEW s \in Surfaces PROVE renderLock'[s] = Waiting(s)'
    <3> DEFINE m == [surf |-> s, alloc |-> alloc + 1]
    <3>1. m # NoOutput /\ m # curOut
      <4>1. m.alloc = alloc + 1 /\ NoOutput.alloc = 0
        BY DEF NoOutput
      <4> HIDE DEF m
      <4> QED  BY <1>1, <2>3, <4>1
    <3>2. Waiting(s)' = Occurrences(<<>>, m) + Occurrences(<<>>, m)
                          + Is(curOut, m) + Is(NoOutput, m)
      BY <2>1, <2>2 DEF Waiting, Mark
    <3>3. Occurrences(<<>>, m) = 0
      BY OccurrencesEmpty
    <3>4. Is(curOut, m) = 0 /\ Is(NoOutput, m) = 0
      BY <3>1 DEF Is
    <3>5. renderLock'[s] = 0
      BY <2>1
    <3> HIDE DEF m
    <3> QED  BY <3>2, <3>3, <3>4, <3>5
  <2>5. OldOutputs'
    <3>1. Len(outPool') = 0
      BY <2>1
    <3> QED  BY <1>1, <2>1, <2>3, <3>1 DEF OldOutputs
  <2> QED  BY <2>4, <2>5 DEF Locks, LocksCount
<1>11. ASSUME StartRun PROVE LocksKept
    BY <1>11 DEF StartRun, LocksKept
<1>12. ASSUME LeaveLoop PROVE LocksKept
    BY <1>12 DEF LeaveLoop, LocksKept
<1>13. ASSUME ReadNextFrame PROVE LocksKept
    BY <1>13 DEF ReadNextFrame, LocksKept
<1>14. ASSUME TakeSurfaces PROVE LocksKept
    BY <1>14 DEF TakeSurfaces, LocksKept
<1>15. ASSUME NeedsMoreData PROVE LocksKept
    BY <1>15 DEF NeedsMoreData, LocksKept
<1>16. ASSUME DecodeTrouble PROVE LocksKept
    BY <1>16 DEF DecodeTrouble, LocksKept
<1>17. ASSUME SyncNothing PROVE LocksKept
    BY <1>17 DEF SyncNothing, LocksKept
<1>18. ASSUME ResetEvent PROVE LocksKept
    BY <1>18 DEF ResetEvent, LocksKept
<1>19. ASSUME PostDelivered PROVE LocksKept
    BY <1>19 DEF PostDelivered, LocksKept
<1>20. ASSUME StuckReturns PROVE LocksKept
    BY <1>20 DEF StuckReturns, LocksKept
<1>21. ASSUME CompareCounts PROVE LocksKept
    BY <1>21 DEF CompareCounts, LocksKept
<1>22. ASSUME TimedWait PROVE LocksKept
    BY <1>22 DEF TimedWait, LocksKept
<1>23. ASSUME BusyReturns PROVE LocksKept
    BY <1>23 DEF BusyReturns, LocksKept
<1>24. ASSUME DrainReturns PROVE LocksKept
    BY <1>24 DEF DrainReturns, LocksKept
<1>25. ASSUME Drained PROVE LocksKept
    BY <1>25 DEF Drained, LocksKept
<1>26. ASSUME WaitDelivered PROVE LocksKept
    BY <1>26 DEF WaitDelivered, LocksKept
<1>27. ASSUME EndRun PROVE LocksKept
    BY <1>27 DEF EndRun, LocksKept
<1>28. ASSUME JoinDelivery PROVE LocksKept
    BY <1>28 DEF JoinDelivery, LocksKept
<1>29. ASSUME Exit PROVE LocksKept
    BY <1>29 DEF Exit, LocksKept
<1>30. ASSUME DeliverTest PROVE LocksKept
    BY <1>30 DEF DeliverTest, LocksKept
<1>31. ASSUME DeliverWait PROVE LocksKept
    BY <1>31 DEF DeliverWait, LocksKept
<1>32. ASSUME DeliverOutput PROVE LocksKept
    BY <1>32 DEF DeliverOutput, LocksKept
<1>33. ASSUME DeliverCount PROVE LocksKept
    BY <1>33 DEF DeliverCount, LocksKept
<1>34. ASSUME DeliverSignal PROVE LocksKept
    BY <1>34 DEF DeliverSignal, LocksKept
<1>35. ASSUME NEW s \in Surfaces, LibraryUnlocks(s) PROVE LocksKept
    BY <1>35 DEF LibraryUnlocks, LocksKept
<1>36. ASSUME UNCHANGED vars PROVE LocksKept
    BY <1>36 DEF vars, LocksKept
<1> HIDE DEF LocksKept
<1> QED
    BY <1>3, <1>4, <1>5, <1>6, <1>7, <1>8, <1>9, <1>10, <1>11, <1>12, <1>13, <1>14,
       <1>15, <1>16, <1>17, <1>18, <1>19, <1>20, <1>21, <1>22, <1>23, <1>24, <1>25,
       <1>26, <1>27, <1>28, <1>29, <1>30, <1>31, <1>32, <1>33, <1>34, <1>35, <1>36
       DEF Next, MainThread, DeliverLoop, Done

THEOREM LocksHold == Spec => []Locks
<1>1. Control /\ Pools /\ Delivery /\ Locks /\ [Next]_vars => Locks'
    BY LocksStep
<1> QED  BY <1>1, LocksInitially, PoolsHold, DeliveryHolds, PTL DEF Spec

(* The render lock that both threads change is the number of places the    *)
(* surface waits in: no lock leaks, which would starve the decoder, and    *)
(* none is dropped early.                                                  *)
THEOREM RenderLocksCount == Spec => []RenderLockCountsOutputs
<1>1. Delivery /\ Locks => RenderLockCountsOutputs
    BY QueuedIsWaiting DEF Delivery, Locks, LocksCount, RenderLockCountsOutputs
<1> QED  BY <1>1, LocksHold, DeliveryHolds, PTL

(* TypeOK, for every value of the constants.                               *)
THEOREM TypeCorrect == Spec => []TypeOK
<1>1. Control /\ Pools /\ Delivery /\ OutputQueue /\ Locks => TypeOK
  <2> SUFFICES ASSUME Control, Pools, Delivery, OutputQueue, Locks PROVE TypeOK
    OBVIOUS
  <2>1. renderLock \in [Surfaces -> Nat]
    <3>1. ASSUME NEW s \in Surfaces PROVE renderLock[s] \in Nat
      <4>1. renderLock[s] = Waiting(s) /\ OutputTypes
        BY DEF Locks, LocksCount, Delivery
      <4> QED  BY <4>1, WaitingNat DEF Waiting
    <3> QED  BY <3>1 DEF Pools, LibraryIn
  <2>2. outCount \in Nat
    BY PipelineAssumption DEF OutputQueue, QueueCounted
  <2>3. ControlTypes /\ StreamTypes /\ DecoderTypes /\ OutputTypes /\ ThreadTypes
    BY DEF Control, Pools, LibraryIn, Delivery
  <2> QED  BY <2>1, <2>2, <2>3 DEF TypeOK, BufferTypes
<1> QED  BY <1>1, LocksHold, QueueHolds, DeliveryHolds, PoolsHold, PTL

----------------------------------------------------------------------------
(* The surfaces of earlier allocations.  A reset frees the queues, and the *)
(* surface that SyncOperation failed on is the only one that outlives it;  *)
(* after a GPU hang there is a reset only when all frames are delivered,   *)
(* and then nothing is synchronised any more.                              *)

SyncHung ==
    \/ pc = "return" /\ res = "gpu_hang"
    \/ pc \in {"top", "drained", "wait", "end", "join", "app", "done"} /\ sts = "gpu_hang"
    \/ pc \in {"start", "top", "end", "join", "app", "done"} /\ output >= FrameLimit

Hung == NothingStale /\ curOut # NoOutput => SyncHung

CurrentOutputs ==
    /\ \A o \in Range(outPool) : o.alloc = alloc
    /\ NoStaleSurface => \A o \in Range(delivPool) : o.alloc = alloc
    /\ NoStaleSurface /\ curOut # NoOutput =>
           curOut.alloc = alloc \/ (SyncHung /\ pc # "return")
    /\ dcur # NoOutput => dcur.alloc = alloc

Current == Hung /\ CurrentOutputs

(* The configuration stays, and so does the allocation unless the decoder  *)
(* is reset.                                                               *)
LEMMA ConfigurationKept ==
    ASSUME Control, [Next]_vars
    PROVE  /\ opt' = opt
           /\ ResetDecoder \/ alloc' = alloc
           /\ ResetDecoder => alloc' = alloc + 1
           /\ NothingStale' = NothingStale /\ Rendering' = Rendering
           /\ FrameLimit' = FrameLimit /\ VppIsUsed' = VppIsUsed /\ NumFrames' = NumFrames
           /\ NoStaleSurface' => NoStaleSurface
           /\ ResetDecoder /\ NoStaleSurface' => NothingStale
<1> USE DEF ctlVars, loopVars, inVars, decVars, poolVars, outVars, delivVars, thrVars,
            cntVars
<1>1. opt' = opt
  BY DEF Next, MainThread, DeliverLoop, Done, vars, StartRun, LeaveLoop, ReadNextFrame,
         TakeSurfaces, DecodeFrameAsync, NeedsMoreData, PullBuffered, DecodeTrouble,
         SyncNothing, SyncFails, SyncForDelivery, ResetEvent, PostDelivered,
         SyncAndDeliver, StuckReturns, CompareCounts, TimedWait, BusyReturns,
         DrainReturns, Drained, WaitDelivered, EndRun, JoinDelivery, Exit, ResetDecoder,
         DeliverTest, DeliverWait, DeliverTake, DeliverOutput, DeliverReturn,
         DeliverCount, DeliverSignal, LibraryUnlocks
<1>2. ResetDecoder \/ alloc' = alloc
  BY DEF Next, MainThread, DeliverLoop, Done, vars, StartRun, LeaveLoop, ReadNextFrame,
         TakeSurfaces, DecodeFrameAsync, NeedsMoreData, PullBuffered, DecodeTrouble,
         SyncNothing, SyncFails, SyncForDelivery, ResetEvent, PostDelivered,
         SyncAndDeliver, StuckReturns, CompareCounts, TimedWait, BusyReturns,
         DrainReturns, Drained, WaitDelivered, EndRun, JoinDelivery, Exit,
         DeliverTest, DeliverWait, DeliverTake, DeliverOutput, DeliverReturn,
         DeliverCount, DeliverSignal, LibraryUnlocks
<1>3. ResetDecoder => alloc' = alloc + 1
    BY DEF ResetDecoder
<1>4. alloc \in Nat /\ alloc # 0
    BY DEF Control, ThreadTypes
<1>5. /\ NothingStale' = NothingStale /\ Rendering' = Rendering
      /\ FrameLimit' = FrameLimit /\ VppIsUsed' = VppIsUsed /\ NumFrames' = NumFrames
    BY <1>1 DEF NothingStale, Rendering, FrameLimit, VppIsUsed, NumFrames
<1>6. NoStaleSurface <=> alloc = 1 \/ NothingStale
    BY DEF NoStaleSurface, NothingStale
<1>7. NoStaleSurface' <=> alloc' = 1 \/ NothingStale
    BY <1>5 DEF NoStaleSurface, NothingStale
<1> QED  BY <1>1, <1>2, <1>3, <1>4, <1>5, <1>6, <1>7

LEMMA HungStep ==
    ASSUME Control, Hung, [Next]_vars
    PROVE  Hung'
<1> USE DEF ctlVars, loopVars, inVars, decVars, poolVars, outVars, delivVars, thrVars,
            cntVars
<1>1. /\ NothingStale' = NothingStale /\ FrameLimit' = FrameLimit
      /\ output \in Nat /\ output' \in Nat /\ FrameLimit \in Nat
  <2>1. Control'
    BY ControlStep
  <2> QED  BY <2>1, ConfigurationKept, ConfigurationFacts DEF Control, StreamTypes, ThreadTypes
<1> SUFFICES ASSUME NothingStale, curOut' # NoOutput PROVE SyncHung'
    BY <1>1 DEF Hung
<1>2. curOut # NoOutput => SyncHung
    BY DEF Hung
<1>3. ASSUME UNCHANGED <<pc, sts, res, curOut>>, output' >= output PROVE SyncHung'
    BY <1>1, <1>2, <1>3 DEF SyncHung
<1>4. CASE DeliverLoop
  <2>1. UNCHANGED <<pc, sts, res, curOut>>
    BY <1>4 DEF DeliverLoop, DeliverTest, DeliverWait, DeliverTake, DeliverOutput,
                DeliverReturn, DeliverCount, DeliverSignal
  <2>2. output' = output \/ output' = output + 1
    BY <1>4 DEF DeliverLoop, DeliverTest, DeliverWait, DeliverTake, DeliverOutput,
                DeliverReturn, DeliverCount, DeliverSignal
  <2>3. output' >= output
    BY <1>1, <2>2
  <2> QED  BY <1>3, <2>1, <2>3
<1>5. CASE StartRun
    BY <1>1, <1>2, <1>5 DEF StartRun, SyncHung
<1>6. CASE LeaveLoop
    BY <1>1, <1>2, <1>6 DEF LeaveLoop, SyncHung
<1>7. CASE ReadNextFrame
  <2>1. pc = "top" /\ sts \in Going /\ FrameLimit > output /\ curOut' = curOut
    BY <1>7 DEF ReadNextFrame, LoopGoesOn
  <2> QED  BY <1>1, <1>2, <2>1 DEF SyncHung, Going
<1>8. CASE \/ TakeSurfaces \/ DecodeFrameAsync \/ NeedsMoreData \/ PullBuffered
           \/ DecodeTrouble \/ SyncNothing \/ ResetEvent \/ PostDelivered
           \/ CompareCounts \/ TimedWait
  <2>1. /\ pc \in {"take", "decode", "sync", "reset", "post", "counts", "timed_wait"}
        /\ curOut' = curOut
    BY <1>8 DEF TakeSurfaces, DecodeFrameAsync, NeedsMoreData, PullBuffered, DecodeTrouble,
                SyncNothing, ResetEvent, PostDelivered, CompareCounts, TimedWait
  <2> QED  BY <1>2, <2>1 DEF SyncHung
<1>9. CASE SyncFails
  <2>1. pc' = "return" /\ res' = "gpu_hang"
    BY <1>9 DEF SyncFails, Fault, NothingStale
  <2> QED  BY <2>1 DEF SyncHung
<1>10. CASE SyncForDelivery \/ SyncAndDeliver
    BY <1>10 DEF SyncForDelivery, SyncAndDeliver
<1>11. CASE StuckReturns
    BY <1>2, <1>11 DEF StuckReturns, SyncHung
<1>12. CASE BusyReturns
    BY <1>2, <1>12 DEF BusyReturns, SyncHung, Warnings
<1>13. CASE DrainReturns
    BY <1>2, <1>13 DEF DrainReturns, SyncHung
<1>14. CASE Drained
    BY <1>1, <1>2, <1>14 DEF Drained, SyncHung
<1>15. CASE WaitDelivered
    BY <1>1, <1>2, <1>15 DEF WaitDelivered, SyncHung
<1>16. CASE EndRun
    BY <1>1, <1>2, <1>16 DEF EndRun, SyncHung
<1>17. CASE JoinDelivery
    BY <1>1, <1>2, <1>17 DEF JoinDelivery, SyncHung
<1>18. CASE Exit
    BY <1>1, <1>2, <1>18 DEF Exit, SyncHung
<1>19. CASE ResetDecoder
  <2>1. /\ pc = "app" /\ sts # "gpu_hang" /\ pc' \in {"start", "done"}
        /\ UNCHANGED <<curOut, output>>
    BY <1>19 DEF ResetDecoder, Recoverable, RunStatus, Errors
  <2> QED  BY <1>1, <1>2, <2>1 DEF SyncHung
<1>20. CASE \E s \in Surfaces : LibraryUnlocks(s)
    BY <1>1, <1>3, <1>20 DEF LibraryUnlocks
<1>21. CASE UNCHANGED vars
    BY <1>1, <1>3, <1>21 DEF vars
<1> QED
    BY <1>4, <1>5, <1>6, <1>7, <1>8, <1>9, <1>10, <1>11, <1>12, <1>13, <1>14, <1>15,
       <1>16, <1>17, <1>18, <1>19, <1>20, <1>21 DEF Next, MainThread, Done

(* The surface that is synchronised is of the current allocation.          *)
LEMMA OldestIsCurrent ==
    ASSUME OutputTypes, CurrentOutputs, NoStaleSurface, pc = "sync",
           curOut # NoOutput \/ outPool # <<>>
    PROVE  Oldest.alloc = alloc
<1>1. CASE curOut # NoOutput
    BY <1>1 DEF CurrentOutputs, SyncHung, Oldest
<1>2. CASE curOut = NoOutput
  <2>1. outPool # <<>> /\ outPool \in Seq(Output)
    BY <1>2 DEF OutputTypes
  <2>2. Head(outPool) \in Range(outPool)
    BY <2>1, TailElements
  <2> QED  BY <1>2, <2>2 DEF CurrentOutputs, Oldest
<1> QED  BY <1>1, <1>2

(* ... and those that stay in the queue are among those it held.           *)
LEMMA TakenRange ==
    ASSUME OutputTypes, TakeOldest, curOut # NoOutput \/ outPool # <<>>
    PROVE  Range(outPool') \subseteq Range(outPool)
<1>1. CASE curOut # NoOutput
    BY <1>1 DEF TakeOldest
<1>2. CASE curOut = NoOutput
  <2>1. outPool # <<>> /\ outPool \in Seq(Output) /\ outPool' = Tail(outPool)
    BY <1>2 DEF OutputTypes, TakeOldest
  <2> QED  BY <2>1, TailElements
<1> QED  BY <1>1, <1>2

(* The steps that neither move a surface between the queues nor hold one.  *)
LEMMA CurrentKept ==
    ASSUME Control, CurrentOutputs, [Next]_vars, UNCHANGED <<outPool, delivPool, dcur, alloc>>,
           curOut' = curOut, SyncHung /\ pc # "return" => SyncHung' /\ pc' # "return"
    PROVE  CurrentOutputs'
<1>1. NoStaleSurface' => NoStaleSurface
    BY ConfigurationKept
<1> QED  BY <1>1 DEF CurrentOutputs

LEMMA CurrentOutputsStep ==
    ASSUME Control, Pools, Delivery, Hung, CurrentOutputs, [Next]_vars
    PROVE  CurrentOutputs'
<1> USE DEF ctlVars, loopVars, inVars, decVars, poolVars, outVars, delivVars, thrVars,
            cntVars
<1>1. /\ opt' = opt /\ NothingStale' = NothingStale /\ FrameLimit' = FrameLimit
      /\ NoStaleSurface' => NoStaleSurface
      /\ ResetDecoder \/ alloc' = alloc
      /\ output \in Nat /\ output' \in Nat /\ FrameLimit \in Nat /\ alloc \in Nat
  <2>1. Control'
    BY ControlStep
  <2> QED  BY <2>1, ConfigurationKept, ConfigurationFacts DEF Control, StreamTypes, ThreadTypes
<1>2. OutputTypes /\ outPool \in Seq(Output) /\ delivPool \in Seq(Output)
    BY DEF Delivery, OutputTypes
<1> DEFINE Still == /\ UNCHANGED <<outPool, delivPool, dcur, alloc, curOut>>
                    /\ SyncHung /\ pc # "return" => SyncHung' /\ pc' # "return"
<1>3. CASE Still
    BY <1>3, CurrentKept
<1>4. CASE DecodeFrameAsync \/ PullBuffered
  <2>1. UNCHANGED <<curOut, delivPool, dcur, alloc>> /\ pc = "decode"
    BY <1>4 DEF DecodeFrameAsync, PullBuffered
  <2>2. \A o \in Range(outPool') : o.alloc = alloc
    <3>1. CASE \E t \in Surfaces : QueueOutput(t)
      <4>1. PICK t \in Surfaces : QueueOutput(t)
        BY <3>1
      <4>2. outPool' = Append(outPool, Mark(t)) /\ Mark(t) \in Output /\ Mark(t).alloc = alloc
        BY <4>1, MarkIsOutput DEF QueueOutput, Mark
      <4>3. Range(outPool') = Range(outPool) \cup {Mark(t)}
        BY <1>2, <4>2, AppendElements
      <4> QED  BY <4>2, <4>3 DEF CurrentOutputs
    <3>2. CASE outPool' = outPool
      BY <3>2 DEF CurrentOutputs
    <3> QED  BY <1>4, <3>1, <3>2, DecodeOutputs
  <2>3. ~ SyncHung
    BY <2>1 DEF SyncHung
  <2> QED  BY <1>1, <2>1, <2>2, <2>3 DEF CurrentOutputs
<1>5. CASE SyncFails
  <2>1. /\ curOut # NoOutput \/ outPool # <<>>
        /\ pc = "sync" /\ curOut' = Oldest /\ TakeOldest /\ UNCHANGED <<delivPool, dcur, alloc>>
    BY <1>5 DEF SyncFails
  <2>2. Range(outPool') \subseteq Range(outPool)
    BY <1>2, <2>1, TakenRange
  <2>3. NoStaleSurface => Oldest.alloc = alloc
    BY <1>2, <2>1, OldestIsCurrent
  <2> QED  BY <1>1, <2>1, <2>2, <2>3 DEF CurrentOutputs
<1>6. CASE SyncForDelivery
  <2>1. /\ curOut # NoOutput \/ outPool # <<>>
        /\ pc = "sync" /\ curOut' = NoOutput /\ TakeOldest /\ UNCHANGED <<dcur, alloc>>
        /\ delivPool' = Append(delivPool, Oldest)
    BY <1>6 DEF SyncForDelivery
  <2>2. Range(outPool') \subseteq Range(outPool)
    BY <1>2, <2>1, TakenRange
  <2>3. NoStaleSurface => Oldest.alloc = alloc
    BY <1>2, <2>1, OldestIsCurrent
  <2>4. Range(delivPool') = Range(delivPool) \cup {Oldest}
    BY <1>2, <2>1, OldestOutput, AppendElements
  <2> QED  BY <1>1, <2>1, <2>2, <2>3, <2>4 DEF CurrentOutputs
<1>7. CASE SyncAndDeliver
  <2>1. /\ curOut # NoOutput \/ outPool # <<>>
        /\ curOut' = NoOutput /\ TakeOldest /\ UNCHANGED <<delivPool, dcur, alloc>>
    BY <1>7 DEF SyncAndDeliver
  <2>2. Range(outPool') \subseteq Range(outPool)
    BY <1>2, <2>1, TakenRange
  <2> QED  BY <1>1, <2>1, <2>2 DEF CurrentOutputs
<1>8. CASE DeliverTake
  <2>1. /\ delivPool # <<>> /\ dcur' = Head(delivPool) /\ delivPool' = Tail(delivPool)
        /\ UNCHANGED <<outPool, curOut, alloc, pc, sts, res, output>>
    BY <1>8 DEF DeliverTake, Delivery, PostsMatchQueue
  <2>2. NoStaleSurface
    <3>1. alloc = 1
      BY <1>1, <1>8 DEF DeliverTake, Delivery, DeliveryThread, Control
    <3> QED  BY <3>1 DEF NoStaleSurface
  <2>3. Range(delivPool) = Range(Tail(delivPool)) \cup {Head(delivPool)}
    BY <1>2, <2>1, TailElements
  <2>4. dcur'.alloc = alloc /\ \A o \in Range(delivPool') : o.alloc = alloc
    BY <2>1, <2>2, <2>3 DEF CurrentOutputs
  <2>5. SyncHung' = SyncHung
    BY <1>1, <2>1 DEF SyncHung
  <2> QED  BY <1>1, <2>1, <2>4, <2>5 DEF CurrentOutputs
<1>9. CASE DeliverReturn
  <2>1. dcur' = NoOutput /\ UNCHANGED <<outPool, delivPool, curOut, alloc, pc, sts, res, output>>
    BY <1>9 DEF DeliverReturn
  <2>2. SyncHung' = SyncHung
    BY <1>1, <2>1 DEF SyncHung
  <2> QED  BY <1>1, <2>1, <2>2 DEF CurrentOutputs
<1>10. CASE ResetDecoder
  <2>1. /\ outPool' = <<>> /\ delivPool' = <<>> /\ UNCHANGED <<curOut, dcur>>
        /\ pc' \in {"start", "done"}
    BY <1>10 DEF ResetDecoder
  <2>2. dcur = NoOutput
    BY <1>10 DEF ResetDecoder, Delivery, DeliveryThread
  <2>3. Range(outPool') = {} /\ Range(delivPool') = {}
    <3> DEFINE e == <<>>
    <3>1. e \in Seq(Output) /\ Len(e) = 0
      BY EmptySeq
    <3> HIDE DEF e
    <3>2. Range(e) = {e[i] : i \in 1..Len(e)}
      BY <3>1, RangeEquality
    <3>3. Range(e) = {}
      BY <3>1, <3>2
    <3> QED  BY <2>1, <3>3 DEF e
  <2>4. NoStaleSurface' /\ curOut' # NoOutput => SyncHung'
    BY <1>10, <2>1, ConfigurationKept, HungStep DEF Hung
  <2> QED  BY <2>1, <2>2, <2>3, <2>4 DEF CurrentOutputs
<1>11. ASSUME StartRun PROVE Still
    BY <1>1, <1>11 DEF StartRun, SyncHung
<1>12. ASSUME LeaveLoop PROVE Still
    BY <1>1, <1>12 DEF LeaveLoop, SyncHung
<1>13. ASSUME ReadNextFrame PROVE Still
  <2>1. pc = "top" /\ sts \in Going /\ FrameLimit > output
        /\ UNCHANGED <<outPool, delivPool, dcur, alloc, curOut>>
    BY <1>13 DEF ReadNextFrame, LoopGoesOn
  <2> QED  BY <1>1, <2>1 DEF SyncHung, Going
<1>14. ASSUME \/ TakeSurfaces \/ NeedsMoreData \/ DecodeTrouble \/ SyncNothing \/ ResetEvent
              \/ PostDelivered \/ CompareCounts \/ TimedWait
       PROVE Still
  <2>1. /\ pc \in {"take", "decode", "sync", "reset", "post", "counts", "timed_wait"}
        /\ UNCHANGED <<outPool, delivPool, dcur, alloc, curOut>>
    BY <1>14 DEF TakeSurfaces, NeedsMoreData, DecodeTrouble, SyncNothing, ResetEvent,
                 PostDelivered, CompareCounts, TimedWait
  <2> QED  BY <2>1 DEF SyncHung
<1>15. ASSUME StuckReturns \/ BusyReturns \/ DrainReturns PROVE Still
  <2>1. pc = "return" /\ UNCHANGED <<outPool, delivPool, dcur, alloc, curOut>>
    BY <1>15 DEF StuckReturns, BusyReturns, DrainReturns
  <2> QED  BY <2>1
<1>16. ASSUME Drained PROVE Still
    BY <1>1, <1>16 DEF Drained, SyncHung
<1>17. ASSUME WaitDelivered PROVE Still
    BY <1>1, <1>17 DEF WaitDelivered, SyncHung
<1>18. ASSUME EndRun PROVE Still
    BY <1>1, <1>18 DEF EndRun, SyncHung
<1>19. ASSUME JoinDelivery PROVE Still
    BY <1>1, <1>19 DEF JoinDelivery, SyncHung
<1>20. ASSUME Exit PROVE Still
    BY <1>1, <1>20 DEF Exit, SyncHung
<1>21. ASSUME DeliverTest \/ DeliverWait \/ DeliverOutput \/ DeliverSignal PROVE Still
    BY <1>1, <1>21 DEF DeliverTest, DeliverWait, DeliverOutput, DeliverSignal, SyncHung
<1>22. ASSUME DeliverCount PROVE Still
  <2>1. output' = output + 1 /\ UNCHANGED <<outPool, delivPool, dcur, alloc, curOut, pc, sts, res>>
    BY <1>22 DEF DeliverCount
  <2> QED  BY <1>1, <2>1 DEF SyncHung
<1>23. ASSUME NEW s \in Surfaces, LibraryUnlocks(s) PROVE Still
    BY <1>1, <1>23 DEF LibraryUnlocks, SyncHung
<1>24. ASSUME UNCHANGED vars PROVE Still
    BY <1>1, <1>24 DEF vars, SyncHung
<1> HIDE DEF Still
<1> QED
    BY <1>3, <1>4, <1>5, <1>6, <1>7, <1>8, <1>9, <1>10, <1>11, <1>12, <1>13, <1>14, <1>15,
       <1>16, <1>17, <1>18, <1>19, <1>20, <1>21, <1>22, <1>23, <1>24
       DEF Next, MainThread, DeliverLoop, Done

LEMMA CurrentInitially == Init => Current
<1> SUFFICES ASSUME Init PROVE Current
    OBVIOUS
<1> DEFINE e == <<>>
<1>1. outPool = e /\ delivPool = e /\ curOut = NoOutput /\ dcur = NoOutput
    BY Zenon DEF Init
<1>2. e \in Seq(Output) /\ Len(e) = 0
    BY EmptySeq
<1> HIDE DEF e
<1>3. Range(e) = {e[i] : i \in 1..Len(e)}
    BY <1>2, RangeEquality
<1>4. Range(e) = {}
    BY <1>2, <1>3
<1> QED  BY <1>1, <1>4 DEF Current, Hung, CurrentOutputs

THEOREM CurrentHolds == Spec => []Current
<1>1. Control /\ Pools /\ Delivery /\ Current /\ [Next]_vars => Current'
    BY HungStep, CurrentOutputsStep DEF Current
<1> QED  BY <1>1, CurrentInitially, PoolsHold, DeliveryHolds, PTL DEF Spec

----------------------------------------------------------------------------
(* The order of the frames.  A frame moves from the decoder library to the *)
(* output queue, to the surface being synchronised, to the delivery queue, *)
(* to the delivery thread and to the output.  At every moment what is      *)
(* further on is older.                                                    *)

\* the frame in each output surface
FrameIn(cont) == [o \in Output |-> cont[o.surf]]

\* the frames of a queue, where c maps an element to its frame
Frames(c, q) == {c[x] : x \in Range(q)}

Rising(c, q) == \A i, j \in 1..Len(q) : i < j => c[q[i]] < c[q[j]]

Below(A, B) == \A x \in A, y \in B : x < y

InLine(A, B, C, D, E, F) ==
    /\ Below(A, B) /\ Below(A, C) /\ Below(A, D) /\ Below(A, E) /\ Below(A, F)
    /\ Below(B, C) /\ Below(B, D) /\ Below(B, E) /\ Below(B, F)
    /\ Below(C, D) /\ Below(C, E) /\ Below(C, F)
    /\ Below(D, E) /\ Below(D, F) /\ Below(E, F)

(* The line: out was delivered, the frames of B are in the delivery        *)
(* thread, those of D are being synchronised, dq, oq and fq are the        *)
(* delivery queue, the output queue and the queue of the decoder, and n    *)
(* frames were decoded.                                                    *)
Ordered(cont, out, B, dq, D, oq, fq, n) ==
    /\ Rising(FrameIn(cont), dq) /\ Rising(FrameIn(cont), oq) /\ Rising(cont, fq)
    /\ B \cup Frames(FrameIn(cont), dq) \subseteq 1..n
    /\ D \cup Frames(FrameIn(cont), oq) \cup Frames(cont, fq) \subseteq 1..n
    /\ InLine(Range(out), B, Frames(FrameIn(cont), dq), D, Frames(FrameIn(cont), oq),
              Frames(cont, fq))

InDelivery == {FrameIn(content)[o] : o \in {x \in {dcur} \cap Output : dpc = "deliver"}}
InSync == {FrameIn(content)[o] : o \in {x \in {curOut} \cap Output : x.alloc = alloc}}

QueuesInOrder ==
    Ordered(content, delivered, InDelivery, delivPool, InSync, outPool, decQ, consumed)

Itself == [n \in 0..NumFrames |-> n]

OrderInv ==
    /\ Rendering \/ NoStaleSurface =>
           Rising(Itself, delivered) /\ Range(delivered) \subseteq 1..consumed
    /\ NoStaleSurface => QueuesInOrder

----------------------------------------------------------------------------
(* A frame that moves on by one place keeps the line.                      *)

LEMMA RisingTail ==
    ASSUME NEW c, NEW S, NEW q \in Seq(S), q # <<>>, Rising(c, q)
    PROVE  /\ Rising(c, Tail(q))
           /\ \A x \in Range(Tail(q)) : c[Head(q)] < c[x]
<1>1. /\ Head(q) = q[1] /\ Tail(q) \in Seq(S)
      /\ Len(q) \in Nat \ {0} /\ Len(Tail(q)) = Len(q) - 1
      /\ \A i \in 1..Len(Tail(q)) : Tail(q)[i] = q[i + 1]
    BY TailElements
<1>2. Range(Tail(q)) = {Tail(q)[i] : i \in 1..Len(Tail(q))}
    BY <1>1, RangeEquality
<1>3. \A i \in 1..Len(Tail(q)) : i + 1 \in 1..Len(q) /\ 1 < i + 1 /\ 1 \in 1..Len(q)
    BY <1>1
<1>4. Rising(c, Tail(q))
  <2> SUFFICES ASSUME NEW i \in 1..Len(Tail(q)), NEW j \in 1..Len(Tail(q)), i < j
               PROVE  c[Tail(q)[i]] < c[Tail(q)[j]]
    BY DEF Rising
  <2>1. i + 1 < j + 1
    OBVIOUS
  <2> QED  BY <1>1, <1>3, <2>1 DEF Rising
<1> QED  BY <1>1, <1>2, <1>3, <1>4 DEF Rising

LEMMA RisingAppend ==
    ASSUME NEW c, NEW S, NEW q \in Seq(S), NEW x \in S, Rising(c, q),
           \A y \in Range(q) : c[y] < c[x]
    PROVE  Rising(c, Append(q, x))
<1> DEFINE r == Append(q, x)
<1>1. /\ Len(q) \in Nat /\ Len(r) = Len(q) + 1
      /\ \A i \in 1..Len(q) : r[i] = q[i]
      /\ r[Len(q) + 1] = x
    BY AppendElements
<1>2. Range(q) = {q[i] : i \in 1..Len(q)}
    BY RangeEquality
<1> HIDE DEF r
<1> SUFFICES ASSUME NEW i \in 1..Len(r), NEW j \in 1..Len(r), i < j
             PROVE  c[r[i]] < c[r[j]]
    BY DEF Rising, r
<1>3. i \in 1..Len(q)
    BY <1>1
<1>4. CASE j \in 1..Len(q)
    BY <1>1, <1>3, <1>4 DEF Rising
<1>5. CASE j = Len(q) + 1
  <2>1. r[j] = x /\ r[i] \in Range(q)
    BY <1>1, <1>2, <1>3, <1>5
  <2> QED  BY <2>1
<1> QED  BY <1>1, <1>4, <1>5

(* Only the frames of the queue matter.                                    *)
LEMMA FramesSame ==
    ASSUME NEW c, NEW d, NEW S, NEW q \in Seq(S), \A x \in Range(q) : c[x] = d[x]
    PROVE  Frames(c, q) = Frames(d, q) /\ (Rising(c, q) => Rising(d, q))
<1>1. Range(q) = {q[i] : i \in 1..Len(q)}
    BY RangeEquality
<1>2. \A i \in 1..Len(q) : c[q[i]] = d[q[i]]
    BY <1>1
<1> QED  BY <1>2 DEF Frames, Rising

LEMMA FramesAppend ==
    ASSUME NEW c, NEW S, NEW q \in Seq(S), NEW x \in S
    PROVE  Frames(c, Append(q, x)) = Frames(c, q) \cup {c[x]}
<1>1. Range(Append(q, x)) = Range(q) \cup {x}
    BY AppendElements
<1> QED  BY <1>1 DEF Frames

LEMMA FramesTail ==
    ASSUME NEW c, NEW S, NEW q \in Seq(S), q # <<>>, Rising(c, q)
    PROVE  /\ Rising(c, Tail(q)) /\ Tail(q) \in Seq(S)
           /\ Head(q) \in S /\ c[Head(q)] \in Frames(c, q)
           /\ Frames(c, Tail(q)) \subseteq Frames(c, q)
           /\ \A y \in Frames(c, Tail(q)) : c[Head(q)] < y
<1>1. Range(q) = Range(Tail(q)) \cup {Head(q)} /\ Head(q) \in S /\ Tail(q) \in Seq(S)
    BY TailElements
<1>2. Rising(c, Tail(q)) /\ \A x \in Range(Tail(q)) : c[Head(q)] < c[x]
    BY RisingTail
<1> QED  BY <1>1, <1>2 DEF Frames

LEMMA FramesEmpty == ASSUME NEW c PROVE Frames(c, <<>>) = {} /\ Rising(c, <<>>)
<1> DEFINE e == <<>>
<1>1. e \in Seq({}) /\ Len(e) = 0
    BY EmptySeq
<1> HIDE DEF e
<1>2. Range(e) = {e[i] : i \in 1..Len(e)}
    BY <1>1, RangeEquality
<1>3. Range(e) = {}
    BY <1>1, <1>2
<1>4. Frames(c, e) = {} /\ Rising(c, e)
    BY <1>1, <1>3 DEF Frames, Rising
<1> QED  BY <1>4 DEF e

(* The surfaces in use keep their frames.                                  *)
LEMMA OrderedSame ==
    ASSUME NEW c, NEW d, NEW out, NEW B, NEW dq \in Seq(Output), NEW D, NEW oq \in Seq(Output),
           NEW fq \in Seq(DecoderSurfaces), NEW n, Ordered(c, out, B, dq, D, oq, fq, n),
           \A o \in Range(dq) : c[o.surf] = d[o.surf],
           \A o \in Range(oq) : c[o.surf] = d[o.surf],
           \A s \in Range(fq) : c[s] = d[s]
    PROVE  Ordered(d, out, B, dq, D, oq, fq, n)
<1>1. ASSUME NEW q \in Seq(Output), \A o \in Range(q) : c[o.surf] = d[o.surf]
      PROVE  \A o \in Range(q) : FrameIn(c)[o] = FrameIn(d)[o]
  <2>1. Range(q) \subseteq Output
    <3>1. Range(q) = {q[i] : i \in 1..Len(q)}
      BY RangeEquality
    <3>2. \A i \in 1..Len(q) : q[i] \in Output
      BY ElementOfSeq
    <3> QED  BY <3>1, <3>2
  <2> QED  BY <1>1, <2>1 DEF FrameIn
<1>2. /\ Frames(FrameIn(c), dq) = Frames(FrameIn(d), dq)
      /\ Rising(FrameIn(c), dq) => Rising(FrameIn(d), dq)
    BY <1>1, FramesSame
<1>3. /\ Frames(FrameIn(c), oq) = Frames(FrameIn(d), oq)
      /\ Rising(FrameIn(c), oq) => Rising(FrameIn(d), oq)
    BY <1>1, FramesSame
<1>4. Frames(c, fq) = Frames(d, fq) /\ (Rising(c, fq) => Rising(d, fq))
    BY FramesSame
<1> QED  BY <1>2, <1>3, <1>4 DEF Ordered

(* A frame is decoded,                                                     *)
LEMMA OrderedDecode ==
    ASSUME NEW c, NEW out, NEW B, NEW dq \in Seq(Output), NEW D, NEW oq \in Seq(Output),
           NEW fq \in Seq(DecoderSurfaces), NEW n \in Nat, NEW s \in DecoderSurfaces,
           Ordered(c, out, B, dq, D, oq, fq, n), Range(out) \subseteq 1..n, c[s] = n + 1
    PROVE  Ordered(c, out, B, dq, D, oq, Append(fq, s), n + 1)
<1> DEFINE C == Frames(FrameIn(c), dq)
           E == Frames(FrameIn(c), oq)
           F == Frames(c, fq)
<1>1. Frames(c, Append(fq, s)) = F \cup {n + 1}
  <2>1. Range(Append(fq, s)) = Range(fq) \cup {s}
    BY AppendElements
  <2> QED  BY <2>1 DEF Frames
<1>2. /\ \A y \in Range(out) \cup B \cup C \cup D \cup E \cup F : y < n + 1
      /\ B \cup C \subseteq 1..(n + 1) /\ D \cup E \cup F \cup {n + 1} \subseteq 1..(n + 1)
    BY DEF Ordered
<1>3. Rising(c, Append(fq, s))
  <2>1. \A y \in Range(fq) : c[y] < c[s]
    BY <1>2 DEF Frames
  <2> QED  BY <2>1, RisingAppend DEF Ordered
<1>4. InLine(Range(out), B, C, D, E, F)
    BY DEF Ordered
<1>5. InLine(Range(out), B, C, D, E, F \cup {n + 1})
  <2> HIDE DEF C, E, F
  <2> QED  BY ZenonT(60), <1>2, <1>4 DEF InLine, Below
<1> QED  BY <1>1, <1>2, <1>3, <1>5 DEF Ordered

(* ... lost in the decoder or its processing, or output,                   *)
LEMMA OrderedEmit ==
    ASSUME NEW c, NEW out, NEW B, NEW dq \in Seq(Output), NEW D, NEW oq \in Seq(Output),
           NEW fq \in Seq(DecoderSurfaces), NEW n, fq # <<>>,
           Ordered(c, out, B, dq, D, oq, fq, n)
    PROVE  /\ Ordered(c, out, B, dq, D, oq, Tail(fq), n)
           /\ \A o \in Output : c[o.surf] = c[Head(fq)] =>
                  Ordered(c, out, B, dq, D, Append(oq, o), Tail(fq), n)
<1> DEFINE C == Frames(FrameIn(c), dq)
           E == Frames(FrameIn(c), oq)
           F == Frames(c, fq)
           G == Frames(c, Tail(fq))
           x == c[Head(fq)]
<1>1. /\ Rising(c, Tail(fq)) /\ x \in F /\ G \subseteq F /\ \A y \in G : x < y
    BY FramesTail DEF Ordered
<1>2. InLine(Range(out), B, C, D, E, F)
    BY DEF Ordered
<1>3. InLine(Range(out), B, C, D, E, G) /\ InLine(Range(out), B, C, D, E \cup {x}, G)
  <2> HIDE DEF C, E, F, G, x
  <2> QED  BY ZenonT(60), <1>1, <1>2 DEF InLine, Below
<1>4. Ordered(c, out, B, dq, D, oq, Tail(fq), n)
    BY <1>1, <1>3 DEF Ordered
<1>5. ASSUME NEW o \in Output, c[o.surf] = x
      PROVE  Ordered(c, out, B, dq, D, Append(oq, o), Tail(fq), n)
  <2>1. FrameIn(c)[o] = x
    BY <1>5 DEF FrameIn
  <2>2. Frames(FrameIn(c), Append(oq, o)) = E \cup {x}
    <3>1. Frames(FrameIn(c), Append(oq, o)) = E \cup {FrameIn(c)[o]}
      BY FramesAppend
    <3> QED  BY <2>1, <3>1
  <2>3. Rising(FrameIn(c), Append(oq, o))
    <3>1. \A y \in Range(oq) : FrameIn(c)[y] < FrameIn(c)[o]
      BY <1>1, <1>2, <2>1 DEF InLine, Below, Frames
    <3> QED  BY <3>1, RisingAppend DEF Ordered
  <2>4. /\ B \cup C \subseteq 1..n /\ D \cup (E \cup {x}) \cup G \subseteq 1..n
        /\ Rising(FrameIn(c), dq)
    BY <1>1 DEF Ordered
  <2> HIDE DEF C, E, F, G, x
  <2> QED  BY <1>1, <1>3, <2>2, <2>3, <2>4 DEF Ordered, C, G
<1> QED  BY <1>4, <1>5

(* ... synchronised,                                                       *)
LEMMA OrderedSync ==
    ASSUME NEW c, NEW out, NEW B, NEW dq \in Seq(Output), NEW oq \in Seq(Output),
           NEW fq \in Seq(DecoderSurfaces), NEW n, oq # <<>>,
           Ordered(c, out, B, dq, {}, oq, fq, n)
    PROVE  Ordered(c, out, B, dq, {FrameIn(c)[Head(oq)]}, Tail(oq), fq, n)
<1> DEFINE C == Frames(FrameIn(c), dq)
           E == Frames(FrameIn(c), oq)
           F == Frames(c, fq)
           G == Frames(FrameIn(c), Tail(oq))
           x == FrameIn(c)[Head(oq)]
<1>1. /\ Rising(FrameIn(c), Tail(oq)) /\ x \in E /\ G \subseteq E /\ \A y \in G : x < y
    BY FramesTail DEF Ordered
<1>2. InLine(Range(out), B, C, {}, E, F)
    BY DEF Ordered
<1>3. InLine(Range(out), B, C, {x}, G, F)
  <2> HIDE DEF C, E, F, G, x
  <2> QED  BY ZenonT(60), <1>1, <1>2 DEF InLine, Below
<1>4. /\ B \cup C \subseteq 1..n /\ {x} \cup G \cup F \subseteq 1..n
      /\ Rising(FrameIn(c), dq) /\ Rising(c, fq)
    BY <1>1 DEF Ordered
<1> QED  BY <1>1, <1>3, <1>4 DEF Ordered

(* ... queued for delivery,                                                *)
LEMMA OrderedQueue ==
    ASSUME NEW c, NEW out, NEW B, NEW dq \in Seq(Output), NEW oq \in Seq(Output),
           NEW fq \in Seq(DecoderSurfaces), NEW n, NEW o \in Output,
           Ordered(c, out, B, dq, {FrameIn(c)[o]}, oq, fq, n)
    PROVE  Ordered(c, out, B, Append(dq, o), {}, oq, fq, n)
<1> DEFINE C == Frames(FrameIn(c), dq)
           E == Frames(FrameIn(c), oq)
           F == Frames(c, fq)
           x == FrameIn(c)[o]
<1>1. InLine(Range(out), B, C, {x}, E, F)
    BY DEF Ordered
<1>2. InLine(Range(out), B, C \cup {x}, {}, E, F)
  <2> HIDE DEF C, E, F, x
  <2> QED  BY ZenonT(60), <1>1 DEF InLine, Below
<1>3. Frames(FrameIn(c), Append(dq, o)) = C \cup {x}
    BY FramesAppend
<1>4. Rising(FrameIn(c), Append(dq, o))
  <2>1. \A y \in Range(dq) : FrameIn(c)[y] < x
    BY <1>1 DEF InLine, Below, Frames
  <2> QED  BY <2>1, RisingAppend DEF Ordered
<1>5. /\ B \cup (C \cup {x}) \subseteq 1..n /\ {} \cup E \cup F \subseteq 1..n
      /\ Rising(FrameIn(c), oq) /\ Rising(c, fq)
    BY DEF Ordered
<1> HIDE DEF C, E, F, x
<1> QED  BY <1>2, <1>3, <1>4, <1>5 DEF Ordered, E, F

(* ... taken by the delivery thread,                                       *)
LEMMA OrderedTake ==
    ASSUME NEW c, NEW out, NEW dq \in Seq(Output), NEW D, NEW oq \in Seq(Output),
           NEW fq \in Seq(DecoderSurfaces), NEW n, dq # <<>>,
           Ordered(c, out, {}, dq, D, oq, fq, n)
    PROVE  Ordered(c, out, {FrameIn(c)[Head(dq)]}, Tail(dq), D, oq, fq, n)
<1> DEFINE C == Frames(FrameIn(c), dq)
           E == Frames(FrameIn(c), oq)
           F == Frames(c, fq)
           G == Frames(FrameIn(c), Tail(dq))
           x == FrameIn(c)[Head(dq)]
<1>1. /\ Rising(FrameIn(c), Tail(dq)) /\ x \in C /\ G \subseteq C /\ \A y \in G : x < y
    BY FramesTail DEF Ordered
<1>2. InLine(Range(out), {}, C, D, E, F)
    BY DEF Ordered
<1>3. InLine(Range(out), {x}, G, D, E, F)
  <2> HIDE DEF C, E, F, G, x
  <2> QED  BY ZenonT(60), <1>1, <1>2 DEF InLine, Below
<1>4. /\ {x} \cup G \subseteq 1..n /\ D \cup E \cup F \subseteq 1..n
      /\ Rising(FrameIn(c), oq) /\ Rising(c, fq)
    BY <1>1 DEF Ordered
<1> QED  BY <1>1, <1>3, <1>4 DEF Ordered

(* ... or delivered, by that thread or, when there is none, at once.       *)
LEMMA OrderedDeliver ==
    ASSUME NEW c, NEW S, NEW out \in Seq(S), NEW B, NEW dq \in Seq(Output), NEW D,
           NEW oq \in Seq(Output), NEW fq \in Seq(DecoderSurfaces), NEW n, NEW x \in S,
           Ordered(c, out, B, dq, D, oq, fq, n),
           B = {x} \/ (B = {} /\ dq = <<>> /\ D = {x})
    PROVE  /\ Ordered(c, Append(out, x), {}, dq, D \ {x}, oq, fq, n)
           /\ x \in 1..n /\ \A y \in Range(out) : y < x
<1> DEFINE C == Frames(FrameIn(c), dq)
           E == Frames(FrameIn(c), oq)
           F == Frames(c, fq)
<1>1. InLine(Range(out), B, C, D, E, F)
    BY DEF Ordered
<1>2. dq = <<>> => C = {}
    BY FramesEmpty
<1>3. InLine(Range(out) \cup {x}, {}, C, D \ {x}, E, F)
  <2> HIDE DEF C, E, F
  <2> QED  BY ZenonT(60), <1>1, <1>2 DEF InLine, Below
<1>4. Range(Append(out, x)) = Range(out) \cup {x}
    BY AppendElements
<1>5. x \in 1..n
    BY DEF Ordered
<1>6. \A y \in Range(out) : y < x
    BY <1>1 DEF InLine, Below
<1>7. /\ {} \cup C \subseteq 1..n /\ (D \ {x}) \cup E \cup F \subseteq 1..n
      /\ Rising(FrameIn(c), dq) /\ Rising(FrameIn(c), oq) /\ Rising(c, fq)
    BY DEF Ordered
<1> HIDE DEF C, E, F
<1> QED  BY <1>3, <1>4, <1>5, <1>6, <1>7 DEF Ordered, C, E, F

LEMMA OrderedLess ==
    ASSUME NEW c, NEW out, NEW B, NEW dq, NEW D, NEW oq, NEW fq, NEW n,
           Ordered(c, out, B, dq, D, oq, fq, n), NEW B1 \in SUBSET B, NEW D1 \in SUBSET D
    PROVE  Ordered(c, out, B1, dq, D1, oq, fq, n)
<1> DEFINE C == Frames(FrameIn(c), dq)
           E == Frames(FrameIn(c), oq)
           F == Frames(c, fq)
<1>1. InLine(Range(out), B, C, D, E, F)
    BY DEF Ordered
<1>2. InLine(Range(out), B1, C, D1, E, F)
  <2> HIDE DEF C, E, F
  <2> QED  BY ZenonT(60), <1>1 DEF InLine, Below
<1> QED  BY <1>2 DEF Ordered

----------------------------------------------------------------------------
(* The surfaces in the line are in use, so that nothing is decoded into    *)
(* them.                                                                   *)

LEMMA MarkedIsBusy ==
    ASSUME Control, OutputTypes, LocksCount, LibraryIn, NEW o \in Output, o.alloc = alloc,
           o \in Range(outPool) \/ o \in Range(delivPool) \/ o = curOut \/ o = dcur
    PROVE  o.surf \in Busy
<1>1. o.surf \in Surfaces /\ Mark(o.surf) = o
    BY DEF Output, Mark
<1>2. /\ renderLock[o.surf] = Occurrences(outPool, o) + Occurrences(delivPool, o)
                                + Is(curOut, o) + Is(dcur, o)
      /\ Occurrences(outPool, o) \in Nat /\ Occurrences(delivPool, o) \in Nat
      /\ Is(curOut, o) \in Nat /\ Is(dcur, o) \in Nat
    BY <1>1, WaitingNat DEF LocksCount, Waiting
<1>3. o \in Range(outPool) => Occurrences(outPool, o) # 0
    BY OccurrencesSome DEF OutputTypes
<1>4. o \in Range(delivPool) => Occurrences(delivPool, o) # 0
    BY OccurrencesSome DEF OutputTypes
<1>5. (o = curOut => Is(curOut, o) = 1) /\ (o = dcur => Is(dcur, o) = 1)
    BY DEF Is
<1>6. renderLock[o.surf] > 0
    BY <1>2, <1>3, <1>4, <1>5
<1> QED  BY <1>1, <1>6 DEF Busy

LEMMA LineIsBusy ==
    ASSUME Control, Pools, OutputTypes, LocksCount, CurrentOutputs, NoStaleSurface
    PROVE  /\ \A o \in Range(outPool) : o.surf \in Busy
           /\ \A o \in Range(delivPool) : o.surf \in Busy
           /\ dcur \in Output => dcur.surf \in Busy
           /\ curOut \in Output /\ curOut.alloc = alloc => curOut.surf \in Busy
           /\ Range(decQ) \subseteq Busy /\ Range(decQ) \subseteq DecoderSurfaces
<1>1. LibraryIn /\ outPool \in Seq(Output) /\ delivPool \in Seq(Output)
      /\ decQ \in Seq(DecoderSurfaces) /\ Range(decQ) \subseteq libLock
    BY DEF Pools, LibraryIn, DecoderTypes, OutputTypes
<1>2. ASSUME NEW S, NEW q \in Seq(S) PROVE Range(q) \subseteq S
  <2>1. Range(q) = {q[i] : i \in 1..Len(q)}
    BY RangeEquality
  <2>2. \A i \in 1..Len(q) : q[i] \in S
    BY ElementOfSeq
  <2> QED  BY <2>1, <2>2
<1>3. Range(outPool) \subseteq Output
    BY <1>1, <1>2
<1>4. Range(delivPool) \subseteq Output
    BY <1>1, <1>2
<1>5. Range(decQ) \subseteq DecoderSurfaces
    BY <1>1, <1>2
<1>6. \A o \in Range(outPool) : o.surf \in Busy
    BY <1>1, <1>3, MarkedIsBusy DEF CurrentOutputs
<1>7. \A o \in Range(delivPool) : o.surf \in Busy
    BY <1>1, <1>4, MarkedIsBusy DEF CurrentOutputs
<1>8. dcur \in Output => dcur.surf \in Busy
    BY <1>1, OutputIsNotNone, MarkedIsBusy DEF CurrentOutputs
<1>9. curOut \in Output /\ curOut.alloc = alloc => curOut.surf \in Busy
    BY <1>1, MarkedIsBusy
<1>10. Range(decQ) \subseteq Busy
    BY <1>1 DEF Busy
<1> QED  BY <1>5, <1>6, <1>7, <1>8, <1>9, <1>10

(* EmitFrame moves the first frame of q on, or loses it.                   *)
LEMMA EmitKeepsOrder ==
    ASSUME Control, Pools, OutputTypes, LocksCount, CurrentOutputs, NoStaleSurface,
           pc = "decode", NEW q \in Seq(DecoderSurfaces), q # <<>>,
           NEW lock, NEW cont \in [Surfaces -> 0..NumFrames], EmitFrame(q, cont, lock),
           NEW B, NEW D, NEW n, Ordered(cont, delivered, B, delivPool, D, outPool, q, n)
    PROVE  /\ Ordered(content', delivered, B, delivPool, D, outPool', decQ', n)
           /\ \A s \in Busy : content'[s] = cont[s]
<1>1. /\ outPool \in Seq(Output) /\ delivPool \in Seq(Output)
      /\ DecoderSurfaces \subseteq Surfaces /\ VppSurfaces \subseteq Surfaces
      /\ DecoderSurfaces \cap VppSurfaces = {} /\ Null \notin VppSurfaces
      /\ Head(q) \in DecoderSurfaces /\ decQ' = Tail(q)
    BY SurfaceSets, TailElements DEF OutputTypes, Control, StreamTypes, EmitFrame
<1>2. ASSUME NEW s \in Surfaces
      PROVE  Mark(s) \in Output /\ Mark(s).surf = s
    BY MarkIsOutput DEF Mark
<1>3. CASE ~ VppIsUsed
  <2>1. outPool' = Append(outPool, Mark(Head(q))) /\ content' = cont
    BY <1>3 DEF EmitFrame, QueueOutput, Mark
  <2>2. Mark(Head(q)) \in Output /\ cont[Mark(Head(q)).surf] = cont[Head(q)]
    BY <1>1, <1>2
  <2>3. Ordered(cont, delivered, B, delivPool, D, outPool', decQ', n)
    BY <1>1, <2>1, <2>2, OrderedEmit
  <2> QED  BY <2>1, <2>3
<1>4. CASE VppIsUsed
  <2> DEFINE v == vppPool.cur
  <2>1. v \in VppSurfaces /\ v \in Surfaces /\ v \notin Busy /\ v \notin DecoderSurfaces
    <3>1. /\ v # Null /\ PoolOf(vppPool, VppSurfaces)
          /\ Busy \cap (Available(pool) \cup Available(vppPool)) = {}
      BY <1>4 DEF Pools, PoolsIn, HeldSurfaces, HasSurfaces, AvailableAreIdle
    <3> QED  BY <1>1, <3>1, AvailableIn
  <2>2. CASE outPool' = Append(outPool, Mark(v)) /\ content' = [cont EXCEPT ![v] = cont[Head(q)]]
    <3> DEFINE d == [cont EXCEPT ![v] = cont[Head(q)]]
    <3>1. /\ d[v] = cont[Head(q)] /\ d[Head(q)] = cont[Head(q)]
          /\ \A s \in Surfaces : s # v => d[s] = cont[s]
      BY <1>1, <2>1
    <3> HIDE DEF d
    <3>2. /\ \A o \in Range(delivPool) : cont[o.surf] = d[o.surf]
          /\ \A o \in Range(outPool) : cont[o.surf] = d[o.surf]
      <4>1. Busy \subseteq Surfaces
        BY <1>1 DEF Busy, Pools, LibraryIn, DecoderTypes
      <4> QED  BY <2>1, <3>1, <4>1, LineIsBusy
    <3>3. \A s \in Range(q) : cont[s] = d[s]
      <4>1. Range(q) = {q[i] : i \in 1..Len(q)} /\ \A i \in 1..Len(q) : q[i] \in DecoderSurfaces
        BY RangeEquality, ElementOfSeq
      <4> QED  BY <1>1, <2>1, <3>1, <4>1
    <3>4. Ordered(d, delivered, B, delivPool, D, outPool, q, n)
      BY <1>1, <3>2, <3>3, OrderedSame
    <3>5. Mark(v) \in Output /\ d[Mark(v).surf] = d[Head(q)]
      BY <1>2, <2>1, <3>1
    <3>6. Ordered(d, delivered, B, delivPool, D, Append(outPool, Mark(v)), Tail(q), n)
      BY <1>1, <3>4, <3>5, OrderedEmit
    <3>7. \A s \in Busy : d[s] = cont[s]
      <4>1. Busy \subseteq Surfaces
        BY <1>1 DEF Busy, Pools, LibraryIn, DecoderTypes
      <4> QED  BY <2>1, <3>1, <4>1
    <3> QED  BY <1>1, <2>2, <3>6, <3>7 DEF d
  <2>3. CASE outPool' = outPool /\ content' = cont
    BY <1>1, <2>3, OrderedEmit
  <2> QED  BY <1>4, <2>2, <2>3 DEF EmitFrame, QueueOutput, Mark
<1> QED  BY <1>3, <1>4

(* Decoding and output of a frame keep the order.                          *)
LEMMA DecodeKeepsOrder ==
    ASSUME Control, Pools, OutputTypes, LocksCount, CurrentOutputs, NoStaleSurface, OrderInv,
           DecodeFrameAsync \/ PullBuffered
    PROVE  QueuesInOrder'
<1>1. /\ decQ \in Seq(DecoderSurfaces) /\ content \in [Surfaces -> 0..NumFrames]
      /\ outPool \in Seq(Output) /\ delivPool \in Seq(Output)
      /\ Busy \subseteq Surfaces /\ DecoderSurfaces \subseteq Surfaces /\ consumed \in Nat
  <2>1. consumed \in Nat
    BY ConfigurationFacts DEF Control, StreamTypes
  <2> QED  BY <2>1, SurfaceSets
           DEF Pools, LibraryIn, DecoderTypes, OutputTypes, Busy, Control, StreamTypes
<1>2. /\ Ordered(content, delivered, InDelivery, delivPool, InSync, outPool, decQ, consumed)
      /\ Range(delivered) \subseteq 1..consumed
    BY DEF OrderInv, QueuesInOrder
<1>3. UNCHANGED <<curOut, delivPool, dcur, dpc, alloc, delivered>> /\ pc = "decode"
    BY DEF DecodeFrameAsync, PullBuffered, delivVars, thrVars, cntVars
<1>4. ASSUME \A s \in Busy : content'[s] = content[s]
      PROVE  InDelivery' = InDelivery /\ InSync' = InSync
  <2>1. dcur \in Output => FrameIn(content)'[dcur] = FrameIn(content)[dcur]
    BY <1>3, <1>4, LineIsBusy DEF FrameIn
  <2>2. curOut \in Output /\ curOut.alloc = alloc =>
            FrameIn(content)'[curOut] = FrameIn(content)[curOut]
    BY <1>3, <1>4, LineIsBusy DEF FrameIn
  <2> QED  BY <1>3, <2>1, <2>2 DEF InDelivery, InSync
<1>5. CASE DecodeFrameAsync
  <2> DEFINE s    == pool.cur
             q    == Append(decQ, pool.cur)
             cont == [content EXCEPT ![pool.cur] = consumed + 1]
             lock == libLock \cup {pool.cur}
             B    == InDelivery
             D    == InSync
  <2>1. s \in DecoderSurfaces /\ s \notin Busy
    <3>1. /\ s # Null /\ PoolOf(pool, DecoderSurfaces) /\ Null \notin DecoderSurfaces
          /\ Busy \cap (Available(pool) \cup Available(vppPool)) = {}
      BY <1>3, SurfaceSets
         DEF Pools, PoolsIn, HeldSurfaces, HasSurfaces, AvailableAreIdle, Control, StreamTypes
    <3> QED  BY <3>1, AvailableIn
  <2>2. q \in Seq(DecoderSurfaces) /\ q # <<>>
    BY <1>1, <2>1, AppendElements, AppendNonempty
  <2>3. /\ cont \in [Surfaces -> 0..NumFrames] /\ cont[s] = consumed + 1
        /\ \A t \in Surfaces : t # s => cont[t] = content[t]
    <3>1. consumed + 1 \in 0..NumFrames
      BY <1>5, ConfigurationFacts DEF Control, StreamTypes, DecodeFrameAsync
    <3> QED  BY <1>1, <2>1, <3>1
  <2>4. \A t \in Busy : cont[t] = content[t]
    BY <1>1, <2>1, <2>3
  <2>5. /\ consumed' = consumed + 1
        /\ \/ EmitFrame(q, cont, lock)
           \/ decQ' = q /\ content' = cont /\ outPool' = outPool
    <3>1. consumed' = consumed + 1
      BY <1>5 DEF DecodeFrameAsync
    <3> QED  BY <1>5, <3>1 DEF DecodeFrameAsync
  <2> HIDE DEF cont, q, lock, s, B, D
  <2>6. /\ \A o \in Range(delivPool) : content[o.surf] = cont[o.surf]
        /\ \A o \in Range(outPool) : content[o.surf] = cont[o.surf]
        /\ \A t \in Range(decQ) : content[t] = cont[t]
    BY <2>4, LineIsBusy
  <2>7. Ordered(cont, delivered, B, delivPool, D, outPool, decQ, consumed)
    BY <1>1, <1>2, <2>6, OrderedSame DEF B, D
  <2>8. Ordered(cont, delivered, B, delivPool, D, outPool, Append(decQ, s), consumed + 1)
    BY <1>1, <1>2, <2>1, <2>3, <2>7, OrderedDecode
  <2>9. Ordered(cont, delivered, B, delivPool, D, outPool, q, consumed + 1)
    BY <2>8 DEF q, s
  <2>10. /\ Ordered(content', delivered, B, delivPool, D, outPool', decQ', consumed + 1)
         /\ \A t \in Busy : content'[t] = cont[t]
    <3>1. CASE EmitFrame(q, cont, lock)
      BY <1>3, <2>2, <2>3, <2>9, <3>1, EmitKeepsOrder
    <3>2. CASE decQ' = q /\ content' = cont /\ outPool' = outPool
      BY <2>9, <3>2
    <3> QED  BY <2>5, <3>1, <3>2
  <2>11. InDelivery' = B /\ InSync' = D
    BY <1>4, <2>4, <2>10 DEF B, D
  <2> QED  BY <1>3, <2>5, <2>10, <2>11 DEF QueuesInOrder
<1>6. CASE PullBuffered
  <2> DEFINE B == InDelivery
             D == InSync
  <2>1. consumed' = consumed
    BY <1>6 DEF PullBuffered, inVars
  <2>2. /\ Ordered(content', delivered, B, delivPool, D, outPool', decQ', consumed)
        /\ \A t \in Busy : content'[t] = content[t]
    <3>1. CASE decQ # <<>> /\ EmitFrame(decQ, content, libLock)
      <4> HIDE DEF B, D
      <4>1. Ordered(content, delivered, B, delivPool, D, outPool, decQ, consumed)
        BY <1>2 DEF B, D
      <4> QED  BY <1>1, <1>3, <3>1, <4>1, EmitKeepsOrder
    <3>2. CASE UNCHANGED <<decVars, outPool>>
      BY <1>2, <3>2 DEF decVars
    <3> QED  BY <1>6, <3>1, <3>2 DEF PullBuffered
  <2> HIDE DEF B, D
  <2>3. InDelivery' = B /\ InSync' = D
    BY <1>4, <2>2 DEF B, D
  <2> QED  BY <1>3, <2>1, <2>2, <2>3 DEF QueuesInOrder
<1> QED  BY <1>5, <1>6

(* What is left of the line when a step only lets go of a surface.         *)
LEMMA LineKept ==
    ASSUME Control, OrderInv, [Next]_vars,
           UNCHANGED <<outPool, delivPool, curOut, alloc, delivered, content, decQ, consumed>>,
           UNCHANGED <<dcur, dpc>> \/ dpc' # "deliver"
    PROVE  OrderInv'
<1>1. /\ NoStaleSurface' => NoStaleSurface
      /\ Rendering' = Rendering /\ Itself' = Itself
    BY ConfigurationKept DEF Itself
<1>2. InSync' = InSync /\ InDelivery' \subseteq InDelivery
    BY DEF InSync, InDelivery
<1>3. QueuesInOrder => QueuesInOrder'
  <2> SUFFICES ASSUME QueuesInOrder PROVE QueuesInOrder'
    OBVIOUS
  <2> DEFINE B == InDelivery'
             D == InSync'
  <2>1. B \in SUBSET InDelivery /\ D \in SUBSET InSync
    BY <1>2
  <2> HIDE DEF B, D
  <2>2. Ordered(content, delivered, B, delivPool, D, outPool, decQ, consumed)
    BY <2>1, OrderedLess DEF QueuesInOrder
  <2> QED  BY <2>2 DEF QueuesInOrder, B, D
<1> QED  BY <1>1, <1>3 DEF OrderInv

(* A younger frame is delivered.                                           *)
LEMMA DeliveredLater ==
    ASSUME delivered \in Seq(0..NumFrames), Rising(Itself, delivered), NEW x \in 0..NumFrames,
           NEW n, x \in 1..n, Range(delivered) \subseteq 1..n, \A y \in Range(delivered) : y < x
    PROVE  /\ Rising(Itself, Append(delivered, x))
           /\ Range(Append(delivered, x)) \subseteq 1..n
<1>1. Range(Append(delivered, x)) = Range(delivered) \cup {x}
  <2> DEFINE S == 0..NumFrames
  <2>1. delivered \in Seq(S) /\ x \in S
    OBVIOUS
  <2> HIDE DEF S
  <2> QED  BY <2>1, AppendElements
<1>2. \A y \in Range(delivered) : y \in 0..NumFrames
  <2>1. Range(delivered) = {delivered[i] : i \in 1..Len(delivered)}
    BY RangeEquality
  <2>2. \A i \in 1..Len(delivered) : delivered[i] \in 0..NumFrames
    BY ElementOfSeq
  <2> QED  BY <2>1, <2>2
<1>3. \A y \in Range(delivered) : Itself[y] < Itself[x]
    BY <1>2 DEF Itself
<1>4. Rising(Itself, Append(delivered, x))
    BY <1>3, RisingAppend
<1> QED  BY <1>1, <1>4

(* The surface that is being synchronised is out of the queue.             *)
LEMMA OldestInOrder ==
    ASSUME Control, Pools, OutputTypes, CurrentOutputs, NoStaleSurface, QueuesInOrder,
           pc = "sync", curOut # NoOutput \/ outPool # <<>>, TakeOldest
    PROVE  /\ Oldest \in Output /\ Oldest.alloc = alloc /\ outPool' \in Seq(Output)
           /\ Ordered(content, delivered, InDelivery, delivPool, {FrameIn(content)[Oldest]},
                      outPool', decQ, consumed)
<1>1. Oldest \in Output /\ Oldest.alloc = alloc /\ outPool' \in Seq(Output)
    BY OldestOutput, OldestIsCurrent
<1>2. /\ outPool \in Seq(Output) /\ delivPool \in Seq(Output) /\ decQ \in Seq(DecoderSurfaces)
      /\ Ordered(content, delivered, InDelivery, delivPool, InSync, outPool, decQ, consumed)
    BY DEF OutputTypes, Pools, LibraryIn, DecoderTypes, QueuesInOrder
<1>3. CASE curOut # NoOutput
  <2>1. Oldest = curOut /\ outPool' = outPool
    BY <1>3 DEF Oldest, TakeOldest
  <2>2. InSync = {FrameIn(content)[Oldest]}
    BY <1>1, <2>1 DEF InSync
  <2> QED  BY <1>1, <1>2, <2>1, <2>2
<1>4. CASE curOut = NoOutput
  <2>1. Oldest = Head(outPool) /\ outPool' = Tail(outPool) /\ outPool # <<>>
    BY <1>4 DEF Oldest, TakeOldest
  <2>2. InSync = {}
    BY <1>4, OutputIsNotNone DEF InSync
  <2> DEFINE B == InDelivery
  <2> HIDE DEF B
  <2>3. Ordered(content, delivered, B, delivPool, {}, outPool, decQ, consumed)
    BY <1>2, <2>2 DEF B
  <2>4. Ordered(content, delivered, B, delivPool, {FrameIn(content)[Head(outPool)]},
                Tail(outPool), decQ, consumed)
    BY <1>2, <2>1, <2>3, OrderedSync
  <2> QED  BY <1>1, <2>1, <2>4 DEF B
<1> QED  BY <1>3, <1>4

LEMMA OrderStep ==
    ASSUME Control, Pools, Delivery, Locks, Current, OrderInv, [Next]_vars
    PROVE  OrderInv'
<1> USE DEF ctlVars, loopVars, inVars, decVars, poolVars, outVars, delivVars, thrVars,
            cntVars
<1>1. /\ opt' = opt /\ (NoStaleSurface' => NoStaleSurface)
      /\ ResetDecoder \/ alloc' = alloc
      /\ Rendering' = Rendering /\ Itself' = Itself
    BY ConfigurationKept DEF Itself
<1>2. /\ OutputTypes /\ LocksCount /\ CurrentOutputs /\ consumed \in Nat
      /\ outPool \in Seq(Output) /\ delivPool \in Seq(Output)
      /\ delivered \in Seq(0..NumFrames) /\ decQ \in Seq(DecoderSurfaces)
      /\ content \in [Surfaces -> 0..NumFrames]
  <2>1. consumed \in Nat
    BY ConfigurationFacts DEF Control, StreamTypes
  <2> QED  BY <2>1 DEF Delivery, OutputTypes, Locks, Current, Pools, LibraryIn, DecoderTypes
<1>3. NoStaleSurface => QueuesInOrder /\ Rising(Itself, delivered)
                        /\ Range(delivered) \subseteq 1..consumed
    BY DEF OrderInv
<1> DEFINE Still ==
        /\ UNCHANGED <<outPool, delivPool, curOut, alloc, delivered, content, decQ, consumed>>
        /\ UNCHANGED <<dcur, dpc>> \/ dpc' # "deliver"
<1>4. CASE Still
    BY <1>4, LineKept
<1>5. CASE DecodeFrameAsync \/ PullBuffered
  <2>1. delivered' = delivered /\ consumed' \in {consumed, consumed + 1}
    <3>1. delivered' = delivered
      BY <1>5 DEF DecodeFrameAsync, PullBuffered
    <3>2. CASE DecodeFrameAsync
      BY <3>2 DEF DecodeFrameAsync
    <3>3. CASE PullBuffered
      BY <3>3 DEF PullBuffered
    <3> QED  BY <1>5, <3>1, <3>2, <3>3
  <2>2. 1..consumed \subseteq 1..consumed'
    BY <1>2, <2>1
  <2>3. NoStaleSurface => QueuesInOrder'
    BY <1>2, <1>5, DecodeKeepsOrder
  <2> QED  BY <1>1, <2>1, <2>2, <2>3 DEF OrderInv
<1>6. CASE SyncFails
  <2>1. /\ pc = "sync" /\ (curOut # NoOutput \/ outPool # <<>>) /\ TakeOldest
        /\ curOut' = Oldest
        /\ UNCHANGED <<delivPool, alloc, delivered, content, decQ, consumed, dcur, dpc>>
    BY <1>6 DEF SyncFails
  <2>2. NoStaleSurface => QueuesInOrder'
    <3> SUFFICES ASSUME NoStaleSurface PROVE QueuesInOrder'
      OBVIOUS
    <3>1. /\ Oldest \in Output /\ Oldest.alloc = alloc
          /\ Ordered(content, delivered, InDelivery, delivPool, {FrameIn(content)[Oldest]},
                     outPool', decQ, consumed)
      BY <1>2, <1>3, <2>1, OldestInOrder
    <3>2. InDelivery' = InDelivery /\ InSync' = {FrameIn(content)[Oldest]}
      BY <2>1, <3>1 DEF InDelivery, InSync
    <3> QED  BY <2>1, <3>1, <3>2 DEF QueuesInOrder
  <2> QED  BY <1>1, <2>1, <2>2 DEF OrderInv
<1>7. CASE SyncForDelivery
  <2>1. /\ pc = "sync" /\ (curOut # NoOutput \/ outPool # <<>>) /\ TakeOldest
        /\ curOut' = NoOutput /\ delivPool' = Append(delivPool, Oldest)
        /\ UNCHANGED <<alloc, delivered, content, decQ, consumed, dcur, dpc>>
    BY <1>7 DEF SyncForDelivery
  <2>2. NoStaleSurface => QueuesInOrder'
    <3> SUFFICES ASSUME NoStaleSurface PROVE QueuesInOrder'
      OBVIOUS
    <3> DEFINE B == InDelivery
    <3>1. /\ Oldest \in Output /\ Oldest.alloc = alloc /\ outPool' \in Seq(Output)
          /\ Ordered(content, delivered, B, delivPool, {FrameIn(content)[Oldest]},
                     outPool', decQ, consumed)
      BY <1>2, <1>3, <2>1, OldestInOrder
    <3>2. InDelivery' = B /\ InSync' = {}
      BY <2>1, OutputIsNotNone DEF InDelivery, InSync
    <3> HIDE DEF B
    <3>3. Ordered(content, delivered, B, Append(delivPool, Oldest), {}, outPool', decQ, consumed)
      BY <1>2, <3>1, OrderedQueue
    <3> QED  BY <2>1, <3>2, <3>3 DEF QueuesInOrder
  <2> QED  BY <1>1, <2>1, <2>2 DEF OrderInv
<1>8. CASE SyncAndDeliver
  <2>1. /\ pc = "sync" /\ (curOut # NoOutput \/ outPool # <<>>) /\ TakeOldest
        /\ curOut' = NoOutput /\ ~ Rendering
        /\ delivered' = Append(delivered, content[Oldest.surf]) \/ delivered' = delivered
        /\ UNCHANGED <<delivPool, alloc, content, decQ, consumed, dcur, dpc>>
    BY <1>8 DEF SyncAndDeliver
  <2>2. delivPool = <<>> /\ dpc = "none"
    BY <2>1 DEF Delivery, DeliveryThread
  <2> SUFFICES ASSUME NoStaleSurface
               PROVE  /\ QueuesInOrder' /\ Rising(Itself, delivered')
                      /\ Range(delivered') \subseteq 1..consumed
    BY <1>1, <2>1 DEF OrderInv
  <2> DEFINE x == FrameIn(content)[Oldest]
  <2>3. /\ Oldest \in Output /\ Oldest.alloc = alloc /\ outPool' \in Seq(Output)
        /\ Ordered(content, delivered, {}, delivPool, {x}, outPool', decQ, consumed)
    <3>1. InDelivery = {}
      BY <2>2 DEF InDelivery
    <3> QED  BY <1>2, <1>3, <2>1, <3>1, OldestInOrder
  <2>4. InDelivery' = {} /\ InSync' = {}
    BY <2>1, <2>2, OutputIsNotNone DEF InDelivery, InSync
  <2>5. x = content[Oldest.surf] /\ x \in 0..NumFrames
    BY <1>2, <2>3 DEF FrameIn, Output
  <2> HIDE DEF x
  <2>6. CASE delivered' = delivered
    <3>1. Ordered(content, delivered, {}, delivPool, {}, outPool', decQ, consumed)
      BY <2>3, OrderedLess
    <3> QED  BY <1>3, <2>1, <2>4, <2>6, <3>1 DEF QueuesInOrder
  <2>7. CASE delivered' = Append(delivered, x)
    <3>1. /\ Ordered(content, Append(delivered, x), {}, delivPool, {x} \ {x}, outPool', decQ, consumed)
          /\ x \in 1..consumed /\ \A y \in Range(delivered) : y < x
      BY <1>2, <2>2, <2>3, <2>5, OrderedDeliver
    <3>2. {x} \ {x} = {}
      OBVIOUS
    <3>3. QueuesInOrder'
      BY <2>1, <2>4, <2>7, <3>1, <3>2 DEF QueuesInOrder
    <3> QED  BY <1>2, <1>3, <2>5, <2>7, <3>1, <3>3, DeliveredLater
  <2> QED  BY <2>1, <2>5, <2>6, <2>7
<1>9. CASE DeliverTake
  <2>1. /\ delivPool # <<>> /\ dcur' = Head(delivPool) /\ delivPool' = Tail(delivPool)
        /\ dpc = "take" /\ dpc' = "deliver"
        /\ UNCHANGED <<outPool, curOut, alloc, delivered, content, decQ, consumed>>
    BY <1>9 DEF DeliverTake, Delivery, PostsMatchQueue
  <2>2. NoStaleSurface => QueuesInOrder'
    <3> SUFFICES ASSUME NoStaleSurface PROVE QueuesInOrder'
      OBVIOUS
    <3> DEFINE D == InSync
    <3>1. Ordered(content, delivered, {}, delivPool, D, outPool, decQ, consumed)
      <4>1. InDelivery = {}
        BY <2>1 DEF InDelivery
      <4> QED  BY <1>3, <4>1 DEF QueuesInOrder
    <3>2. InDelivery' = {FrameIn(content)[Head(delivPool)]} /\ InSync' = D
      <4>1. Head(delivPool) \in Output
        BY <1>2, <2>1, TailElements
      <4> QED  BY <2>1, <4>1 DEF InDelivery, InSync
    <3> HIDE DEF D
    <3>3. Ordered(content, delivered, {FrameIn(content)[Head(delivPool)]}, Tail(delivPool), D,
                  outPool, decQ, consumed)
      BY <1>2, <2>1, <3>1, OrderedTake
    <3> QED  BY <2>1, <3>2, <3>3 DEF QueuesInOrder
  <2> QED  BY <1>1, <2>1, <2>2 DEF OrderInv
<1>10. CASE DeliverOutput
  <2>1. /\ dpc = "deliver" /\ dpc' = "return"
        /\ delivered' = Append(delivered, content[dcur.surf]) \/ delivered' = delivered
        /\ UNCHANGED <<outPool, delivPool, curOut, alloc, content, decQ, consumed, dcur>>
    BY <1>10 DEF DeliverOutput
  <2>2. alloc = 1 /\ dcur \in Output
    BY <2>1 DEF Delivery, DeliveryThread, OutputTypes, Outputs, Control, ThreadTypes
  <2>3. NoStaleSurface
    BY <2>2 DEF NoStaleSurface
  <2> DEFINE x == FrameIn(content)[dcur]
             D == InSync
  <2>4. /\ Ordered(content, delivered, {x}, delivPool, D, outPool, decQ, consumed)
        /\ InDelivery' = {} /\ InSync' = D
    <3>1. InDelivery = {x}
      BY <2>1, <2>2 DEF InDelivery
    <3>2. InDelivery' = {} /\ InSync' = D
      BY <2>1 DEF InDelivery, InSync
    <3> QED  BY <1>3, <2>3, <3>1, <3>2 DEF QueuesInOrder
  <2>5. x = content[dcur.surf] /\ x \in 0..NumFrames
    BY <1>2, <2>2 DEF FrameIn, Output
  <2> HIDE DEF x, D
  <2>6. CASE delivered' = delivered
    BY <2>1, <2>6, LineKept
  <2>7. CASE delivered' = Append(delivered, x)
    <3>1. /\ Ordered(content, Append(delivered, x), {}, delivPool, D \ {x}, outPool, decQ, consumed)
          /\ x \in 1..consumed /\ \A y \in Range(delivered) : y < x
      BY <1>2, <2>4, <2>5, OrderedDeliver
    <3>2. /\ Rising(Itself, delivered') /\ Range(delivered') \subseteq 1..consumed
      BY <1>2, <1>3, <2>3, <2>5, <2>7, <3>1, DeliveredLater
    <3>3. QueuesInOrder'
      <4>1. D \ {x} = D
        <5>1. Below({x}, D)
          BY <2>4 DEF Ordered, InLine
        <5>2. x \in Nat
          BY <2>5
        <5> QED  BY <5>1, <5>2 DEF Below
      <4> QED  BY <2>1, <2>4, <2>7, <3>1, <4>1 DEF QueuesInOrder
    <3> QED  BY <1>1, <2>1, <3>2, <3>3 DEF OrderInv
  <2> QED  BY <2>1, <2>5, <2>6, <2>7
<1>11. CASE ResetDecoder
  <2>1. /\ outPool' = <<>> /\ delivPool' = <<>> /\ decQ' = <<>> /\ alloc' = alloc + 1
        /\ pc = "app" /\ UNCHANGED <<curOut, dcur, dpc, delivered, consumed>>
    BY <1>11 DEF ResetDecoder
  <2>2. dpc = "none" /\ alloc \in Nat
    BY <2>1 DEF Delivery, DeliveryThread, Control, ThreadTypes
  <2>3. curOut \in Output => curOut.alloc # alloc + 1
    <3>1. curOut.alloc <= alloc
      BY DEF Locks, OldOutputs
    <3>2. curOut \in Output => curOut.alloc \in Nat
      BY DEF Output
    <3> QED  BY <2>2, <3>1, <3>2
  <2>4. InDelivery' = {} /\ InSync' = {}
    BY <2>1, <2>2, <2>3 DEF InDelivery, InSync
  <2>5. Ordered(content', delivered, {}, <<>>, {}, <<>>, <<>>, consumed)
    BY FramesEmpty DEF Ordered, InLine, Below
  <2>6. QueuesInOrder'
    BY <2>1, <2>4, <2>5 DEF QueuesInOrder
  <2> QED  BY <1>1, <2>1, <2>6 DEF OrderInv
<1>12. ASSUME \/ StartRun \/ LeaveLoop \/ ReadNextFrame \/ TakeSurfaces \/ NeedsMoreData
              \/ DecodeTrouble \/ SyncNothing \/ ResetEvent \/ PostDelivered
       PROVE Still
    BY <1>12 DEF StartRun, LeaveLoop, ReadNextFrame, TakeSurfaces, NeedsMoreData,
                 DecodeTrouble, SyncNothing, ResetEvent, PostDelivered
<1>13. ASSUME \/ StuckReturns \/ CompareCounts \/ TimedWait \/ BusyReturns \/ DrainReturns
              \/ Drained \/ WaitDelivered \/ EndRun \/ JoinDelivery \/ Exit
       PROVE Still
    BY <1>13 DEF StuckReturns, CompareCounts, TimedWait, BusyReturns, DrainReturns,
                 Drained, WaitDelivered, EndRun, JoinDelivery, Exit
<1>14. ASSUME DeliverTest \/ DeliverWait \/ DeliverReturn \/ DeliverCount \/ DeliverSignal
       PROVE Still
    BY <1>14 DEF DeliverTest, DeliverWait, DeliverReturn, DeliverCount, DeliverSignal
<1>15. ASSUME NEW s \in Surfaces, LibraryUnlocks(s) PROVE Still
    BY <1>15 DEF LibraryUnlocks
<1>16. ASSUME UNCHANGED vars PROVE Still
    BY <1>16 DEF vars
<1> HIDE DEF Still
<1> QED
    BY <1>4, <1>5, <1>6, <1>7, <1>8, <1>9, <1>10, <1>11, <1>12, <1>13, <1>14, <1>15, <1>16
       DEF Next, MainThread, DeliverLoop, Done

LEMMA OrderInitially == Init => OrderInv
<1> SUFFICES ASSUME Init PROVE OrderInv
    OBVIOUS
<1> DEFINE e == <<>>
<1>1. /\ outPool = e /\ delivPool = e /\ decQ = e /\ delivered = e
      /\ curOut = NoOutput /\ dcur = NoOutput
    BY Zenon DEF Init
<1>2. InDelivery = {} /\ InSync = {}
    BY <1>1, OutputIsNotNone DEF InDelivery, InSync
<1>3. Frames(Itself, e) = {} /\ Rising(Itself, e)
    BY FramesEmpty
<1>4. Range(e) = {}
  <2>1. e \in Seq({}) /\ Len(e) = 0
    BY EmptySeq
  <2> HIDE DEF e
  <2>2. Range(e) = {e[i] : i \in 1..Len(e)}
    BY <2>1, RangeEquality
  <2> QED  BY <2>1, <2>2
<1>5. Ordered(content, e, {}, e, {}, e, e, consumed)
    BY FramesEmpty DEF Ordered, InLine, Below
<1> HIDE DEF e
<1>6. QueuesInOrder
    BY <1>1, <1>2, <1>5 DEF QueuesInOrder
<1> QED  BY <1>1, <1>3, <1>4, <1>6 DEF OrderInv

THEOREM OrderHolds == Spec => []OrderInv
<1>1. Control /\ Pools /\ Delivery /\ Locks /\ Current /\ OrderInv /\ [Next]_vars => OrderInv'
    BY OrderStep
<1> QED  BY <1>1, OrderInitially, PoolsHold, DeliveryHolds, LocksHold, CurrentHolds, PTL DEF Spec

(* What is written or rendered is the stream's frames, each once and in    *)
(* order, with any pool sizes and any failures.  Without a delivery thread *)
(* the one exception is a decoder that was reset after SyncOperation had   *)
(* failed, which delivers the surface of the freed pools.                  *)
THEOREM FramesDeliveredInOrder == Spec => [](Rendering \/ NoStaleSurface => FramesInOrder)
<1>1. Delivery /\ OrderInv => (Rendering \/ NoStaleSurface => FramesInOrder)
  <2> SUFFICES ASSUME Delivery, OrderInv, Rendering \/ NoStaleSurface PROVE FramesInOrder
    OBVIOUS
  <2>1. /\ delivered \in Seq(0..NumFrames) /\ Rising(Itself, delivered)
        /\ Range(delivered) \subseteq 1..consumed
    BY DEF Delivery, OutputTypes, OrderInv
  <2>2. /\ DOMAIN delivered = 1..Len(delivered)
        /\ Range(delivered) = {delivered[i] : i \in 1..Len(delivered)}
        /\ \A i \in 1..Len(delivered) : delivered[i] \in 0..NumFrames
    BY <2>1, LenProperties, RangeEquality, ElementOfSeq
  <2>3. \A i \in 1..Len(delivered) : Itself[delivered[i]] = delivered[i]
    BY <2>2 DEF Itself
  <2> QED  BY <2>1, <2>2, <2>3 DEF FramesInOrder, Rising
<1> QED  BY <1>1, OrderHolds, DeliveryHolds, PTL

----------------------------------------------------------------------------
(* A surface to wait for.  When a pool has nothing free every surface of   *)
(* it is locked; the library holds fewer than the decoder has, and what it *)
(* does not hold waits in the output queue, since without a delivery       *)
(* thread there is no other place.                                         *)

LibraryHolds == IsFiniteSet(libLock) /\ Cardinality(libLock) <= DecoderNeeds

SurfaceFound ==
    ~ Rendering /\ NoStaleSurface =>
        /\ sts # "not_found" /\ res # "not_found" /\ pc # "counts"
        /\ caller = "stuck" /\ pc = "sync" => curOut # NoOutput \/ outPool # <<>>
        /\ caller = "stuck" /\ pc = "return" => res # "more_data"

(* A pool that SyncFrameSurfaces and GetSurface find nothing in has all    *)
(* its surfaces in use.                                                    *)
LEMMA NothingFree ==
    ASSUME NEW S, NEW p, NEW B, PoolOf(p, S), Null \notin S,
           TakeFree(SyncFrameSurfaces(p, B)).cur = Null
    PROVE  S \subseteq B
<1> DEFINE r == SyncFrameSurfaces(p, B)
           idle == {i \in DOMAIN p.used : p.used[i] \notin B}
           k == CHOOSE i \in idle : \A j \in idle : i <= j
<1>1. PoolOf(r, S) /\ r.cur = p.cur
    BY SyncedPool
<1>2. r.cur = Null /\ r.free = <<>>
  <2> SUFFICES ASSUME r.cur # Null \/ r.free # <<>> PROVE FALSE
    OBVIOUS
  <2> HIDE DEF r
  <2>1. TakeFree(r).cur = Null
    BY DEF r
  <2>2. CASE r.cur # Null
    BY <2>1, <2>2 DEF TakeFree
  <2>3. CASE r.cur = Null
    <3>1. r.free # <<>> /\ r.free \in Seq(S)
          /\ r = [free |-> r.free, used |-> r.used, cur |-> r.cur]
      BY <1>1, <2>3, PoolParts
    <3>2. Head(r.free) \in S
      BY <3>1, TailElements
    <3>3. TakeFree(r) = [r EXCEPT !.cur = Head(r.free), !.free = Tail(r.free)]
      BY <2>3, <3>1, Zenon DEF TakeFree
    <3>4. TakeFree(r).cur = Head(r.free)
      BY <3>1, <3>3
    <3> QED  BY <2>1, <3>2, <3>4
  <2> QED  BY <2>2, <2>3
<1>3. /\ p = [free |-> p.free, used |-> p.used, cur |-> p.cur]
      /\ p.free \in Seq(S) /\ p.used \in Seq(S)
      /\ Range(p.free) \cup Range(p.used) \cup ({p.cur} \ {Null}) = S
    BY PoolParts
<1>4. idle = {}
  <2> SUFFICES ASSUME idle # {} PROVE FALSE
    OBVIOUS
  <2>1. r = MoveToFree(p, k)
    BY DEF SyncFrameSurfaces
  <2> HIDE DEF k, idle, r
  <2> DEFINE x == p.used[k]
             u == RemoveAt(p.used, k)
             f == <<x>> \o p.free
  <2>2. r = [p EXCEPT !.free = f, !.used = u]
    BY <2>1, Zenon DEF MoveToFree
  <2>3. Len(f) = 1 + Len(p.free) /\ Len(p.free) \in Nat
    <3> HIDE DEF x
    <3> QED  BY <1>3, LenProperties
  <2> HIDE DEF f, u
  <2>4. r.free = f
    BY <1>3, <2>2
  <2> QED  BY <1>2, <2>3, <2>4
<1>5. p.free = <<>> /\ p.cur = Null
  <2>1. r = p
    BY <1>4 DEF SyncFrameSurfaces
  <2> QED  BY <1>2, <2>1
<1>6. \A i \in 1..Len(p.used) : p.used[i] \in B
  <2>1. DOMAIN p.used = 1..Len(p.used)
    BY <1>3, LenProperties
  <2> QED  BY <1>4, <2>1
<1>7. Range(p.free) = {} /\ Range(p.used) = {p.used[i] : i \in 1..Len(p.used)}
  <2>1. Range(p.free) = {p.free[i] : i \in 1..Len(p.free)}
    BY <1>3, RangeEquality
  <2>2. Len(p.free) = 0
    BY <1>5
  <2> QED  BY <1>3, <2>1, <2>2, RangeEquality
<1> QED  BY <1>3, <1>5, <1>6, <1>7

(* Without a delivery thread a render_lock is that of a surface which      *)
(* SyncOutputSurface can take.                                             *)
LEMMA WaitsSomewhere ==
    ASSUME Delivery, Locks, ~ Rendering, NEW s \in Surfaces, renderLock[s] # 0
    PROVE  outPool # <<>> \/ curOut # NoOutput
<1> SUFFICES ASSUME outPool = <<>>, curOut = NoOutput, Mark(s) # NoOutput PROVE FALSE
  <2>1. NoOutput.surf = Null /\ Mark(s).surf = s /\ s # Null
    BY DEF NoOutput, Mark, Surfaces, Null
  <2>2. Mark(s) # NoOutput
    BY <2>1
  <2> QED  BY <2>2
<1>1. delivPool = <<>> /\ dcur = NoOutput
    BY DEF Delivery, DeliveryThread
<1>2. Is(NoOutput, Mark(s)) = 0
    BY DEF Is
<1>3. Occurrences(<<>>, Mark(s)) = 0
    BY OccurrencesEmpty
<1>4. Waiting(s) = 0
    BY <1>1, <1>2, <1>3 DEF Waiting
<1> QED  BY <1>4 DEF Locks, LocksCount

(* A surface of the pool in use that the library does not hold.            *)
LEMMA InUseWaits ==
    ASSUME Pools, Delivery, Locks, ~ Rendering, NEW s \in Surfaces, s \in Busy, s \notin libLock
    PROVE  outPool # <<>> \/ curOut # NoOutput
<1>1. renderLock[s] > 0
    BY DEF Busy
<1> QED  BY <1>1, WaitsSomewhere

(* Whatever the reason the main loop is stuck, it finds a surface.         *)
LEMMA StuckHasSurface ==
    ASSUME Control, Pools, Delivery, Locks, OutputQueue, LibraryHolds,
           ~ Rendering, NoStaleSurface, TakeSurfaces, Stuck(pool', vppPool')
    PROVE  outPool # <<>> \/ curOut # NoOutput
<1>1. /\ DecoderSurfaces \subseteq Surfaces /\ VppSurfaces \subseteq Surfaces
      /\ DecoderSurfaces \cap VppSurfaces = {}
      /\ Null \notin DecoderSurfaces /\ Null \notin VppSurfaces
      /\ libLock \subseteq DecoderSurfaces
      /\ PoolOf(pool, DecoderSurfaces) /\ PoolOf(vppPool, VppSurfaces)
    BY SurfaceSets DEF Control, StreamTypes, Pools, PoolsIn, LibraryIn, DecoderTypes
<1>2. CASE outCount = AsyncDepth
  <2>1. pc = "take"
    BY DEF TakeSurfaces
  <2> QED  BY <1>2, <2>1, QueueIsNotEmpty DEF FullQueueHasSurface
<1>3. CASE pool'.cur = Null
  <2>1. pool' = TakeFree(SyncFrameSurfaces(pool, Busy))
    BY DEF TakeSurfaces
  <2>2. DecoderSurfaces \subseteq Busy
    BY <1>1, <1>3, <2>1, NothingFree
  <2>3. /\ NumDecoder \in Nat /\ DecoderNeeds \in Nat /\ DecoderNeeds < NumDecoder
        /\ Cardinality(DecoderSurfaces) = NumDecoder
    <3>1. NumDecoder \in Nat /\ DecoderNeeds \in Nat /\ DecoderNeeds < NumDecoder
      BY PipelineAssumption
    <3>2. Cardinality(1..NumDecoder) = NumDecoder
      BY <3>1, FS_Interval
    <3> QED  BY <3>1, <3>2 DEF DecoderSurfaces
  <2>4. Cardinality(libLock) \in Nat /\ Cardinality(libLock) <= DecoderNeeds
    BY FS_CardinalityType DEF LibraryHolds
  <2>5. libLock # DecoderSurfaces
    BY <2>3, <2>4
  <2>6. PICK s \in DecoderSurfaces : s \notin libLock
    BY <1>1, <2>5
  <2> QED  BY <1>1, <2>2, <2>6, InUseWaits
<1>4. CASE VppIsUsed /\ vppPool'.cur = Null
  <2>1. vppPool' = TakeFree(SyncFrameSurfaces(vppPool, Busy))
    BY DEF TakeSurfaces
  <2>2. VppSurfaces \subseteq Busy
    BY <1>1, <1>4, <2>1, NothingFree
  <2>3. NumVpp > 0 /\ NumVpp \in Nat /\ NumDecoder \in Nat
    BY <1>4, PipelineAssumption DEF Control, StreamTypes, VppIsUsed
  <2>4. NumDecoder + 1 \in VppSurfaces
    BY <1>4, <2>3 DEF VppSurfaces, LastVpp
  <2> QED  BY <1>1, <2>2, <2>4, InUseWaits
<1> QED  BY <1>2, <1>3, <1>4 DEF Stuck

(* The library is given one surface more only while it holds fewer than it *)
(* needs.                                                                  *)
LEMMA LibraryStep ==
    ASSUME LibraryHolds, [Next]_vars
    PROVE  LibraryHolds'
<1> USE DEF decVars
<1>1. CASE \/ UNCHANGED vars \/ Done \/ StartRun \/ LeaveLoop \/ ReadNextFrame \/ TakeSurfaces
           \/ NeedsMoreData \/ DecodeTrouble \/ SyncNothing \/ SyncFails
           \/ SyncForDelivery \/ ResetEvent \/ PostDelivered \/ SyncAndDeliver
           \/ StuckReturns \/ CompareCounts \/ TimedWait \/ BusyReturns \/ DrainReturns
           \/ Drained \/ WaitDelivered \/ EndRun \/ JoinDelivery \/ Exit \/ DeliverLoop
  <2>1. libLock' = libLock
    BY <1>1 DEF vars, Done, StartRun, LeaveLoop, ReadNextFrame, TakeSurfaces, NeedsMoreData,
                DecodeTrouble, SyncNothing, SyncFails, SyncForDelivery,
                ResetEvent, PostDelivered, SyncAndDeliver, StuckReturns, CompareCounts,
                TimedWait, BusyReturns, DrainReturns, Drained, WaitDelivered, EndRun,
                JoinDelivery, Exit, DeliverLoop, DeliverTest, DeliverWait, DeliverTake,
                DeliverOutput, DeliverReturn, DeliverCount, DeliverSignal
  <2> QED  BY <2>1 DEF LibraryHolds
<1>2. CASE DecodeFrameAsync
  <2>1. libLock' = libLock \cup {pool.cur} /\ Cardinality(libLock) < DecoderNeeds
    BY <1>2 DEF DecodeFrameAsync, EmitFrame
  <2>2. IsFiniteSet(libLock) /\ Cardinality(libLock) \in Nat /\ DecoderNeeds \in Nat
    BY FS_CardinalityType, PipelineAssumption DEF LibraryHolds
  <2>3. /\ IsFiniteSet(libLock \cup {pool.cur})
        /\ \/ Cardinality(libLock \cup {pool.cur}) = Cardinality(libLock)
           \/ Cardinality(libLock \cup {pool.cur}) = Cardinality(libLock) + 1
    BY <2>2, FS_AddElement
  <2> QED  BY <2>1, <2>2, <2>3 DEF LibraryHolds
<1>3. CASE PullBuffered
  <2>1. libLock' = libLock
    BY <1>3 DEF PullBuffered, EmitFrame
  <2> QED  BY <2>1 DEF LibraryHolds
<1>4. CASE ResetDecoder
  <2>1. libLock' = {} /\ DecoderNeeds \in Nat
    BY <1>4, PipelineAssumption DEF ResetDecoder
  <2> QED  BY <2>1, FS_EmptySet DEF LibraryHolds
<1>5. ASSUME NEW s \in Surfaces, LibraryUnlocks(s) PROVE LibraryHolds'
  <2>1. libLock' \subseteq libLock /\ IsFiniteSet(libLock)
        /\ Cardinality(libLock) <= DecoderNeeds /\ DecoderNeeds \in Nat
    BY <1>5, PipelineAssumption DEF LibraryUnlocks, LibraryHolds
  <2>2. /\ IsFiniteSet(libLock') /\ Cardinality(libLock') <= Cardinality(libLock)
        /\ Cardinality(libLock') \in Nat /\ Cardinality(libLock) \in Nat
    BY <2>1, FS_Subset, FS_CardinalityType
  <2> QED  BY <2>1, <2>2 DEF LibraryHolds
<1> QED  BY <1>1, <1>2, <1>3, <1>4, <1>5 DEF Next, MainThread

LEMMA FoundStep ==
    ASSUME Control, Pools, Delivery, Locks, OutputQueue, LibraryHolds, SurfaceFound, [Next]_vars
    PROVE  SurfaceFound'
<1> USE DEF ctlVars, loopVars, inVars, decVars, poolVars, outVars, delivVars, thrVars,
            cntVars
<1>1. Rendering' = Rendering /\ (NoStaleSurface' => NoStaleSurface)
    BY ConfigurationKept
<1> SUFFICES ASSUME ~ Rendering, NoStaleSurface
             PROVE  /\ sts' # "not_found" /\ res' # "not_found" /\ pc' # "counts"
                    /\ caller' = "stuck" /\ pc' = "sync" => curOut' # NoOutput \/ outPool' # <<>>
                    /\ caller' = "stuck" /\ pc' = "return" => res' # "more_data"
    BY <1>1 DEF SurfaceFound
<1> DEFINE Goal ==
        /\ sts' # "not_found" /\ res' # "not_found" /\ pc' # "counts"
        /\ caller' = "stuck" /\ pc' = "sync" => curOut' # NoOutput \/ outPool' # <<>>
        /\ caller' = "stuck" /\ pc' = "return" => res' # "more_data"
<1>2. /\ sts # "not_found" /\ res # "not_found" /\ pc # "counts"
      /\ caller = "stuck" /\ pc = "sync" => curOut # NoOutput \/ outPool # <<>>
      /\ caller = "stuck" /\ pc = "return" => res # "more_data"
    BY DEF SurfaceFound
<1>3. ASSUME UNCHANGED <<pc, sts, caller, res, curOut, outPool>> PROVE Goal
    BY <1>2, <1>3
<1>4. ASSUME TakeSurfaces PROVE Goal
  <2>1. /\ pc = "take" /\ UNCHANGED <<res, curOut, outPool>> /\ (sts' = sts \/ sts' = "none")
        /\ pc' \in {"sync", "end", "decode"}
        /\ pc' = "sync" => Stuck(pool', vppPool')
    BY <1>4 DEF TakeSurfaces, CallSync
  <2>2. pc' = "sync" => curOut' # NoOutput \/ outPool' # <<>>
    BY <1>4, <2>1, StuckHasSurface
  <2> QED  BY <1>2, <2>1, <2>2
<1>5. ASSUME DecodeFrameAsync \/ PullBuffered PROVE Goal
  <2>1. /\ \/ pc' = "top" /\ sts' = "none"
           \/ pc' = "end" /\ sts' = "failed"
           \/ pc' = "top" /\ sts' \in {"more_surface", "more_data"}
           \/ pc' = "sync" /\ caller' = "drain" /\ sts' = sts
        /\ res' = res
    BY <1>5, DecodeOutputs DEF DecodeFrameAsync, PullBuffered
  <2> QED  BY <1>2, <2>1
<1>6. ASSUME StartRun \/ LeaveLoop \/ ReadNextFrame PROVE Goal
    BY <1>2, <1>6 DEF StartRun, LeaveLoop, ReadNextFrame
<1>7. ASSUME NeedsMoreData \/ DecodeTrouble PROVE Goal
    BY <1>2, <1>7 DEF NeedsMoreData, DecodeTrouble, CallSync
<1>8. ASSUME SyncNothing PROVE Goal
    BY <1>2, <1>8 DEF SyncNothing
<1>9. ASSUME SyncFails \/ SyncAndDeliver PROVE Goal
    BY <1>2, <1>9 DEF SyncFails, SyncAndDeliver
<1>10. ASSUME SyncForDelivery \/ ResetEvent \/ PostDelivered PROVE Goal
    BY <1>2, <1>10 DEF SyncForDelivery, ResetEvent, PostDelivered
<1>11. ASSUME StuckReturns PROVE Goal
    BY <1>2, <1>11 DEF StuckReturns
<1>12. ASSUME CompareCounts \/ TimedWait PROVE Goal
    BY <1>2, <1>12 DEF CompareCounts, TimedWait
<1>13. ASSUME BusyReturns PROVE Goal
    BY <1>2, <1>13 DEF BusyReturns
<1>14. ASSUME DrainReturns PROVE Goal
    BY <1>2, <1>14 DEF DrainReturns
<1>15. ASSUME Drained \/ WaitDelivered \/ EndRun \/ JoinDelivery \/ Exit PROVE Goal
    BY <1>2, <1>15 DEF Drained, WaitDelivered, EndRun, JoinDelivery, Exit
<1>16. ASSUME ResetDecoder PROVE Goal
    BY <1>2, <1>16 DEF ResetDecoder
<1>17. ASSUME DeliverLoop PROVE Goal
    BY <1>3, <1>17 DEF DeliverLoop, DeliverTest, DeliverWait, DeliverTake, DeliverOutput,
                       DeliverReturn, DeliverCount, DeliverSignal
<1>18. ASSUME NEW s \in Surfaces, LibraryUnlocks(s) PROVE Goal
    BY <1>3, <1>18 DEF LibraryUnlocks
<1>19. ASSUME UNCHANGED vars PROVE Goal
    BY <1>3, <1>19 DEF vars
<1> HIDE DEF Goal
<1>20. Goal
    BY <1>4, <1>5, <1>6, <1>7, <1>8, <1>9, <1>10, <1>11, <1>12, <1>13, <1>14, <1>15,
       <1>16, <1>17, <1>18, <1>19 DEF Next, MainThread, Done
<1> QED  BY <1>20 DEF Goal

(* The library never holds more of the decoder's surfaces than it needs,   *)
(* and a main loop that is stuck has a surface to wait for.                *)
THEOREM FoundHolds == Spec => [](LibraryHolds /\ SurfaceFound)
<1>1. Init => LibraryHolds /\ SurfaceFound
  <2> SUFFICES ASSUME Init PROVE LibraryHolds /\ SurfaceFound
    OBVIOUS
  <2>1. libLock = {} /\ sts = "none" /\ res = "none" /\ pc = "start"
    BY Zenon DEF Init
  <2>2. LibraryHolds
    BY <2>1, FS_EmptySet, PipelineAssumption DEF LibraryHolds
  <2> QED  BY <2>1, <2>2 DEF SurfaceFound
<1>2. Control /\ Pools /\ Delivery /\ Locks /\ OutputQueue /\ LibraryHolds /\ SurfaceFound
      /\ [Next]_vars => (LibraryHolds /\ SurfaceFound)'
    BY LibraryStep, FoundStep
<1> QED  BY <1>1, <1>2, PoolsHold, DeliveryHolds, LocksHold, QueueHolds, PTL DEF Spec

(* Without a delivery thread "failed to find output surface, that's a      *)
(* bug!" is out of reach, whatever fails and however often the decoder is  *)
(* reset, unless SyncOperation itself failed before a reset: no path loses *)
(* a surface, so one is free or there is one to wait for.                  *)
THEOREM SurfaceIsFound == Spec => [](NoStaleSurface => SurfaceFoundWithoutThread)
<1>1. SurfaceFound => (NoStaleSurface => SurfaceFoundWithoutThread)
    BY DEF SurfaceFound, SurfaceFoundWithoutThread, SurfaceAlwaysFound
<1> QED  BY <1>1, FoundHolds, PTL

----------------------------------------------------------------------------
(* Nothing is missing at the end.  When only failures happen that the      *)
(* program forgives or recovers from, every frame the decoder took from    *)
(* the stream is in exactly one place: kept back by the decoder, in the    *)
(* output queue, with the surface that SyncOperation failed on, on its way *)
(* to the delivery thread, or delivered.  Until m_nFrames were delivered   *)
(* no path drops one, and the loop is left with a status that is no error  *)
(* only when all these places are empty and the stream was read.           *)

NothingFails == opt.may \subseteq Forgiven

One(b) == IF b THEN 1 ELSE 0

StatusesForgiven ==
    /\ sts \in Going \cup {"gpu_hang", "not_found"}
    /\ res \in {"none", "more_data", "gpu_hang"}
    /\ error = "none" /\ (stop => pc \in {"join", "app", "done"})
    /\ IF Rendering THEN ~incompatible /\ alloc = 1
                    ELSE dpc = "none" /\ synced = output

DeliveredCounted == Len(delivered) = output + One(dpc \in {"return", "count"})

FramesCounted ==
    consumed = Len(decQ) + Len(outPool) + One(curOut # NoOutput)
               + Len(delivPool) + One(dpc = "deliver") + Len(delivered)

WholeStream == incompatible \/ consumed = NumFrames

StreamRead ==
    /\ pc = "top" /\ sts = "more_data" => consumed = fed
    /\ ~pBitstream /\ pc \notin {"start", "done"} => WholeStream

\* the end of the stream: the decoder has nothing more, then the queue
Emptying ==
    caller = "drain" /\ pc \in {"sync", "reset", "post", "return"}
        => ~pBitstream /\ decQ = <<>>

NothingQueued ==
    res = "more_data" /\ pc = "return" => outPool = <<>> /\ curOut = NoOutput

Emptied ==
    pc \in {"drained", "wait"} /\ sts \notin Errors =>
        ~pBitstream /\ decQ = <<>> /\ outPool = <<>> /\ curOut = NoOutput

AllDelivered ==
    pc \in {"end", "join", "app"} /\ sts \notin Errors =>
        WholeStream /\ Len(delivered) = consumed

Accounted ==
    /\ FramesCounted /\ StreamRead /\ Emptying /\ NothingQueued
    /\ Emptied /\ AllDelivered

CompleteInv ==
    NothingFails =>
        /\ StatusesForgiven /\ DeliveredCounted
        /\ output < FrameLimit => Accounted
        /\ FinishedMeansComplete

(* The failures that do not happen then.                                   *)
LEMMA NotForgiven ==
    ASSUME NothingFails
    PROVE  /\ ~ Fault("sync_timeout") /\ ~ Fault("sync_failed")
           /\ ~ Fault("deliver_failed") /\ ~ Fault("decode_failed")
           /\ ~ Fault("vpp_failed") /\ ~ Fault("realloc_failed")
           /\ ~ Fault("wait_timeout")
           /\ Rendering => ~ Fault("incompatible")
<1>1. /\ "sync_timeout" \notin Forgiven /\ "sync_failed" \notin Forgiven
      /\ "deliver_failed" \notin Forgiven /\ "decode_failed" \notin Forgiven
      /\ "vpp_failed" \notin Forgiven /\ "realloc_failed" \notin Forgiven
      /\ "wait_timeout" \notin Forgiven
      /\ Rendering => "incompatible" \notin Forgiven
    BY DEF Forgiven
<1> QED  BY <1>1 DEF NothingFails, Fault

(* A frame the decoder outputs goes from its queue to the output queue.    *)
LEMMA EmittedFrame ==
    ASSUME Control, Pools, OutputTypes, NothingFails, pc = "decode",
           NEW q \in Seq(DecoderSurfaces), q # <<>>, NEW lock, NEW cont,
           EmitFrame(q, cont, lock)
    PROVE  /\ pc' = "top" /\ sts' = "none"
           /\ Len(decQ') = Len(q) - 1 /\ Len(outPool') = Len(outPool) + 1
<1>1. pc' = "top" /\ decQ' = Tail(q)
    BY NotForgiven DEF EmitFrame
<1>2. sts' = "none" /\ \E s \in Surfaces : QueueOutput(s)
    BY <1>1, EmitOutput
<1>3. PICK s \in Surfaces : QueueOutput(s)
    BY <1>2
<1>4. outPool' = Append(outPool, [surf |-> s, alloc |-> alloc])
    BY <1>3 DEF QueueOutput
<1>5. [surf |-> s, alloc |-> alloc] \in Output /\ outPool \in Seq(Output)
    BY <1>3, QueuedOutput DEF OutputTypes
<1>6. Len(outPool') = Len(outPool) + 1
    BY <1>4, <1>5, AppendElements
<1>7. Len(decQ') = Len(q) - 1
    BY <1>1, TailElements
<1> QED  BY <1>1, <1>2, <1>6, <1>7

LEMMA DecodedFrame ==
    ASSUME Control, Pools, OutputTypes, NothingFails, DecodeFrameAsync
    PROVE  /\ pc' = "top" /\ sts' \in {"none", "more_surface", "more_data"}
           /\ sts' = "more_data" => consumed' = fed'
           /\ consumed' = consumed + 1 /\ pBitstream
           /\ Len(decQ') + Len(outPool') = Len(decQ) + Len(outPool) + 1
<1>1. decQ \in Seq(DecoderSurfaces) /\ outPool \in Seq(Output)
    BY DEF Pools, LibraryIn, DecoderTypes, OutputTypes
<1>2. pc = "decode" /\ pool.cur # Null /\ PoolOf(pool, DecoderSurfaces)
    BY DEF DecodeFrameAsync, Pools, PoolsIn, HeldSurfaces, HasSurfaces
<1>3. pool.cur \in DecoderSurfaces
    BY <1>2, AvailableIn, SurfaceSets DEF Control, StreamTypes
<1> DEFINE q == Append(decQ, pool.cur)
<1>4. /\ q \in Seq(DecoderSurfaces) /\ q # <<>>
      /\ Len(q) = Len(decQ) + 1 /\ Len(decQ) \in Nat
    BY <1>1, <1>3, AppendElements, AppendNonempty
<1>5. Len(outPool) \in Nat
    BY <1>1, LenProperties
<1>6. pBitstream /\ consumed' = consumed + 1 /\ fed' = fed
    BY DEF DecodeFrameAsync, loopVars
<1>7. ASSUME NEW cont, NEW lock, EmitFrame(q, cont, lock)
      PROVE  /\ pc' = "top" /\ sts' = "none"
             /\ Len(decQ') = Len(q) - 1 /\ Len(outPool') = Len(outPool) + 1
  <2> HIDE DEF q
  <2> QED  BY <1>2, <1>4, <1>7, EmittedFrame
<1>8. CASE \E cont, lock : EmitFrame(q, cont, lock)
  <2>1. /\ pc' = "top" /\ sts' = "none"
        /\ Len(decQ') = Len(q) - 1 /\ Len(outPool') = Len(outPool) + 1
    BY <1>7, <1>8
  <2>2. Len(decQ') + Len(outPool') = Len(decQ) + Len(outPool) + 1
    BY <1>4, <1>5, <2>1
  <2> QED  BY <1>6, <2>1, <2>2
<1>9. CASE /\ decQ' = q /\ outPool' = outPool /\ pc' = "top"
           /\ sts' = "more_surface" \/ (sts' = "more_data" /\ consumed' = fed)
  <2>1. Len(decQ') + Len(outPool') = Len(decQ) + Len(outPool) + 1
    BY <1>4, <1>5, <1>9
  <2> QED  BY <1>6, <1>9, <2>1
<1> QED  BY <1>8, <1>9 DEF DecodeFrameAsync

LEMMA PulledFrame ==
    ASSUME Control, Pools, OutputTypes, NothingFails, PullBuffered
    PROVE  /\ pc = "decode" /\ ~pBitstream
           /\ \/ pc' = "top" /\ sts' = "none"
              \/ pc' = "sync" /\ caller' = "drain" /\ sts' = sts /\ decQ' = <<>>
           /\ Len(decQ') + Len(outPool') = Len(decQ) + Len(outPool)
<1>1. decQ \in Seq(DecoderSurfaces) /\ outPool \in Seq(Output)
    BY DEF Pools, LibraryIn, DecoderTypes, OutputTypes
<1>2. pc = "decode" /\ ~pBitstream
    BY DEF PullBuffered
<1>3. Len(decQ) \in Nat /\ Len(outPool) \in Nat
    BY <1>1, LenProperties
<1>4. CASE decQ # <<>> /\ EmitFrame(decQ, content, libLock)
  <2>1. /\ pc' = "top" /\ sts' = "none"
        /\ Len(decQ') = Len(decQ) - 1 /\ Len(outPool') = Len(outPool) + 1
    BY <1>1, <1>2, <1>4, EmittedFrame
  <2>2. Len(decQ') + Len(outPool') = Len(decQ) + Len(outPool)
    BY <1>3, <2>1
  <2> QED  BY <1>2, <2>1, <2>2
<1>5. CASE decQ = <<>> /\ CallSync("drain") /\ UNCHANGED <<sts, decQ, outPool>>
    BY <1>2, <1>5 DEF CallSync
<1> QED  BY <1>4, <1>5 DEF PullBuffered, decVars

(* The surface that is synchronised leaves m_pCurrentOutputSurface or the  *)
(* output queue.                                                           *)
LEMMA OldestLeaves ==
    ASSUME OutputTypes, curOut # NoOutput \/ outPool # <<>>, TakeOldest
    PROVE  /\ Oldest # NoOutput
           /\ Len(outPool') + 1 = Len(outPool) + One(curOut # NoOutput)
<1>1. outPool \in Seq(Output) /\ Len(outPool) \in Nat
    BY LenProperties DEF OutputTypes
<1>2. Oldest # NoOutput
    BY OldestOutput, OutputIsNotNone
<1>3. CASE curOut # NoOutput
    BY <1>1, <1>2, <1>3 DEF TakeOldest, One
<1>4. CASE curOut = NoOutput
  <2>1. outPool # <<>> /\ outPool' = Tail(outPool)
    BY <1>4 DEF TakeOldest
  <2>2. Len(outPool') = Len(outPool) - 1
    BY <1>1, <2>1, TailElements
  <2>3. One(curOut # NoOutput) = 0
    BY <1>4 DEF One
  <2> QED  BY <1>1, <1>2, <2>2, <2>3
<1> QED  BY <1>3, <1>4

LEMMA StatusesStep ==
    ASSUME Control, Pools, Delivery, Delivery', NothingFails, StatusesForgiven, [Next]_vars
    PROVE  StatusesForgiven'
<1> DEFINE Goal == StatusesForgiven'
<1> USE DEF ctlVars, loopVars, inVars, decVars, poolVars, outVars, delivVars, thrVars,
            cntVars, Going, Errors, Warnings, CallSync
<1>1. /\ sts \in Going \cup {"gpu_hang", "not_found"}
      /\ res \in {"none", "more_data", "gpu_hang"}
      /\ error = "none" /\ (stop => pc \in {"join", "app", "done"})
      /\ Rendering => ~incompatible /\ alloc = 1
      /\ ~ Rendering => dpc = "none" /\ synced = output
    BY DEF StatusesForgiven
<1>2. Rendering' = Rendering
    BY ConfigurationKept
<1>3. /\ error' # "null_ptr" /\ (~ Rendering => dpc' = "none" /\ stop' = FALSE)
      /\ ~ Rendering => stop = FALSE
    BY <1>2 DEF Delivery, DeliveryThread
<1>4. OutputTypes
    BY DEF Delivery
<1>5. ASSUME DecodeFrameAsync PROVE Goal
  <2>1. pc = "decode" /\ UNCHANGED <<res, loopVars, alloc, thrVars, cntVars>>
    BY <1>5 DEF DecodeFrameAsync
  <2>2. sts' \in {"none", "more_surface", "more_data"}
    BY <1>4, <1>5, DecodedFrame
  <2> QED  BY <1>1, <1>2, <2>1, <2>2 DEF StatusesForgiven
<1>6. ASSUME PullBuffered PROVE Goal
  <2>1. pc = "decode" /\ UNCHANGED <<res, loopVars, alloc, thrVars, cntVars>>
    BY <1>6 DEF PullBuffered
  <2>2. sts' \in {"none", sts}
    BY <1>4, <1>6, PulledFrame
  <2> QED  BY <1>1, <1>2, <2>1, <2>2 DEF StatusesForgiven
<1>7. ASSUME StartRun \/ LeaveLoop \/ ReadNextFrame \/ TakeSurfaces \/ NeedsMoreData
      PROVE Goal
    BY <1>1, <1>2, <1>3, <1>7 DEF StatusesForgiven, StartRun, LeaveLoop, ReadNextFrame,
                       TakeSurfaces, NeedsMoreData
<1>8. ASSUME DecodeTrouble PROVE Goal
    BY <1>1, <1>2, <1>8, NotForgiven DEF StatusesForgiven, DecodeTrouble
<1>9. ASSUME SyncNothing \/ SyncFails \/ SyncForDelivery \/ ResetEvent \/ PostDelivered
      PROVE Goal
    BY <1>1, <1>2, <1>9, NotForgiven
       DEF StatusesForgiven, SyncNothing, SyncFails, SyncForDelivery, ResetEvent, PostDelivered
<1>10. ASSUME SyncAndDeliver PROVE Goal
    BY <1>1, <1>2, <1>10, NotForgiven DEF StatusesForgiven, SyncAndDeliver
<1>11. ASSUME StuckReturns \/ CompareCounts \/ TimedWait PROVE Goal
    BY <1>1, <1>2, <1>11, NotForgiven DEF StatusesForgiven, StuckReturns, CompareCounts, TimedWait
<1>12. ASSUME BusyReturns \/ DrainReturns \/ Drained \/ WaitDelivered PROVE Goal
    BY <1>1, <1>2, <1>12 DEF StatusesForgiven, BusyReturns, DrainReturns, Drained, WaitDelivered
<1>13. ASSUME EndRun \/ JoinDelivery \/ Exit PROVE Goal
    BY <1>1, <1>2, <1>3, <1>13 DEF StatusesForgiven, EndRun, JoinDelivery, Exit
<1>14. ASSUME ResetDecoder PROVE Goal
  <2>1. /\ RunStatus \in {"incompatible", "failed"}
        /\ UNCHANGED <<sts, res, loopVars, thrVars, cntVars>>
    BY <1>14 DEF ResetDecoder, Recoverable
  <2>2. incompatible
    BY <1>1, <2>1 DEF RunStatus
  <2> QED  BY <1>1, <1>2, <1>3, <2>1, <2>2 DEF StatusesForgiven
<1>15. ASSUME DeliverLoop PROVE Goal
  <2>1. /\ UNCHANGED <<pc, sts, res, loopVars, alloc, stop, synced>>
        /\ dpc # "none" /\ error' \in {error, "unknown", "null_ptr"}
    BY <1>15 DEF DeliverLoop, DeliverTest, DeliverWait, DeliverTake, DeliverOutput,
                 DeliverReturn, DeliverCount, DeliverSignal
  <2>2. error' # "unknown"
    BY <1>1, <1>15, NotForgiven
       DEF DeliverLoop, DeliverTest, DeliverWait, DeliverTake, DeliverOutput,
           DeliverReturn, DeliverCount, DeliverSignal
  <2> QED  BY <1>1, <1>2, <1>3, <2>1, <2>2 DEF StatusesForgiven
<1>16. ASSUME NEW s \in Surfaces, LibraryUnlocks(s) PROVE Goal
    BY <1>1, <1>2, <1>16 DEF StatusesForgiven, LibraryUnlocks
<1>17. ASSUME UNCHANGED vars PROVE Goal
    BY <1>1, <1>2, <1>17 DEF StatusesForgiven, vars
<1> HIDE DEF Goal
<1>18. Goal
    BY <1>5, <1>6, <1>7, <1>8, <1>9, <1>10, <1>11, <1>12, <1>13, <1>14, <1>15,
       <1>16, <1>17 DEF Next, MainThread, Done
<1> QED  BY <1>18 DEF Goal


LEMMA DeliveredStep ==
    ASSUME Control, Pools, Delivery, NothingFails, StatusesForgiven, DeliveredCounted,
           [Next]_vars
    PROVE  DeliveredCounted' /\ output' >= output /\ Len(delivered') >= Len(delivered)
<1> DEFINE Goal == /\ DeliveredCounted' /\ output' >= output
                   /\ Len(delivered') >= Len(delivered)
<1> USE DEF ctlVars, loopVars, inVars, decVars, poolVars, outVars, delivVars, thrVars,
            cntVars
<1>1. /\ output \in Nat /\ Len(delivered) \in Nat
      /\ Len(delivered) = output + One(dpc \in {"return", "count"})
      /\ ~ Rendering => dpc = "none" /\ synced = output
      /\ pc \in {"start", "app", "done"} => dpc = "none"
      /\ error = "none"
    BY LenProperties
       DEF DeliveredCounted, StatusesForgiven, Control, ThreadTypes, Delivery, DeliveryThread,
           OutputTypes
<1>2. ASSUME UNCHANGED <<output, delivered>>,
             dpc' \in {"return", "count"} <=> dpc \in {"return", "count"}
      PROVE  Goal
  <2>1. One(dpc' \in {"return", "count"}) = One(dpc \in {"return", "count"})
    BY <1>2 DEF One
  <2> QED  BY <1>1, <1>2, <2>1 DEF DeliveredCounted
<1>3. ASSUME NEW s \in Surfaces, delivered' = Append(delivered, content[s])
      PROVE  Len(delivered') = Len(delivered) + 1
  <2>1. delivered \in Seq(0..NumFrames) /\ content[s] \in 0..NumFrames
    BY DEF Delivery, OutputTypes, Pools, LibraryIn, DecoderTypes
  <2> QED  BY <1>3, <2>1, AppendElements
<1>4. ASSUME \/ LeaveLoop \/ ReadNextFrame \/ TakeSurfaces
             \/ DecodeFrameAsync \/ NeedsMoreData \/ PullBuffered \/ DecodeTrouble
             \/ SyncNothing \/ SyncFails \/ SyncForDelivery \/ ResetEvent
             \/ PostDelivered \/ StuckReturns \/ CompareCounts \/ TimedWait
             \/ BusyReturns \/ DrainReturns \/ Drained \/ WaitDelivered
             \/ EndRun \/ Exit \/ ResetDecoder \/ UNCHANGED vars
             \/ \E s \in Surfaces : LibraryUnlocks(s)
      PROVE  Goal
  <2>1. UNCHANGED <<output, delivered, dpc>>
    BY <1>4 DEF LeaveLoop, ReadNextFrame, TakeSurfaces,
       DecodeFrameAsync, NeedsMoreData, PullBuffered, DecodeTrouble,
       SyncNothing, SyncFails, SyncForDelivery, ResetEvent, PostDelivered,
       StuckReturns, CompareCounts, TimedWait, BusyReturns, DrainReturns, Drained,
       WaitDelivered, EndRun, Exit, ResetDecoder, vars, LibraryUnlocks
  <2> QED  BY <1>2, <2>1
<1>5. ASSUME StartRun \/ JoinDelivery PROVE Goal
  <2>1. UNCHANGED <<output, delivered>> /\ dpc \in {"none", "ended"} /\ dpc' \in {"none", "test"}
    BY <1>1, <1>5 DEF StartRun, JoinDelivery
  <2> QED  BY <1>2, <2>1
<1>6. ASSUME SyncAndDeliver PROVE Goal
  <2>1. Oldest.surf \in Surfaces
    BY <1>6, OldestOutput DEF SyncAndDeliver, Delivery, Output
  <2>2. /\ delivered' = Append(delivered, content[Oldest.surf])
        /\ output' = synced + 1 /\ ~ Rendering /\ UNCHANGED dpc
    BY <1>6, NotForgiven DEF SyncAndDeliver
  <2>3. Len(delivered') = Len(delivered) + 1
    BY <1>3, <2>1, <2>2
  <2>4. /\ One(dpc \in {"return", "count"}) = 0 /\ One(dpc' \in {"return", "count"}) = 0
        /\ output' = output + 1
    BY <1>1, <2>2 DEF One
  <2> QED  BY <1>1, <2>3, <2>4 DEF DeliveredCounted
<1>7. ASSUME DeliverTest \/ DeliverWait \/ DeliverTake \/ DeliverSignal \/ DeliverReturn
      PROVE  Goal
  <2>1. UNCHANGED <<output, delivered>>
    BY <1>7 DEF DeliverTest, DeliverWait, DeliverTake, DeliverSignal, DeliverReturn
  <2>2. dpc' \in {"return", "count"} <=> dpc \in {"return", "count"}
    BY <1>7 DEF DeliverTest, DeliverWait, DeliverTake, DeliverSignal, DeliverReturn
  <2> QED  BY <1>2, <2>1, <2>2
<1>8. ASSUME DeliverOutput PROVE Goal
  <2>1. /\ dpc = "deliver" /\ dpc' = "return" /\ output' = output
        /\ delivered' = Append(delivered, content[dcur.surf])
    BY <1>8, NotForgiven DEF DeliverOutput
  <2>2. dcur.surf \in Surfaces
    BY <2>1 DEF Delivery, DeliveryThread, OutputTypes, Outputs, Output
  <2>3. Len(delivered') = Len(delivered) + 1
    BY <1>3, <2>1, <2>2
  <2>4. One(dpc \in {"return", "count"}) = 0 /\ One(dpc' \in {"return", "count"}) = 1
    BY <2>1 DEF One
  <2> QED  BY <1>1, <2>1, <2>3, <2>4 DEF DeliveredCounted
<1>9. ASSUME DeliverCount PROVE Goal
  <2>1. /\ dpc = "count" /\ dpc' = "signal" /\ output' = output + 1
        /\ delivered' = delivered
    BY <1>9 DEF DeliverCount
  <2>2. One(dpc \in {"return", "count"}) = 1 /\ One(dpc' \in {"return", "count"}) = 0
    BY <2>1 DEF One
  <2> QED  BY <1>1, <2>1, <2>2 DEF DeliveredCounted
<1> HIDE DEF Goal
<1>10. Goal
    BY <1>4, <1>5, <1>6, <1>7, <1>8, <1>9 DEF Next, MainThread, DeliverLoop, Done
<1> QED  BY <1>10 DEF Goal

(* Every frame is counted in exactly one place, whatever the step.  Only a *)
(* reset empties the places, and it is reached when they are empty.        *)
LEMMA FramesStep ==
    ASSUME Control, Pools, Delivery, Delivery', NothingFails, StatusesForgiven,
           FramesCounted, AllDelivered, [Next]_vars
    PROVE  FramesCounted'
<1> DEFINE a == Len(decQ)        a1 == Len(decQ')
           b == Len(outPool)     b1 == Len(outPool')
           u == One(curOut # NoOutput)  u1 == One(curOut' # NoOutput)
           e == Len(delivPool)   e1 == Len(delivPool')
           f == One(dpc = "deliver")    f1 == One(dpc' = "deliver")
           d == Len(delivered)   d1 == Len(delivered')
           Goal == consumed' = a1 + b1 + u1 + e1 + f1 + d1
<1> USE DEF ctlVars, loopVars, inVars, decVars, poolVars, outVars, delivVars, thrVars,
            cntVars
<1>1. /\ decQ \in Seq(DecoderSurfaces) /\ outPool \in Seq(Output)
      /\ delivPool \in Seq(Output) /\ delivered \in Seq(0..NumFrames)
      /\ content \in [Surfaces -> 0..NumFrames]
      /\ OutputTypes /\ error' # "null_ptr"
      /\ pc \in {"start", "app", "done"} => dpc = "none"
    BY DEF Delivery, DeliveryThread, OutputTypes, Pools, LibraryIn, DecoderTypes
<1>2. a \in Nat /\ b \in Nat /\ e \in Nat /\ d \in Nat
    BY <1>1, LenProperties
<1>3. u \in {0, 1} /\ f \in {0, 1}
    BY DEF One
<1>4. /\ consumed = a + b + u + e + f + d
      /\ consumed \in Nat
  <2>1. fed \in 0..NumFrames /\ consumed \in 0..fed /\ NumFrames \in Nat
    BY ConfigurationFacts DEF Control, StreamTypes
  <2> QED  BY <2>1 DEF FramesCounted
<1>5. ASSUME NEW s \in Surfaces, delivered' = Append(delivered, content[s])
      PROVE  d1 = d + 1
  <2>1. content[s] \in 0..NumFrames
    BY <1>1
  <2> QED  BY <1>1, <1>5, <2>1, AppendElements
<1>6. ASSUME UNCHANGED <<consumed, decQ, outPool, curOut, delivPool, delivered>>,
             dpc' = "deliver" <=> dpc = "deliver"
      PROVE  Goal
  <2>1. f1 = f
    BY <1>6 DEF One
  <2>2. a1 = a /\ b1 = b /\ u1 = u /\ e1 = e /\ d1 = d /\ consumed' = consumed
    BY <1>6
  <2> HIDE DEF a, a1, b, b1, u, u1, e, e1, f, f1, d, d1
  <2> QED  BY <1>2, <1>3, <1>4, <2>1, <2>2
<1>7. ASSUME \/ LeaveLoop \/ ReadNextFrame \/ TakeSurfaces
             \/ NeedsMoreData \/ DecodeTrouble
             \/ SyncNothing \/ ResetEvent
             \/ PostDelivered \/ StuckReturns \/ CompareCounts \/ TimedWait
             \/ BusyReturns \/ DrainReturns \/ Drained \/ WaitDelivered
             \/ EndRun \/ Exit \/ UNCHANGED vars
             \/ \E s \in Surfaces : LibraryUnlocks(s)
      PROVE  Goal
  <2>1. UNCHANGED <<consumed, decQ, outPool, curOut, delivPool, delivered, dpc>>
    BY <1>7 DEF LeaveLoop, ReadNextFrame, TakeSurfaces, NeedsMoreData, DecodeTrouble,
       SyncNothing, ResetEvent, PostDelivered,
       StuckReturns, CompareCounts, TimedWait, BusyReturns, DrainReturns, Drained,
       WaitDelivered, EndRun, Exit, vars, LibraryUnlocks
  <2> QED  BY <1>6, <2>1
<1>8. ASSUME StartRun \/ JoinDelivery PROVE Goal
  <2>1. /\ UNCHANGED <<consumed, decQ, outPool, curOut, delivPool, delivered>>
        /\ dpc \in {"none", "ended"} /\ dpc' \in {"none", "test"}
    BY <1>1, <1>8 DEF StartRun, JoinDelivery
  <2> QED  BY <1>6, <2>1
<1>9. ASSUME DecodeFrameAsync PROVE Goal
  <2>1. consumed' = consumed + 1 /\ a1 + b1 = a + b + 1
    BY <1>1, <1>9, DecodedFrame
  <2>2. u1 = u /\ e1 = e /\ f1 = f /\ d1 = d
    BY <1>9 DEF DecodeFrameAsync
  <2>3. a1 \in Nat /\ b1 \in Nat
    BY <1>9, ConfigurationKept, PoolsStep, LenProperties
       DEF Pools, LibraryIn, DecoderTypes, Delivery, OutputTypes
  <2> HIDE DEF a, a1, b, b1, u, u1, e, e1, f, f1, d, d1
  <2> QED  BY <1>2, <1>3, <1>4, <2>1, <2>2, <2>3
<1>10. ASSUME PullBuffered PROVE Goal
  <2>1. consumed' = consumed /\ a1 + b1 = a + b
    BY <1>1, <1>10, PulledFrame DEF PullBuffered
  <2>2. u1 = u /\ e1 = e /\ f1 = f /\ d1 = d
    BY <1>10 DEF PullBuffered
  <2>3. a1 \in Nat /\ b1 \in Nat
    BY <1>10, ConfigurationKept, PoolsStep, LenProperties
       DEF Pools, LibraryIn, DecoderTypes, Delivery, OutputTypes
  <2> HIDE DEF a, a1, b, b1, u, u1, e, e1, f, f1, d, d1
  <2> QED  BY <1>2, <1>3, <1>4, <2>1, <2>2, <2>3
<1>11. ASSUME SyncFails PROVE Goal
  <2>1. Oldest # NoOutput /\ b1 + 1 = b + u
    BY <1>1, <1>11, OldestLeaves DEF SyncFails
  <2>2. u1 = 1
    BY <1>11, <2>1 DEF SyncFails, One
  <2>3. a1 = a /\ e1 = e /\ f1 = f /\ d1 = d /\ consumed' = consumed
    BY <1>11 DEF SyncFails
  <2>4. b1 \in Nat
    BY LenProperties DEF Delivery, OutputTypes
  <2> HIDE DEF a, a1, b, b1, u, u1, e, e1, f, f1, d, d1
  <2> QED  BY <1>2, <1>3, <1>4, <2>1, <2>2, <2>3, <2>4
<1>12. ASSUME SyncForDelivery PROVE Goal
  <2>1. b1 + 1 = b + u /\ Oldest \in Output
    BY <1>1, <1>12, OldestLeaves, OldestOutput DEF SyncForDelivery
  <2>2. u1 = 0
    BY <1>12 DEF SyncForDelivery, One
  <2>3. delivPool' = Append(delivPool, Oldest)
    BY <1>12 DEF SyncForDelivery
  <2>4. e1 = e + 1
    BY <1>1, <2>1, <2>3, AppendElements
  <2>5. a1 = a /\ f1 = f /\ d1 = d /\ consumed' = consumed
    BY <1>12 DEF SyncForDelivery
  <2>6. b1 \in Nat
    BY LenProperties DEF Delivery, OutputTypes
  <2> HIDE DEF a, a1, b, b1, u, u1, e, e1, f, f1, d, d1
  <2> QED  BY <1>2, <1>3, <1>4, <2>1, <2>2, <2>4, <2>5, <2>6
<1>13. ASSUME SyncAndDeliver PROVE Goal
  <2>1. b1 + 1 = b + u /\ Oldest.surf \in Surfaces
    BY <1>1, <1>13, OldestLeaves, OldestOutput DEF SyncAndDeliver, Output
  <2>2. u1 = 0
    BY <1>13 DEF SyncAndDeliver, One
  <2>3. delivered' = Append(delivered, content[Oldest.surf])
    BY <1>13, NotForgiven DEF SyncAndDeliver
  <2>4. d1 = d + 1
    BY <1>5, <2>1, <2>3
  <2>5. a1 = a /\ f1 = f /\ e1 = e /\ consumed' = consumed
    BY <1>13 DEF SyncAndDeliver
  <2>6. b1 \in Nat
    BY LenProperties DEF Delivery, OutputTypes
  <2> HIDE DEF a, a1, b, b1, u, u1, e, e1, f, f1, d, d1
  <2> QED  BY <1>2, <1>3, <1>4, <2>1, <2>2, <2>4, <2>5, <2>6
<1>14. ASSUME ResetDecoder PROVE Goal
  <2>1. /\ pc = "app" /\ RunStatus \in {"incompatible", "failed"}
        /\ decQ' = <<>> /\ outPool' = <<>> /\ delivPool' = <<>>
        /\ UNCHANGED <<consumed, curOut, dpc, delivered>>
    BY <1>14 DEF ResetDecoder, Recoverable
  <2>2. sts \notin Errors
    BY <2>1 DEF RunStatus, StatusesForgiven, Errors, Going
  <2>3. d = consumed
    BY <2>1, <2>2 DEF AllDelivered
  <2>4. a1 = 0 /\ b1 = 0 /\ e1 = 0 /\ u1 = u /\ f1 = f /\ d1 = d /\ consumed' = consumed
    BY <2>1, EmptySeq
  <2> HIDE DEF a, a1, b, b1, u, u1, e, e1, f, f1, d, d1
  <2> QED  BY <1>2, <1>3, <1>4, <2>3, <2>4
<1>15. ASSUME DeliverTest \/ DeliverWait \/ DeliverSignal \/ DeliverReturn \/ DeliverCount
       PROVE  Goal
  <2>1. UNCHANGED <<consumed, decQ, outPool, curOut, delivPool, delivered>>
    BY <1>15 DEF DeliverTest, DeliverWait, DeliverSignal, DeliverReturn, DeliverCount
  <2>2. dpc' # "deliver" /\ dpc # "deliver"
    BY <1>15 DEF DeliverTest, DeliverWait, DeliverSignal, DeliverReturn, DeliverCount
  <2> QED  BY <1>6, <2>1, <2>2
<1>16. ASSUME DeliverTake PROVE Goal
  <2>1. /\ dpc = "take" /\ dpc' = "deliver" /\ delivPool # <<>> /\ delivPool' = Tail(delivPool)
        /\ UNCHANGED <<consumed, decQ, outPool, curOut, delivered>>
    BY <1>1, <1>16 DEF DeliverTake
  <2>2. e1 = e - 1
    BY <1>1, <2>1, TailElements
  <2>3. f = 0 /\ f1 = 1
    BY <2>1 DEF One
  <2>4. a1 = a /\ b1 = b /\ u1 = u /\ d1 = d /\ consumed' = consumed
    BY <2>1
  <2> HIDE DEF a, a1, b, b1, u, u1, e, e1, f, f1, d, d1
  <2> QED  BY <1>2, <1>3, <1>4, <2>2, <2>3, <2>4
<1>17. ASSUME DeliverOutput PROVE Goal
  <2>1. /\ dpc = "deliver" /\ dpc' = "return"
        /\ delivered' = Append(delivered, content[dcur.surf])
        /\ UNCHANGED <<consumed, decQ, outPool, curOut, delivPool>>
    BY <1>17, NotForgiven DEF DeliverOutput
  <2>2. dcur.surf \in Surfaces
    BY <2>1 DEF Delivery, DeliveryThread, OutputTypes, Outputs, Output
  <2>3. d1 = d + 1
    BY <1>5, <2>1, <2>2
  <2>4. f = 1 /\ f1 = 0
    BY <2>1 DEF One
  <2>5. a1 = a /\ b1 = b /\ u1 = u /\ e1 = e /\ consumed' = consumed
    BY <2>1
  <2> HIDE DEF a, a1, b, b1, u, u1, e, e1, f, f1, d, d1
  <2> QED  BY <1>2, <1>3, <1>4, <2>3, <2>4, <2>5
<1>18. Goal => FramesCounted'
    BY DEF FramesCounted
<1> HIDE DEF Goal
<1>19. Goal
    BY <1>7, <1>8, <1>9, <1>10, <1>11, <1>12, <1>13, <1>14, <1>15, <1>16, <1>17
       DEF Next, MainThread, DeliverLoop, Done
<1> QED  BY <1>18, <1>19

(* The stream is read to its end before the bitstream is given up, and the *)
(* loop that drains the output queue ends with an empty queue.             *)
LEMMA ReadStep ==
    ASSUME Control, Pools, Delivery, NothingFails, StatusesForgiven, StreamRead, [Next]_vars
    PROVE  StreamRead'
<1> DEFINE Goal == StreamRead'
<1> USE DEF ctlVars, loopVars, inVars, decVars, poolVars, outVars, delivVars, thrVars,
            cntVars, CallSync
<1>1. /\ NumFrames' = NumFrames /\ NumFrames \in Nat
      /\ fed \in 0..NumFrames /\ consumed \in 0..fed
    BY ConfigurationKept, ConfigurationFacts DEF Control, StreamTypes
<1>2. /\ pc = "top" /\ sts = "more_data" => consumed = fed
      /\ ~pBitstream /\ pc \notin {"start", "done"} => incompatible \/ consumed = NumFrames
    BY DEF StreamRead, WholeStream
<1>3. ASSUME UNCHANGED <<pBitstream, incompatible, consumed, fed>>,
             pc' = "top" => sts' # "more_data", pc \notin {"start", "done"}
      PROVE  Goal
    BY <1>1, <1>2, <1>3 DEF StreamRead, WholeStream
<1>4. ASSUME UNCHANGED <<pBitstream, incompatible, consumed, fed, pc, sts>> PROVE Goal
    BY <1>1, <1>2, <1>4 DEF StreamRead, WholeStream
<1>5. ASSUME StartRun PROVE Goal
    BY <1>5 DEF StreamRead, WholeStream, StartRun
<1>6. ASSUME ReadNextFrame PROVE Goal
  <2>1. /\ pc = "top" /\ pc' = "take" /\ UNCHANGED <<incompatible, consumed>>
        /\ \/ sts = "more_data" /\ pBitstream' = (fed < NumFrames)
           \/ UNCHANGED pBitstream
    BY <1>6 DEF ReadNextFrame
  <2>2. CASE UNCHANGED pBitstream
    BY <1>1, <1>2, <2>1, <2>2 DEF StreamRead, WholeStream
  <2>3. CASE sts = "more_data" /\ pBitstream' = (fed < NumFrames)
    <3>1. consumed = fed
      BY <1>2, <2>1, <2>3
    <3>2. ~ (fed < NumFrames) => consumed = NumFrames
      BY <1>1, <3>1
    <3>3. ~pBitstream' => consumed' = NumFrames'
      BY <1>1, <2>1, <2>3, <3>2
    <3> QED  BY <2>1, <3>3 DEF StreamRead, WholeStream
  <2> QED  BY <2>1, <2>2, <2>3
<1>7. ASSUME DecodeFrameAsync PROVE Goal
  <2>1. UNCHANGED <<pBitstream, fed>>
    BY <1>7 DEF DecodeFrameAsync
  <2>2. pc' = "top" /\ pBitstream /\ (sts' = "more_data" => consumed' = fed')
    BY <1>7, DecodedFrame DEF Delivery
  <2> QED  BY <2>1, <2>2 DEF StreamRead
<1>8. ASSUME PullBuffered PROVE Goal
  <2>1. UNCHANGED <<pBitstream, incompatible, consumed, fed>> /\ pc = "decode"
    BY <1>8 DEF PullBuffered
  <2>2. pc' = "top" => sts' = "none"
    BY <1>8, PulledFrame DEF Delivery
  <2> QED  BY <1>3, <2>1, <2>2
<1>9. ASSUME NeedsMoreData PROVE Goal
  <2>1. /\ UNCHANGED <<pBitstream, incompatible, consumed, fed>>
        /\ pc = "decode" /\ pBitstream /\ consumed = fed
    BY <1>9 DEF NeedsMoreData
  <2> QED  BY <2>1 DEF StreamRead
<1>10. ASSUME DecodeTrouble PROVE Goal
  <2>1. /\ pc = "decode" /\ UNCHANGED <<consumed, fed>> /\ (pc' = "top" => sts' # "more_data")
        /\ \/ UNCHANGED <<pBitstream, incompatible>>
           \/ incompatible' = TRUE
    BY <1>10, NotForgiven DEF DecodeTrouble
  <2> QED  BY <1>1, <1>2, <2>1 DEF StreamRead, WholeStream
<1>11. ASSUME LeaveLoop \/ TakeSurfaces \/ SyncNothing \/ SyncFails \/ SyncForDelivery
              \/ ResetEvent \/ PostDelivered \/ SyncAndDeliver
       PROVE  Goal
  <2>1. /\ UNCHANGED <<pBitstream, incompatible, consumed, fed>>
        /\ pc \notin {"start", "done"} /\ pc' # "top"
    BY <1>11 DEF LeaveLoop, TakeSurfaces, SyncNothing, SyncFails, SyncForDelivery,
                 ResetEvent, PostDelivered, SyncAndDeliver
  <2> QED  BY <1>3, <2>1
<1>12. ASSUME StuckReturns \/ CompareCounts \/ TimedWait \/ BusyReturns \/ DrainReturns
       PROVE  Goal
  <2>1. /\ UNCHANGED <<pBitstream, incompatible, consumed, fed>>
        /\ pc \notin {"start", "done"} /\ (pc' = "top" => sts' # "more_data")
    BY <1>12 DEF StuckReturns, CompareCounts, TimedWait, BusyReturns, DrainReturns, Errors
  <2> QED  BY <1>3, <2>1
<1>13. ASSUME Drained \/ WaitDelivered \/ EndRun \/ JoinDelivery \/ Exit PROVE Goal
  <2>1. /\ UNCHANGED <<pBitstream, incompatible, consumed, fed>>
        /\ pc \notin {"start", "done"} /\ pc' # "top"
    BY <1>13 DEF Drained, WaitDelivered, EndRun, JoinDelivery, Exit
  <2> QED  BY <1>3, <2>1
<1>14. ASSUME ResetDecoder PROVE Goal
    BY <1>14 DEF ResetDecoder, StreamRead
<1>15. ASSUME DeliverLoop PROVE Goal
  <2>1. UNCHANGED <<pBitstream, incompatible, consumed, fed, pc, sts>>
    BY <1>15 DEF DeliverLoop, DeliverTest, DeliverWait, DeliverTake, DeliverOutput,
                 DeliverReturn, DeliverCount, DeliverSignal
  <2> QED  BY <1>4, <2>1
<1>16. ASSUME NEW s \in Surfaces, LibraryUnlocks(s) PROVE Goal
    BY <1>4, <1>16 DEF LibraryUnlocks
<1>17. ASSUME UNCHANGED vars PROVE Goal
    BY <1>4, <1>17 DEF vars
<1> HIDE DEF Goal
<1>18. Goal
    BY <1>5, <1>6, <1>7, <1>8, <1>9, <1>10, <1>11, <1>12, <1>13, <1>14, <1>15,
       <1>16, <1>17 DEF Next, MainThread, Done
<1> QED  BY <1>18 DEF Goal

LEMMA EmptyingStep ==
    ASSUME Control, Pools, Delivery, NothingFails, StatusesForgiven,
           Emptying, NothingQueued, Emptied, [Next]_vars
    PROVE  Emptying' /\ NothingQueued' /\ Emptied'
<1> DEFINE Goal == Emptying' /\ NothingQueued' /\ Emptied'
<1> USE DEF ctlVars, loopVars, inVars, decVars, poolVars, outVars, delivVars, thrVars,
            cntVars, CallSync
<1>1. /\ caller = "drain" /\ pc \in {"sync", "reset", "post", "return"}
             => ~pBitstream /\ decQ = <<>>
      /\ res = "more_data" /\ pc = "return" => outPool = <<>> /\ curOut = NoOutput
      /\ pc \in {"drained", "wait"} /\ sts \notin Errors =>
             ~pBitstream /\ decQ = <<>> /\ outPool = <<>> /\ curOut = NoOutput
      /\ res \in {"none", "more_data", "gpu_hang"}
    BY DEF Emptying, NothingQueued, Emptied, StatusesForgiven
<1>2. ASSUME UNCHANGED <<pc, sts, res, caller, pBitstream, decQ, outPool, curOut>> PROVE Goal
    BY <1>1, <1>2 DEF Emptying, NothingQueued, Emptied
<1>3. ASSUME pc' \notin {"sync", "reset", "post", "return", "drained", "wait"} PROVE Goal
    BY <1>3 DEF Emptying, NothingQueued, Emptied
<1>4. ASSUME pc' = "sync", caller' # "drain" PROVE Goal
    BY <1>4 DEF Emptying, NothingQueued, Emptied
<1>5. ASSUME pc \in {"sync", "reset", "post"}, pc' \in {"reset", "post", "return"},
             UNCHANGED <<caller, pBitstream, decQ>>,
             pc' = "return" /\ res' = "more_data" => outPool' = <<>> /\ curOut' = NoOutput
      PROVE  Goal
    BY <1>1, <1>5 DEF Emptying, NothingQueued, Emptied
<1>6. ASSUME StartRun \/ LeaveLoop \/ ReadNextFrame \/ NeedsMoreData \/ DecodeFrameAsync
      PROVE  Goal
  <2>1. CASE StartRun \/ LeaveLoop \/ ReadNextFrame \/ NeedsMoreData
    BY <1>3, <2>1 DEF StartRun, LeaveLoop, ReadNextFrame, NeedsMoreData
  <2>2. CASE DecodeFrameAsync
    <3>1. pc' = "top"
      BY <2>2, DecodedFrame DEF Delivery
    <3> QED  BY <1>3, <3>1
  <2> QED  BY <1>6, <2>1, <2>2
<1>7. ASSUME TakeSurfaces \/ DecodeTrouble PROVE Goal
  <2>1. pc' \in {"end", "decode", "top"} \/ (pc' = "sync" /\ caller' # "drain")
    BY <1>7 DEF TakeSurfaces, DecodeTrouble
  <2> QED  BY <1>3, <1>4, <2>1
<1>8. ASSUME PullBuffered PROVE Goal
  <2>1. /\ ~pBitstream /\ UNCHANGED pBitstream
        /\ pc' = "top" \/ (pc' = "sync" /\ caller' = "drain" /\ decQ' = <<>>)
    BY <1>8, PulledFrame DEF Delivery, PullBuffered
  <2> QED  BY <2>1 DEF Emptying, NothingQueued, Emptied
<1>9. ASSUME SyncNothing \/ SyncFails \/ SyncForDelivery \/ ResetEvent \/ PostDelivered
             \/ SyncAndDeliver
      PROVE  Goal
  <2>1. /\ pc \in {"sync", "reset", "post"} /\ pc' \in {"reset", "post", "return"}
        /\ UNCHANGED <<caller, pBitstream, decQ>>
    BY <1>9 DEF SyncNothing, SyncFails, SyncForDelivery, ResetEvent, PostDelivered,
                SyncAndDeliver
  <2>2. pc' = "return" /\ res' = "more_data" => outPool' = <<>> /\ curOut' = NoOutput
    BY <1>9 DEF SyncNothing, SyncFails, SyncForDelivery, ResetEvent, PostDelivered,
                SyncAndDeliver
  <2> QED  BY <1>5, <2>1, <2>2
<1>10. ASSUME StuckReturns \/ CompareCounts \/ TimedWait \/ BusyReturns PROVE Goal
    BY <1>3, <1>10 DEF StuckReturns, CompareCounts, TimedWait, BusyReturns
<1>11. ASSUME DrainReturns PROVE Goal
  <2>1. /\ pc = "return" /\ caller = "drain" /\ UNCHANGED <<caller, pBitstream, decQ, outPool, curOut>>
        /\ \/ pc' = "sync"
           \/ pc' = "drained" /\ res = "more_data"
           \/ pc' = "drained" /\ sts' = "gpu_hang"
    BY <1>1, <1>11 DEF DrainReturns
  <2>2. sts' = "gpu_hang" => sts' \in Errors
    BY DEF Errors
  <2> QED  BY <1>1, <2>1, <2>2 DEF Emptying, NothingQueued, Emptied
<1>12. ASSUME Drained \/ WaitDelivered PROVE Goal
  <2>1. /\ pc \in {"drained", "wait"} /\ pc' \in {"end", "wait", "done", "drained"}
        /\ UNCHANGED <<sts, pBitstream, decQ, outPool, curOut>>
    BY <1>12 DEF Drained, WaitDelivered
  <2> QED  BY <1>1, <2>1 DEF Emptying, NothingQueued, Emptied
<1>13. ASSUME EndRun \/ JoinDelivery \/ Exit \/ ResetDecoder PROVE Goal
    BY <1>3, <1>13 DEF EndRun, JoinDelivery, Exit, ResetDecoder
<1>14. ASSUME DeliverLoop PROVE Goal
  <2>1. UNCHANGED <<pc, sts, res, caller, pBitstream, decQ, outPool, curOut>>
    BY <1>14 DEF DeliverLoop, DeliverTest, DeliverWait, DeliverTake, DeliverOutput,
                 DeliverReturn, DeliverCount, DeliverSignal
  <2> QED  BY <1>2, <2>1
<1>15. ASSUME NEW s \in Surfaces, LibraryUnlocks(s) PROVE Goal
    BY <1>2, <1>15 DEF LibraryUnlocks
<1>16. ASSUME UNCHANGED vars PROVE Goal
    BY <1>2, <1>16 DEF vars
<1> HIDE DEF Goal
<1>17. Goal
    BY <1>6, <1>7, <1>8, <1>9, <1>10, <1>11, <1>12, <1>13, <1>14, <1>15, <1>16
       DEF Next, MainThread, Done
<1> QED  BY <1>17 DEF Goal

(* The loop is left without an error only when every frame was delivered.  *)
LEMMA AllDeliveredStep ==
    ASSUME Control, Pools, Delivery, NothingFails, StatusesForgiven, Accounted,
           output < FrameLimit, [Next]_vars
    PROVE  AllDelivered'
<1> DEFINE Goal == AllDelivered'
<1> USE DEF ctlVars, loopVars, inVars, decVars, poolVars, outVars, delivVars, thrVars,
            cntVars, CallSync
<1>1. /\ NumFrames' = NumFrames /\ FrameLimit \in Nat /\ output \in Nat
      /\ sts \in Going \cup {"gpu_hang", "not_found"}
      /\ error = "none" /\ (stop => pc \in {"join", "app", "done"})
      /\ pc \in {"end", "join", "app"} /\ sts \notin Errors =>
             WholeStream /\ Len(delivered) = consumed
    BY ConfigurationKept, ConfigurationFacts
       DEF Control, StreamTypes, ThreadTypes, StatusesForgiven, Accounted, AllDelivered
<1>2. "gpu_hang" \in Errors /\ "not_found" \in Errors
    BY DEF Errors
<1>3. ASSUME pc' \notin {"end", "join", "app"} PROVE Goal
    BY <1>3 DEF AllDelivered
<1>4. ASSUME pc' = "end", sts' \in Errors PROVE Goal
    BY <1>4 DEF AllDelivered
<1>5. ASSUME UNCHANGED <<incompatible, consumed, delivered, sts>>,
             pc \in {"end", "join", "app"}
      PROVE  Goal
    BY <1>1, <1>5 DEF AllDelivered, WholeStream
<1>6. ASSUME LeaveLoop PROVE Goal
  <2>1. ~ LoopGoesOn /\ pc' = "end" /\ sts' = sts
    BY <1>1, <1>6 DEF LeaveLoop
  <2>2. sts \notin Going
    BY <1>1, <2>1 DEF LoopGoesOn
  <2> QED  BY <1>1, <1>2, <1>4, <2>1, <2>2
<1>7. ASSUME TakeSurfaces PROVE Goal
  <2>1. pc = "take" /\ pc' \in {"sync", "end", "decode"} /\ (pc' = "end" => stop)
    BY <1>7 DEF TakeSurfaces
  <2> QED  BY <1>1, <1>3, <2>1
<1>8. ASSUME StartRun \/ ReadNextFrame \/ NeedsMoreData \/ DecodeTrouble \/ SyncNothing
             \/ SyncFails \/ SyncForDelivery \/ ResetEvent \/ PostDelivered
             \/ SyncAndDeliver \/ TimedWait \/ BusyReturns \/ DrainReturns \/ WaitDelivered
             \/ Exit \/ ResetDecoder
      PROVE  Goal
    BY <1>3, <1>8 DEF StartRun, ReadNextFrame, NeedsMoreData, DecodeTrouble, SyncNothing,
       SyncFails, SyncForDelivery, ResetEvent, PostDelivered, SyncAndDeliver, TimedWait,
       BusyReturns, DrainReturns, WaitDelivered, Exit, ResetDecoder
<1>9. ASSUME DecodeFrameAsync \/ PullBuffered PROVE Goal
  <2>1. pc' \in {"top", "sync"}
    BY <1>9, DecodedFrame, PulledFrame DEF Delivery
  <2> QED  BY <1>3, <2>1
<1>10. ASSUME StuckReturns \/ CompareCounts PROVE Goal
  <2>1. \/ pc' \in {"top", "counts", "timed_wait"}
        \/ pc' = "end" /\ sts' = "not_found"
    BY <1>10 DEF StuckReturns, CompareCounts
  <2> QED  BY <1>2, <1>3, <1>4, <2>1
<1>11. ASSUME Drained PROVE Goal
  <2>1. CASE pc' # "end"
    BY <1>3, <1>11, <2>1 DEF Drained
  <2>2. CASE sts \in Errors
    BY <1>3, <1>4, <1>11, <2>2 DEF Drained
  <2>3. CASE pc' = "end" /\ sts \notin Errors
    <3>1. /\ pc = "drained" /\ synced = output
          /\ UNCHANGED <<incompatible, consumed, delivered, sts>>
      BY <1>11, <2>3 DEF Drained
    <3>2. ~pBitstream /\ decQ = <<>> /\ outPool = <<>> /\ curOut = NoOutput
      BY <2>3, <3>1 DEF Accounted, Emptied
    <3>3. WholeStream
      BY <3>1, <3>2 DEF Accounted, StreamRead
    <3>4. delivPool \in Seq(Output) /\ Len(delivPool) \in Nat /\ Len(delivered) \in Nat
      BY LenProperties DEF Delivery, OutputTypes
    <3>5. Len(delivPool) = 0 /\ dpc # "deliver"
      <4>1. CASE Rendering
        <5> DEFINE b == Len(delivPool)
                   k == IF dpc \in {"deliver", "return", "count"} THEN 1 ELSE 0
        <5>1. synced = output + b + k
          BY <4>1 DEF StatusesForgiven, Delivery, CountersMeasureDelivery
        <5>2. k \in {0, 1} /\ (dpc = "deliver" => k = 1) /\ b \in Nat
          BY <3>4
        <5> HIDE DEF b, k
        <5>3. b = 0 /\ k = 0
          BY <1>1, <3>1, <5>1, <5>2
        <5> QED  BY <5>2, <5>3 DEF b
      <4>2. CASE ~ Rendering
        BY <4>2, EmptySeq DEF Delivery, DeliveryThread
      <4> QED  BY <4>1, <4>2
    <3>6. /\ Len(decQ) = 0 /\ Len(outPool) = 0 /\ One(curOut # NoOutput) = 0
          /\ One(dpc = "deliver") = 0
      BY <3>2, <3>5, EmptySeq DEF One
    <3>7. Len(delivered) = consumed
      <4> DEFINE d == Len(delivered)
      <4>1. consumed = 0 + 0 + 0 + 0 + 0 + d /\ d \in Nat
        BY <3>4, <3>5, <3>6 DEF Accounted, FramesCounted
      <4> HIDE DEF d
      <4>2. d = consumed
        BY <4>1
      <4> QED  BY <4>2 DEF d
    <3> QED  BY <1>1, <3>1, <3>3, <3>7 DEF AllDelivered, WholeStream
  <2> QED  BY <2>1, <2>2, <2>3
<1>12. ASSUME EndRun PROVE Goal
  <2>1. output # FrameLimit
    BY <1>1
  <2>2. pc = "end" /\ UNCHANGED <<incompatible, consumed, delivered, sts>>
    BY <1>12, <2>1 DEF EndRun
  <2> QED  BY <1>5, <2>2
<1>13. ASSUME JoinDelivery PROVE Goal
    BY <1>5, <1>13 DEF JoinDelivery
<1>14. ASSUME DeliverLoop PROVE Goal
  <2>1. UNCHANGED <<pc, incompatible, consumed, sts>>
    BY <1>14 DEF DeliverLoop, DeliverTest, DeliverWait, DeliverTake, DeliverOutput,
                 DeliverReturn, DeliverCount, DeliverSignal
  <2>2. CASE ~ (pc \in {"end", "join", "app"} /\ sts \notin Errors)
    BY <2>1, <2>2 DEF AllDelivered
  <2>3. CASE UNCHANGED delivered
    BY <1>1, <2>1, <2>3 DEF AllDelivered, WholeStream
  <2>4. CASE pc \in {"end", "join", "app"} /\ sts \notin Errors /\ dpc = "deliver"
    <3> DEFINE a == Len(decQ)
               b == Len(outPool)
               u == One(curOut # NoOutput)
               e == Len(delivPool)
               f == One(dpc = "deliver")
               d == Len(delivered)
    <3>1. d = consumed /\ consumed = a + b + u + e + f + d
      BY <1>1, <2>4 DEF Accounted, FramesCounted
    <3>2. a \in Nat /\ b \in Nat /\ e \in Nat /\ d \in Nat
      BY LenProperties DEF Pools, LibraryIn, DecoderTypes, Delivery, OutputTypes
    <3>3. u \in {0, 1} /\ f = 1
      BY <2>4 DEF One
    <3> HIDE DEF a, b, u, e, f, d
    <3> QED  BY <3>1, <3>2, <3>3
  <2>5. dpc = "deliver" \/ UNCHANGED delivered
    BY <1>14 DEF DeliverLoop, DeliverTest, DeliverWait, DeliverTake, DeliverOutput,
                 DeliverReturn, DeliverCount, DeliverSignal
  <2> QED  BY <2>2, <2>3, <2>4, <2>5
<1>15. ASSUME UNCHANGED <<pc, incompatible, consumed, delivered, sts>> PROVE Goal
  <2>1. CASE pc \in {"end", "join", "app"}
    BY <1>5, <1>15, <2>1
  <2>2. CASE pc \notin {"end", "join", "app"}
    BY <1>3, <1>15, <2>2
  <2> QED  BY <2>1, <2>2
<1>16. ASSUME NEW s \in Surfaces, LibraryUnlocks(s) PROVE Goal
    BY <1>15, <1>16 DEF LibraryUnlocks
<1>17. ASSUME UNCHANGED vars PROVE Goal
    BY <1>15, <1>17 DEF vars
<1> HIDE DEF Goal
<1>18. Goal
    BY <1>6, <1>7, <1>8, <1>9, <1>10, <1>11, <1>12, <1>13, <1>14, <1>16, <1>17
       DEF Next, MainThread, Done
<1> QED  BY <1>18 DEF Goal

(* "Finished" is said of a stream that was read and delivered, or when     *)
(* m_nFrames were delivered.                                               *)
LEMMA FinishedStep ==
    ASSUME Control, Delivery, NothingFails, StatusesForgiven, DeliveredCounted,
           output < FrameLimit => Accounted, FinishedMeansComplete,
           Len(delivered') >= Len(delivered), Len(delivered') \in Nat, [Next]_vars
    PROVE  FinishedMeansComplete'
<1> USE DEF ctlVars, loopVars, inVars, decVars, poolVars, outVars, delivVars, thrVars,
            cntVars
<1>1. /\ NumFrames' = NumFrames /\ FrameLimit' = FrameLimit
      /\ NumFrames \in Nat /\ FrameLimit \in Nat /\ output \in Nat
      /\ Min({NumFrames, FrameLimit}) \in Nat
      /\ Min({NumFrames, FrameLimit}) <= NumFrames
      /\ Min({NumFrames, FrameLimit}) <= FrameLimit
    BY ConfigurationKept, ConfigurationFacts, MinOfTwo DEF Control, StreamTypes, ThreadTypes
<1>2. Len(delivered) \in Nat
    BY LenProperties DEF Delivery, OutputTypes
<1> SUFFICES ASSUME exit' = "finished"
             PROVE  Len(delivered') >= Min({NumFrames, FrameLimit})
    BY <1>1 DEF FinishedMeansComplete
<1>3. CASE exit = "finished"
  <2>1. Len(delivered) >= Min({NumFrames, FrameLimit})
    BY <1>3 DEF FinishedMeansComplete, NothingFails
  <2> DEFINE d == Len(delivered)   d1 == Len(delivered')   m == Min({NumFrames, FrameLimit})
  <2>2. d >= m /\ d1 >= d /\ d \in Nat /\ d1 \in Nat /\ m \in Nat
    BY <1>1, <1>2, <2>1
  <2> HIDE DEF d, d1, m
  <2>3. d1 >= m
    BY <2>2
  <2> QED  BY <2>3 DEF d1, m
<1>4. CASE exit # "finished"
  <2>1. Exit
    BY <1>4 DEF Next, MainThread, DeliverLoop, Done, vars, StartRun, LeaveLoop, ReadNextFrame,
         TakeSurfaces, DecodeFrameAsync, NeedsMoreData, PullBuffered, DecodeTrouble,
         SyncNothing, SyncFails, SyncForDelivery, ResetEvent, PostDelivered,
         SyncAndDeliver, StuckReturns, CompareCounts, TimedWait, BusyReturns,
         DrainReturns, Drained, WaitDelivered, EndRun, JoinDelivery, ResetDecoder,
         DeliverTest, DeliverWait, DeliverTake, DeliverOutput, DeliverReturn,
         DeliverCount, DeliverSignal, LibraryUnlocks
  <2>2. /\ pc = "app" /\ ~Recoverable /\ RunStatus \notin Errors /\ delivered' = delivered
    BY <2>1 DEF Exit
  <2>3. sts \notin Errors /\ ~incompatible
    BY <2>2 DEF Recoverable, RunStatus
  <2>4. CASE output < FrameLimit
    <3>1. consumed = NumFrames /\ Len(delivered) = consumed
      BY <2>2, <2>3, <2>4 DEF Accounted, AllDelivered, WholeStream
    <3> QED  BY <1>1, <2>2, <3>1
  <2>5. CASE ~ (output < FrameLimit)
    <3> DEFINE d == Len(delivered)   m == Min({NumFrames, FrameLimit})
               k == One(dpc \in {"return", "count"})
    <3>1. d = output + k /\ k \in {0, 1} /\ m \in Nat /\ m <= FrameLimit
      BY <1>1 DEF DeliveredCounted, One
    <3> HIDE DEF d, m, k
    <3>2. d >= m
      BY <1>1, <2>5, <3>1
    <3> QED  BY <2>2, <3>2 DEF d, m
  <2> QED  BY <2>4, <2>5
<1> QED  BY <1>3, <1>4

LEMMA CompleteInitially == Init => CompleteInv
<1> SUFFICES ASSUME Init PROVE CompleteInv
    OBVIOUS
<1>1. /\ pc = "start" /\ sts = "none" /\ caller = "stuck" /\ res = "none"
      /\ pBitstream = TRUE /\ incompatible = FALSE /\ exit = "running"
      /\ consumed = 0 /\ decQ = <<>> /\ outPool = <<>> /\ curOut = NoOutput /\ alloc = 1
      /\ delivPool = <<>> /\ stop = FALSE /\ error = "none" /\ dpc = "none"
      /\ synced = 0 /\ output = 0 /\ delivered = <<>>
    BY Zenon DEF Init
<1>2. Len(decQ) = 0 /\ Len(outPool) = 0 /\ Len(delivPool) = 0 /\ Len(delivered) = 0
    BY <1>1, EmptySeq
<1>3. /\ One(curOut # NoOutput) = 0 /\ One(dpc = "deliver") = 0
      /\ One(dpc \in {"return", "count"}) = 0
    BY <1>1 DEF One
<1>4. StatusesForgiven
    BY <1>1 DEF StatusesForgiven, Going
<1>5. FramesCounted /\ DeliveredCounted
    BY <1>1, <1>2, <1>3 DEF FramesCounted, DeliveredCounted
<1>6. StreamRead /\ Emptying /\ NothingQueued /\ Emptied /\ AllDelivered
    BY <1>1 DEF StreamRead, Emptying, NothingQueued, Emptied, AllDelivered
<1>7. FinishedMeansComplete
    BY <1>1 DEF FinishedMeansComplete
<1> QED  BY <1>4, <1>5, <1>6, <1>7 DEF CompleteInv, Accounted

(* Where every frame is, in every reachable state, when nothing fails that *)
(* the program does not forgive.                                           *)
THEOREM CompleteInvariantHolds == Spec => []CompleteInv
<1>1. Control /\ Pools /\ Delivery /\ Delivery' /\ CompleteInv /\ [Next]_vars => CompleteInv'
  <2> SUFFICES ASSUME Control, Pools, Delivery, Delivery', CompleteInv, [Next]_vars,
                      NothingFails'
               PROVE  (/\ StatusesForgiven /\ DeliveredCounted
                       /\ output < FrameLimit => Accounted
                       /\ FinishedMeansComplete)'
    BY DEF CompleteInv
  <2>1. /\ NothingFails /\ FrameLimit' = FrameLimit /\ FrameLimit \in Nat
        /\ output \in Nat /\ output' \in Nat
    <3>1. opt' = opt /\ Rendering' = Rendering /\ Control'
      BY ConfigurationKept, ControlStep
    <3>2. FrameLimit' = FrameLimit /\ FrameLimit \in Nat
      BY <3>1, ConfigurationKept, ConfigurationFacts DEF Control, StreamTypes
    <3> QED  BY <3>1, <3>2 DEF NothingFails, Forgiven, Control, ThreadTypes
  <2>2. /\ StatusesForgiven /\ DeliveredCounted
        /\ output < FrameLimit => Accounted
        /\ FinishedMeansComplete
    BY <2>1 DEF CompleteInv
  <2>3. StatusesForgiven'
    BY <2>1, <2>2, StatusesStep
  <2>4. DeliveredCounted' /\ output' >= output /\ Len(delivered') >= Len(delivered)
    BY <2>1, <2>2, DeliveredStep
  <2>5. ASSUME output' < FrameLimit' PROVE Accounted'
    <3>1. output < FrameLimit
      BY <2>1, <2>4, <2>5
    <3>2. Accounted
      BY <2>2, <3>1
    <3>3. FramesCounted' /\ StreamRead'
      BY <2>1, <2>2, <3>2, FramesStep, ReadStep DEF Accounted
    <3>4. Emptying' /\ NothingQueued' /\ Emptied'
      BY <2>1, <2>2, <3>2, EmptyingStep DEF Accounted
    <3>5. AllDelivered'
      BY <2>1, <2>2, <3>1, <3>2, AllDeliveredStep
    <3> QED  BY <3>3, <3>4, <3>5 DEF Accounted
  <2>6. Len(delivered') \in Nat
    BY LenProperties DEF Delivery, OutputTypes
  <2>7. FinishedMeansComplete'
    BY <2>1, <2>2, <2>4, <2>6, FinishedStep
  <2> QED  BY <2>3, <2>4, <2>5, <2>7
<1> QED  BY <1>1, CompleteInitially, PoolsHold, DeliveryHolds, PTL DEF Spec

(* A program that says it finished has delivered the whole stream, or as   *)
(* many frames as were asked for, for every stream, mode, number of        *)
(* surfaces and interleaving of the two threads: neither a GPU hang, a     *)
(* busy device, a reallocated surface or a chance wake-up, nor a change of *)
(* parameters that resets the decoder, makes a frame get lost.             *)
THEOREM FinishedIsComplete == Spec => []FinishedMeansComplete
<1>1. CompleteInv => FinishedMeansComplete
    BY DEF CompleteInv, NothingFails, FinishedMeansComplete
<1> QED  BY <1>1, CompleteInvariantHolds, PTL

=============================================================================
